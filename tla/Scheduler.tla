------------------------------ MODULE Scheduler ------------------------------
(***************************************************************************)
(* The continuous-batching scheduler thread of translator-core              *)
(* (src/translator-core/src/scheduler/continuous.rs): run_loop with its     *)
(* helpers tokenize_into_pending, collect_pending and                       *)
(* batch_prefill_and_assign, between a bounded work channel and one reply   *)
(* per work item.                                                           *)
(*                                                                          *)
(* The thread is sequential, so its state is a program counter and its      *)
(* local variables; what interleaves with it are the callers that put       *)
(* items into the channel and the last caller that closes it.  Tokens, text *)
(* and logits are abstracted to lengths and to the choice whether a sampled *)
(* token ends the generation.  llama.cpp is external: it stores one cache   *)
(* cell per decoded token and may refuse a batch.                           *)
(***************************************************************************)
EXTENDS Integers, Sequences, FiniteSets

CONSTANTS
  Items,          \* the work items that callers may submit, each at most once
  NSlots,         \* n_slots
  KvBudget,       \* kv_budget_per_slot
  InputHeadroom,  \* INPUT_HEADROOM
  SlotCapacity,   \* SLOT_CAPACITY
  QueueCapacity,  \* capacity of the bounded work channel
  PromptLens,     \* the numbers of tokens a prompt may have
  Faults          \* which external faults may happen: see FaultKinds

FaultKinds == {"context", "tokenizer", "decode", "panic"}

ASSUME ItemsFinite == IsFiniteSet(Items)
ASSUME SlotsPositive == NSlots \in Nat \ {0}
ASSUME BudgetsNatural ==
  /\ KvBudget \in Nat /\ InputHeadroom \in Nat
  /\ SlotCapacity \in Nat
\* A channel of capacity 0 would hand items over directly.
ASSUME QueueHolds == QueueCapacity \in Nat \ {0}
ASSUME PromptsNonempty == PromptLens \subseteq Nat \ {0}
ASSUME FaultsKnown == Faults \subseteq FaultKinds

VARIABLES
  pc,           \* where the thread is
  after,        \* where it goes once the current prefill batch is assigned
  queue,        \* work_rx: the items in the bounded channel
  open,         \* does some Sender of the channel still exist?
  submitted,    \* the items that were ever put into the channel
  pending,      \* the prompts collected for the next prefill
  room,         \* how many more prompts collect_pending may take
  carry,        \* carry_over
  entries,      \* the PrefillEntry list of the batch being prefilled
  batchTokens,  \* batch_token_count
  slots,        \* the occupied slots, a function from slot index to Slot
  free,         \* free_seq_ids
  kv,           \* external: cells of the context that each sequence occupies
  replies       \* the results sent to each item's caller, in order

queueVars == <<queue, open, submitted>>
collectVars == <<pending, room, carry>>
batchVars == <<entries, batchTokens>>
slotVars == <<slots, free, kv>>
vars == <<pc, after, queueVars, collectVars, batchVars, slotVars, replies>>

SlotIds == 0 .. NSlots - 1
SeqIds == 0 .. NSlots - 1

\* n_ctx: the size of the context and the capacity of the token batch.
NCtx == NSlots * KvBudget

\* max_prompt_tokens, a saturating subtraction.
MaxPrompt == IF KvBudget >= InputHeadroom THEN KvBudget - InputHeadroom ELSE 0

Results == {"ok", "too_long", "model"}

PendingPrefill == [item : Items, len : 1 .. MaxPrompt]
PrefillEntry == [item : Items, len : 1 .. MaxPrompt, seq : SeqIds]
Slot == [item : Items, seq : SeqIds, pos : Nat, out : Nat \ {0}]

Active == DOMAIN slots
EmptySlots == SlotIds \ Active

\* slots[s] = Some(slot)
Occupy(s, slot) == [t \in Active \cup {s} |-> IF t = s THEN slot ELSE slots[t]]

Reply(i, r) == replies' = [replies EXCEPT ![i] = Append(@, r)]

Clear(S) == [q \in SeqIds |-> IF q \in S THEN 0 ELSE kv[q]]

Init ==
  /\ pc = "start" /\ after = "dispatch"
  /\ queue = <<>> /\ open = TRUE /\ submitted = {}
  /\ pending = <<>> /\ room = 0 /\ carry = <<>>
  /\ entries = <<>> /\ batchTokens = 0
  /\ slots = [s \in {} |-> 0]
  /\ free = SeqIds
  /\ kv = [q \in SeqIds |-> 0]
  /\ replies = [i \in Items |-> <<>>]

-----------------------------------------------------------------------------
(* The callers *)

\* tx.try_send / send_timeout: refused when full, an error when the thread ended.
Submit(i) ==
  /\ open /\ pc # "stopped"
  /\ i \notin submitted
  /\ Len(queue) < QueueCapacity
  /\ queue' = Append(queue, i)
  /\ submitted' = submitted \cup {i}
  /\ UNCHANGED <<pc, after, open, collectVars, batchVars, slotVars, replies>>

\* The last clone of the engine drops its Sender.
CloseChannel ==
  /\ open
  /\ open' = FALSE
  /\ UNCHANGED <<pc, after, queue, submitted, collectVars, batchVars, slotVars,
                 replies>>

-----------------------------------------------------------------------------
(* The start and the end of the thread *)

\* The thread returns or unwinds: the receiver and every local is dropped, and
\* with them each reply sender that they hold.  (The locals no longer exist:
\* they are given their first values back.)
EndThread ==
  /\ pc' = "stopped" /\ after' = "dispatch"
  /\ queue' = <<>>
  /\ pending' = <<>> /\ room' = 0 /\ carry' = <<>>
  /\ entries' = <<>> /\ batchTokens' = 0
  /\ slots' = [s \in {} |-> 0]
  /\ free' = SeqIds
  /\ kv' = [q \in SeqIds |-> 0]
  /\ UNCHANGED <<open, submitted, replies>>

CreateContext ==
  /\ pc = "start"
  /\ pc' = "fill"
  /\ UNCHANGED <<after, queueVars, collectVars, batchVars, slotVars, replies>>

ContextFails == "context" \in Faults /\ pc = "start" /\ EndThread

\* A panic below the loop; the closure that runs the scheduler catches it.
Panic == "panic" \in Faults /\ pc \notin {"start", "stopped"} /\ EndThread

-----------------------------------------------------------------------------
(* Collecting prompts: loop top, overlap refill, idle accumulation *)

TooLong(n) == n > MaxPrompt

\* tokenize_into_pending on the head of the channel.
Tokenize ==
  /\ queue # <<>>
  /\ queue' = Tail(queue)
  /\ \/ \E n \in PromptLens :
          IF TooLong(n)
          THEN Reply(Head(queue), "too_long") /\ UNCHANGED pending
          ELSE /\ pending' = Append(pending, [item |-> Head(queue), len |-> n])
               /\ UNCHANGED replies
     \/ /\ "tokenizer" \in Faults
        /\ Reply(Head(queue), "model")
        /\ UNCHANGED pending

\* How many of n empty slots carry_over fills, and what it keeps then.
QueueFirst(n) == 0  \* mutant
FromCarry(n) == IF Len(carry) < n THEN Len(carry) ELSE n

CarryNotDrained(k) == carry  \* mutant
CarryLeft(k) == SubSeq(carry, k + 1, Len(carry))

\* Drain carry_over into the empty slots' share, then leave the rest of the
\* share to the channel.
StartFill(next) ==
  LET n == Cardinality(EmptySlots)
  IN /\ pending' = SubSeq(carry, 1, FromCarry(n))
     /\ carry' = CarryLeft(FromCarry(n))
     /\ room' = n - FromCarry(n)
     /\ pc' = "collect" /\ after' = next
     /\ UNCHANGED <<queueVars, batchVars, slotVars, replies>>

FillTop == pc = "fill" /\ StartFill("dispatch")
Refill == pc = "refill" /\ StartFill("fill")

Collect ==
  /\ pc = "collect" /\ room > 0
  /\ Tokenize
  /\ room' = room - 1
  /\ UNCHANGED <<pc, after, open, submitted, carry, batchVars, slotVars>>

\* The share is used up, or try_recv found the channel empty.
CollectDone ==
  /\ pc = "collect"
  /\ room = 0 \/ queue = <<>>
  /\ pc' = IF pending = <<>> THEN after ELSE "build"
  /\ room' = 0
  /\ UNCHANGED <<after, queueVars, pending, carry, batchVars, slotVars, replies>>

\* No active slot: the blocking recv of the idle branch returns an item.
IdleReceive ==
  /\ pc = "dispatch" /\ Active = {}
  /\ Tokenize
  /\ pc' = "accumulate"
  /\ UNCHANGED <<after, open, submitted, room, carry, batchVars, slotVars>>

IgnoreDisconnect ==  \* mutant
  /\ pc = "dispatch" /\ Active = {}
  /\ queue = <<>> /\ ~open
  /\ pc' = "fill"
  /\ UNCHANGED <<after, queueVars, collectVars, batchVars, slotVars, replies>>

\* No active slot, and recv reports that every Sender is gone.
Shutdown ==
  /\ pc = "dispatch" /\ Active = {}
  /\ queue = <<>> /\ ~open
  /\ EndThread

\* recv_timeout within the accumulation window.
Accumulate ==
  /\ pc = "accumulate"
  /\ Tokenize
  /\ UNCHANGED <<pc, after, open, submitted, room, carry, batchVars, slotVars>>

OverflowOffByOne == Len(pending) > NSlots + 1  \* mutant
Overflow == Len(pending) > NSlots

DeferNothing == carry  \* mutant
Deferred == SubSeq(pending, NSlots + 1, Len(pending))

\* The window closes: what exceeds the slots is deferred to carry_over, which
\* is assigned, not extended.
AccumulateDone ==
  /\ pc = "accumulate"
  /\ IF Overflow
     THEN /\ carry' = Deferred
          /\ pending' = SubSeq(pending, 1, NSlots)
     ELSE UNCHANGED <<pending, carry>>
  /\ pc' = IF pending = <<>> THEN "fill" ELSE "build"
  /\ after' = "fill"
  /\ UNCHANGED <<queueVars, room, batchVars, slotVars, replies>>

-----------------------------------------------------------------------------
(* batch_prefill_and_assign *)

\* Put the next prompt into the batch; "no free seq_id" is an error reply.
\* A batch without room for it is a panic (`expect`).
BuildEntry ==
  /\ pc = "build" /\ pending # <<>>
  /\ LET p == Head(pending)
     IN IF free = {}
        THEN /\ Reply(p.item, "model")
             /\ pending' = Tail(pending)
             /\ UNCHANGED <<pc, after, queueVars, room, carry, batchVars,
                            slotVars>>
        ELSE IF batchTokens + p.len > NCtx
        THEN EndThread
        ELSE /\ \E q \in free :
                  /\ free' = free \ {q}
                  /\ entries' = Append(entries,
                                  [item |-> p.item, len |-> p.len, seq |-> q])
             /\ batchTokens' = batchTokens + p.len
             /\ pending' = Tail(pending)
             /\ UNCHANGED <<pc, after, queueVars, room, carry, slots, kv,
                            replies>>

EntrySeqs == {entries[j].seq : j \in 1 .. Len(entries)}
PromptOf(q) == entries[CHOOSE j \in 1 .. Len(entries) : entries[j].seq = q].len

\* ctx.decode accepts the batch: every sequence in it gains its prompt's cells.
PrefillOk ==
  /\ pc = "build" /\ pending = <<>>
  /\ pc' = "assign"
  /\ kv' = [q \in SeqIds |-> IF q \in EntrySeqs THEN kv[q] + PromptOf(q)
                                                ELSE kv[q]]
  /\ UNCHANGED <<after, queueVars, collectVars, batchVars, slots, free, replies>>

\* ctx.decode refuses it: every entry is answered with the error.
PrefillFails ==
  /\ "decode" \in Faults
  /\ pc = "build" /\ pending = <<>>
  /\ free' = free \cup EntrySeqs
  /\ kv' = Clear(EntrySeqs)
  /\ replies' = [i \in Items |->
                   IF \E j \in 1 .. Len(entries) : entries[j].item = i
                   THEN Append(replies[i], "model") ELSE replies[i]]
  /\ entries' = <<>> /\ batchTokens' = 0
  /\ pc' = after
  /\ UNCHANGED <<after, queueVars, collectVars, slots>>

ForgetSequence(e, r) ==  \* mutant
  Reply(e.item, r) /\ UNCHANGED <<free, kv, slots>>

\* The sampled first token ends the generation, or no slot is empty: the
\* sequence goes back to the pool and the caller gets r.
DropEntry(e, r) ==
  /\ free' = free \cup {e.seq}
  /\ kv' = Clear({e.seq})
  /\ Reply(e.item, r)
  /\ UNCHANGED slots

\* Sample the first token of the next prefilled sequence and give it the first
\* empty slot.
AssignEntry ==
  /\ pc = "assign" /\ entries # <<>>
  /\ entries' = Tail(entries)
  /\ LET e == Head(entries)
     IN \/ DropEntry(e, "ok")
        \/ IF EmptySlots = {}
           THEN DropEntry(e, "model")
           ELSE /\ \E s \in EmptySlots :
                     /\ \A t \in EmptySlots : s <= t
                     /\ slots' = Occupy(s, [item |-> e.item, seq |-> e.seq,
                                           pos |-> e.len, out |-> 1])
                /\ UNCHANGED <<free, kv, replies>>
  /\ UNCHANGED <<pc, after, queueVars, collectVars, batchTokens>>

AssignDone ==
  /\ pc = "assign" /\ entries = <<>>
  /\ pc' = after
  /\ batchTokens' = 0
  /\ UNCHANGED <<after, queueVars, collectVars, entries, slotVars, replies>>

-----------------------------------------------------------------------------
(* The batched decode step *)

SeqsOf(S) == {slots[s].seq : s \in S}
ItemsOf(S) == {slots[s].item : s \in S}

\* Slots whose logits are masked down to the end token.
AtCapacity == {s \in Active : slots[s].out + 1 >= SlotCapacity}

RetireKeepsCells(S, grown) ==  \* mutant
  /\ free' = free \cup SeqsOf(S)
  /\ kv' = [q \in SeqIds |-> IF q \in grown THEN kv[q] + 1 ELSE kv[q]]

\* Take the slots in S and return their sequences; the sequences in grown
\* gained a cell in the decode call of this step.
Retire(S, grown) ==
  /\ free' = free \cup SeqsOf(S)
  /\ kv' = [q \in SeqIds |-> IF q \in SeqsOf(S) THEN 0
                             ELSE IF q \in grown THEN kv[q] + 1 ELSE kv[q]]

\* Every active slot advances by one token.  Those in done sampled an end
\* token; the text of those in bad cannot be decoded from its tokens.
DecodeOk ==
  /\ pc = "dispatch" /\ Active # {}
  /\ \E done \in SUBSET Active : \E bad \in SUBSET done :
       /\ AtCapacity \subseteq done
       /\ "tokenizer" \in Faults \/ bad = {}
       /\ Retire(done, SeqsOf(Active))
       /\ slots' = [s \in Active \ done |->
                      [slots[s] EXCEPT !.pos = @ + 1, !.out = @ + 1]]
       /\ replies' = [i \in Items |->
                        IF i \in ItemsOf(bad) THEN Append(replies[i], "model")
                        ELSE IF i \in ItemsOf(done) THEN Append(replies[i], "ok")
                        ELSE replies[i]]
  /\ pc' = "refill"
  /\ UNCHANGED <<after, queueVars, collectVars, batchVars>>

\* A sequence has used up its share of the context.
OverBudget == \E s \in Active : kv[slots[s].seq] >= KvBudget

\* ctx.decode refuses the batch: every active slot is answered with the error.
DecodeFails ==
  /\ "decode" \in Faults \/ OverBudget
  /\ pc = "dispatch" /\ Active # {}
  /\ Retire(Active, {})
  /\ slots' = [s \in {} |-> 0]
  /\ replies' = [i \in Items |-> IF i \in ItemsOf(Active)
                                 THEN Append(replies[i], "model")
                                 ELSE replies[i]]
  /\ pc' = "fill"
  /\ UNCHANGED <<after, queueVars, collectVars, batchVars>>

-----------------------------------------------------------------------------
(* The specification *)

Thread ==
  \/ CreateContext \/ ContextFails \/ Panic \/ Shutdown
  \/ FillTop \/ Refill \/ Collect \/ CollectDone
  \/ IdleReceive \/ Accumulate \/ AccumulateDone
  \/ BuildEntry \/ PrefillOk \/ PrefillFails \/ AssignEntry \/ AssignDone
  \/ DecodeOk \/ DecodeFails

Callers == CloseChannel \/ \E i \in Items : Submit(i)

\* The thread is gone and nobody can submit any more.
Terminated == pc = "stopped" /\ ~open /\ UNCHANGED vars

Next == Thread \/ Callers \/ Terminated

Spec == Init /\ [][Next]_vars

\* The thread runs whenever it can; a panic or a failing context is never owed.
FairSpec == Spec /\ WF_vars(Thread)

-----------------------------------------------------------------------------
(* Types *)

PcValues == {"start", "fill", "refill", "collect", "build", "assign",
             "dispatch", "accumulate", "stopped"}

\* Every variable has the type of the local variable or channel it models.
TypeOK ==
  /\ pc \in PcValues
  /\ after \in {"dispatch", "fill"}
  /\ queue \in Seq(Items) /\ Len(queue) <= QueueCapacity
  /\ open \in BOOLEAN
  /\ submitted \subseteq Items
  /\ pending \in Seq(PendingPrefill)
  /\ room \in Nat
  /\ carry \in Seq(PendingPrefill)
  /\ entries \in Seq(PrefillEntry)
  /\ batchTokens \in Nat
  /\ slots \in [Active -> Slot] /\ Active \subseteq SlotIds
  /\ free \subseteq SeqIds
  /\ kv \in [SeqIds -> Nat]
  /\ replies \in [Items -> Seq(Results)]

-----------------------------------------------------------------------------
(* Slots, sequences and cells *)

\* The slot array and the stack of free sequence ids agree: no sequence is in
\* two slots, or in a slot and in the batch, and none is lost.  (Every path that
\* takes a slot or drops an entry has to push its seq_id back exactly once:
\* continuous.rs:367, 428, 618, 644 and 668.)
PoolsAgree ==
  /\ \A s, t \in Active : slots[s].seq = slots[t].seq => s = t
  /\ \A j, k \in 1 .. Len(entries) : entries[j].seq = entries[k].seq => j = k
  /\ SeqsOf(Active) \cap EntrySeqs = {}
  /\ free = SeqIds \ (SeqsOf(Active) \cup EntrySeqs)

\* What batch_prefill_and_assign calls impossible is impossible: a prompt of
\* the batch always finds a free sequence (continuous.rs:575) and room in the
\* batch (`expect`, line 594), and a prefilled sequence an empty slot (666).
ResourcesSuffice ==
  /\ pc = "build" /\ pending # <<>> =>
       free # {} /\ batchTokens + Head(pending).len <= NCtx
  /\ pc = "assign" /\ entries # <<>> => EmptySlots # {}

\* How the lists of one round fit together: what is collected, being collected
\* and in the batch never exceeds the empty slots, the batch never exceeds its
\* prompts' budget, and each list is empty outside its phase.  (All three callers
\* of batch_prefill_and_assign have to establish it: 231, 314 and 443.)
BatchFits ==
  /\ pc \notin {"build", "assign"} => entries = <<>> /\ batchTokens = 0
  /\ pc \notin {"collect", "accumulate", "build"} => pending = <<>>
  /\ pc # "collect" => room = 0
  /\ pc = "accumulate" => Active = {}
  /\ pc \in {"collect", "build", "assign"} =>
       Len(pending) + room + Len(entries) <= Cardinality(EmptySlots)
  /\ pc = "build" => batchTokens <= Len(entries) * MaxPrompt

\* The position at which a slot decodes next is the number of cells that its
\* sequence occupies, and a sequence is given out empty: no cell of an earlier
\* request is left under a new one (clear_kv_cache_seq on every way out).
CacheInStep ==
  /\ \A s \in Active : kv[slots[s].seq] = slots[s].pos
  /\ \A q \in free : kv[q] = 0
  /\ \A j \in 1 .. Len(entries) :
       kv[entries[j].seq] = IF pc = "assign" THEN entries[j].len ELSE 0

-----------------------------------------------------------------------------
(* Items *)

ItemsIn(seq) == {seq[j].item : j \in 1 .. Len(seq)}
QueuedItems == {queue[j] : j \in 1 .. Len(queue)}
HeldItems == ItemsIn(pending) \cup ItemsIn(carry) \cup ItemsIn(entries)
               \cup ItemsOf(Active)
Answered == {i \in Items : replies[i] # <<>>}

DistinctItems(seq) ==
  \A j, k \in 1 .. Len(seq) : seq[j].item = seq[k].item => j = k

\* Every item is in at most one place: once in the channel, in one of the
\* thread's lists, in one slot, or answered; and only if it was submitted.
OneHolder ==
  /\ \A j, k \in 1 .. Len(queue) : queue[j] = queue[k] => j = k
  /\ DistinctItems(pending) /\ DistinctItems(carry) /\ DistinctItems(entries)
  /\ \A s, t \in Active : slots[s].item = slots[t].item => s = t
  /\ QueuedItems \cap (HeldItems \cup Answered) = {}
  /\ ItemsIn(pending) \cap (ItemsIn(carry) \cup ItemsIn(entries)
                              \cup ItemsOf(Active) \cup Answered) = {}
  /\ ItemsIn(carry) \cap (ItemsIn(entries) \cup ItemsOf(Active) \cup Answered) = {}
  /\ ItemsIn(entries) \cap (ItemsOf(Active) \cup Answered) = {}
  /\ ItemsOf(Active) \cap Answered = {}
  /\ QueuedItems \cup HeldItems \cup Answered \subseteq submitted

\* A caller that waits for N replies gets at most one for each item: an item
\* that is queued or held was not answered yet, and none is answered twice
\* (the caller counts replies, not indices: engine.rs:470).
AnsweredOnce ==
  /\ \A i \in Items : Len(replies[i]) <= 1
  /\ Answered \cap (QueuedItems \cup HeldItems) = {}

\* At most two rounds of the slots wait for an answer.  With more, carry_over may
\* be left over when the thread goes idle, and be assigned a second time.
LightLoad == Cardinality(submitted \ Answered) <= 2 * NSlots
Overloaded == Cardinality(Items) > 2 * NSlots

\* While the thread lives no item disappears: each one submitted is in the
\* channel, in one of the thread's lists or slots, or answered.
NoSilentDrop ==
  pc # "stopped" => submitted = QueuedItems \cup HeldItems \cup Answered

\* The items that wait for prefill, first the next one to be served.
Line == [j \in 1 .. Len(pending) |-> pending[j].item]
          \o [j \in 1 .. Len(carry) |-> carry[j].item] \o queue
Precedes(i, j) ==
  \E a, b \in 1 .. Len(Line) : a < b /\ Line[a] = i /\ Line[b] = j

\* Items that wait never overtake each other, whichever of the three ways
\* into a prefill batch they take.
NoOvertaking ==
  [][\A i, j \in Items : Precedes(i, j) => ~Precedes(j, i)']_vars

\* recv blocks the thread only when it has nothing to do (continuous.rs:273).
BlocksOnlyWithoutWork ==
  pc = "dispatch" /\ Active = {} => carry = <<>>

\* Every item put into the channel is answered: no caller waits for ever in
\* reply_rx.recv(), which has no timeout (engine.rs:471).
EveryItemAnswered == \A i \in Items : i \in submitted ~> i \in Answered

\* When the last engine handle is dropped the thread ends, so that the join in
\* SchedulerGuard returns (engine.rs:65).
ShutdownCompletes == ~open ~> pc = "stopped"

-----------------------------------------------------------------------------
(* What the documentation says of the limits *)

\* "Generation truncates silently at this ceiling -- no error is returned"
\* (ENGINE.md:43): with no fault of the backend, generating ends in a text.
GenerationNeverFails ==
  Faults = {} => \A i \in Items : replies[i] # <<"model">>

=============================================================================
