------------------------------- MODULE Sampling -------------------------------
(***************************************************************************)
(* How one slot chooses its tokens: the logit filters and sample_token of    *)
(* translator-core (src/translator-core/src/scheduler/sampling.rs), in the   *)
(* order in which run_loop applies them.                                     *)
(*                                                                          *)
(* The model's logits are arbitrary finite numbers, so what only shifts      *)
(* finite logits (repetition penalty, length bias) is part of that choice;   *)
(* what bans a token sets its logit to minus infinity.  Softmax, top-P and   *)
(* the draw are a choice among the top-K candidates.                         *)
(***************************************************************************)
EXTENDS Integers, Sequences, FiniteSets

CONSTANTS
  VocabSize,     \* the number of tokens
  Eos,           \* eos_id
  Eog,           \* the tokens for which is_eog_token holds
  Levels,        \* the finite logits
  NgramSize,     \* NO_REPEAT_NGRAM_SIZE
  TailLen,       \* TAIL_REPEAT_CHECK_LEN
  TailNgram,     \* TAIL_REPEAT_NGRAM
  SlotCapacity,  \* SLOT_CAPACITY
  TopK           \* TOP_K

Vocab == 0 .. VocabSize - 1
NegInf == -1

ASSUME VocabHasEnd == VocabSize \in Nat /\ Eog \subseteq Vocab /\ Eos \in Eog
ASSUME LevelsFinite == Levels \subseteq Nat
ASSUME SizesPositive ==
  /\ NgramSize \in Nat \ {0} /\ TailNgram \in Nat \ {0} /\ TailLen \in Nat
  /\ TopK \in Nat \ {0}
  /\ SlotCapacity \in Nat /\ SlotCapacity >= 2
\* The tail check looks for longer repetitions than the n-gram filter prevents.
ASSUME TailIsLonger == NgramSize <= TailNgram

VARIABLES
  phase,   \* "model": logits are due, "scan": sample_token runs, "ended"
  output,  \* output_ids
  logits,  \* the filtered logits
  at,      \* the token that the scan is at
  heap,    \* the top-K candidates, pairs of a token and its logit
  sift,    \* the position that min_heap_sift_down is at, 0 when it is not running
  floor    \* the lowest position that still has to be sifted down

scanVars == <<logits, at, heap, sift, floor>>
vars == <<phase, output, scanVars>>

\* Where sequences of m tokens start in out, and when two of them are equal.
Starts(out, m) == {j \in 1 .. Len(out) : j + m - 1 <= Len(out)}
Same(out, i, j, m) == \A d \in 0 .. m - 1 : out[i + d] = out[j + d]

\* The last n - 1 tokens of the output, which the next token completes.
Suffix(out) == Len(out) - NgramSize + 2

BanMissesLast(out) ==  \* mutant
  {out[j + NgramSize - 1] :
     j \in {i \in Starts(out, NgramSize + 1) : Same(out, i, Suffix(out), NgramSize - 1)}}
\* The tokens that would repeat an n-gram of the output.
Banned(out) ==
  {out[j + NgramSize - 1] :
     j \in {i \in Starts(out, NgramSize) : Same(out, i, Suffix(out), NgramSize - 1)}}

\* An n-gram that starts in the last TailLen tokens occurs before them.
TailRepeats(out) ==
  /\ Len(out) >= TailLen + TailNgram
  /\ \E i \in Starts(out, TailNgram) : \E j \in Starts(out, TailNgram) :
       /\ i > Len(out) - TailLen
       /\ j + TailNgram - 1 <= Len(out) - TailLen
       /\ Same(out, i, j, TailNgram)

CeilingTooLate(out) == Len(out) >= SlotCapacity  \* mutant
Ceiling(out) == Len(out) + 1 >= SlotCapacity

ForcedAll(out) == IF TailRepeats(out) \/ Ceiling(out) THEN Vocab ELSE {}  \* mutant
\* Both checks mask everything but the end token.
Forced(out) == IF TailRepeats(out) \/ Ceiling(out) THEN Vocab \ {Eos} ELSE {}

Filter(raw, out) ==
  [t \in Vocab |-> IF t \in Banned(out) \cup Forced(out) THEN NegInf ELSE raw[t]]

Init ==
  /\ phase = "model" /\ output = <<>>
  /\ logits = [t \in Vocab |-> NegInf]
  /\ at = 0 /\ heap = <<>> /\ sift = 0 /\ floor = 0

-----------------------------------------------------------------------------

\* The model's logits for the next token are filtered.
Decode ==
  /\ phase = "model" /\ phase' = "scan"
  /\ \E raw \in [Vocab -> Levels] : logits' = Filter(raw, output)
  /\ at' = 0 /\ heap' = <<>> /\ sift' = 0 /\ floor' = 0
  /\ UNCHANGED output

Limit == IF TopK < VocabSize THEN TopK ELSE VocabSize
Scanning == phase = "scan" /\ sift = 0 /\ at \in Vocab
Candidate == <<at, logits[at]>>

SkipBanned ==
  /\ Scanning /\ logits[at] = NegInf
  /\ at' = at + 1
  /\ UNCHANGED <<phase, output, logits, heap, sift, floor>>

\* The first candidates are taken; the last of them makes the array a heap.
Take ==
  /\ Scanning /\ logits[at] # NegInf /\ Len(heap) < Limit
  /\ heap' = Append(heap, Candidate)
  /\ IF Len(heap) + 1 = Limit
     THEN floor' = Limit \div 2 /\ sift' = Limit \div 2
     ELSE UNCHANGED <<floor, sift>>
  /\ at' = at + 1
  /\ UNCHANGED <<phase, output, logits>>

\* The others replace the smallest one if they are larger.
Replace ==
  /\ Scanning /\ logits[at] # NegInf /\ Len(heap) = Limit
  /\ IF logits[at] > heap[1][2]
     THEN /\ heap' = [heap EXCEPT ![1] = Candidate]
          /\ floor' = 1 /\ sift' = 1
     ELSE UNCHANGED <<heap, floor, sift>>
  /\ at' = at + 1
  /\ UNCHANGED <<phase, output, logits>>

Below(i, j) == j <= Len(heap) /\ heap[j][2] < heap[i][2]

LeftOnly(i) == IF Below(i, 2 * i) THEN 2 * i ELSE i  \* mutant
Smallest(i) ==
  LET left == IF Below(i, 2 * i) THEN 2 * i ELSE i
  IN IF Below(left, 2 * i + 1) THEN 2 * i + 1 ELSE left

\* One turn of min_heap_sift_down's loop, and of the loop that builds the heap.
SiftDown ==
  /\ sift > 0
  /\ LET s == Smallest(sift)
     IN IF s = sift
        THEN /\ floor' = floor - 1 /\ sift' = floor - 1
             /\ UNCHANGED heap
        ELSE /\ heap' = [heap EXCEPT ![sift] = heap[s], ![s] = heap[sift]]
             /\ sift' = s
             /\ UNCHANGED floor
  /\ UNCHANGED <<phase, output, logits, at>>

Drawing == phase = "scan" /\ sift = 0 /\ at = VocabSize

\* is_eog_token covers "<eos>" and "<end_of_turn>".
IsEnd(t) == t \in Eog

\* Any candidate may be drawn; without candidates the token is 0.  An end token
\* retires the slot, any other one extends the output.
Draw ==
  /\ Drawing
  /\ \E t \in IF heap = <<>> THEN {0} ELSE {heap[k][1] : k \in 1 .. Len(heap)} :
       IF IsEnd(t)
       THEN phase' = "ended" /\ UNCHANGED output
       ELSE phase' = "model" /\ output' = Append(output, t)
  /\ logits' = [t \in Vocab |-> NegInf]
  /\ at' = 0 /\ heap' = <<>> /\ sift' = 0 /\ floor' = 0

Ended == phase = "ended" /\ UNCHANGED vars

Next == Decode \/ SkipBanned \/ Take \/ Replace \/ SiftDown \/ Draw \/ Ended

Spec == Init /\ [][Next]_vars

-----------------------------------------------------------------------------

TypeOK ==
  /\ phase \in {"model", "scan", "ended"}
  /\ output \in Seq(Vocab \ Eog)
  /\ logits \in [Vocab -> Levels \cup {NegInf}]
  /\ at \in 0 .. VocabSize
  /\ heap \in Seq(Vocab \X Levels) /\ Len(heap) <= Limit
  /\ floor \in 0 .. Len(heap) /\ sift \in 0 .. Len(heap)

\* No n-gram is generated twice, whatever the model prefers: the ban survives
\* the other filters, the heap and the draw (sampling.rs:43).
NoRepeatedNgram ==
  \A i, j \in Starts(output, NgramSize) :
    Same(output, i, j, NgramSize) => i = j

\* Because of that the check for repetitions in the tail never finds one: what
\* is said to slip "past the no-repeat-n-gram filter" (sampling.rs:101) cannot.
TailNeverRepeats == ~TailRepeats(output)

\* The end token is never banned, so there is always a candidate, and token 0 is
\* not drawn for want of one (sampling.rs:199).
AlwaysACandidate == Drawing => heap # <<>>

\* A slot ends before its output reaches the ceiling (continuous.rs:395).
WithinCeiling == Len(output) < SlotCapacity

Finite == {t \in Vocab : logits[t] # NegInf}
Chosen == {heap[k][1] : k \in 1 .. Len(heap)}

\* The candidates are the TopK tokens with the largest logits, each with its
\* own logit, or all of them when there are fewer (sampling.rs:178).
TopKCorrect ==
  Drawing =>
    /\ Chosen \subseteq Finite
    /\ \A k \in 1 .. Len(heap) : heap[k][2] = logits[heap[k][1]]
    /\ \A j, k \in 1 .. Len(heap) : heap[j][1] = heap[k][1] => j = k
    /\ Len(heap) < Limit => Chosen = Finite
    /\ \A t \in Finite \ Chosen : \A k \in 1 .. Len(heap) : logits[t] <= heap[k][2]

=============================================================================
