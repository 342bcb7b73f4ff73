---------------------------- MODULE SamplingProofs ----------------------------
(***************************************************************************)
(* Theorems about Sampling, for every vocabulary, every logits and every     *)
(* value of the limits: the tokens a slot may choose at each step, and the    *)
(* order of the heap that they are drawn from.                               *)
(***************************************************************************)
EXTENDS Sampling, WellFoundedInduction, TLAPS

\* What the filters leave in the logits while sample_token scans them.
Filtered ==
  phase = "scan" =>
    /\ \A t \in Banned(output) \cup Forced(output) : logits[t] = NegInf
    /\ logits[Eos] # NegInf

\* The heap holds candidates only, and one at least once the end token has been
\* passed.
HeapFinite ==
  /\ \A k \in 1 .. Len(heap) : logits[heap[k][1]] # NegInf
  /\ phase = "scan" /\ at > Eos => heap # <<>>
  /\ sift > 0 => floor > 0 /\ phase = "scan"

Inv == TypeOK /\ Filtered /\ HeapFinite /\ NoRepeatedNgram /\ WithinCeiling

-----------------------------------------------------------------------------

LEMMA LimitPositive == Limit \in Nat \ {0} /\ Limit \div 2 \in 0 .. Limit
  BY VocabHasEnd, SizesPositive DEF Limit, Vocab

\* A banned token occurs in the output, so it is not an end token.
LEMMA BannedOccur ==
  ASSUME NEW S, NEW out \in Seq(S)
  PROVE  Banned(out) \subseteq S
<1>1. ASSUME NEW j \in Starts(out, NgramSize)
      PROVE  out[j + NgramSize - 1] \in S
  <2>1. j + NgramSize - 1 \in 1 .. Len(out)
    BY SizesPositive DEF Starts
  <2>2. QED
    BY <2>1
<1>2. QED
  BY <1>1 DEF Banned

\* A token that is not banned repeats no n-gram.
LEMMA AppendKeepsDistinct ==
  ASSUME NEW S, NEW out \in Seq(S), NEW t \in S,
         t \notin Banned(out),
         \A i, j \in Starts(out, NgramSize) : Same(out, i, j, NgramSize) => i = j
  PROVE  \A i, j \in Starts(Append(out, t), NgramSize) :
           Same(Append(out, t), i, j, NgramSize) => i = j
<1> DEFINE new == Append(out, t)
           last == Len(out) - NgramSize + 2
<1> NgramSize \in Nat /\ NgramSize >= 1 /\ Len(out) \in Nat
  BY SizesPositive
<1>1. /\ Len(new) = Len(out) + 1
      /\ \A k \in 1 .. Len(out) : new[k] = out[k]
      /\ new[Len(out) + 1] = t
  OBVIOUS
<1>2. Starts(new, NgramSize) = {j \in 1 .. Len(out) + 1 : j <= last}
  BY <1>1 DEF Starts
<1>3. \A j \in Starts(new, NgramSize) : j # last => j \in Starts(out, NgramSize)
  BY <1>2 DEF Starts
<1> HIDE DEF new
<1>4. ASSUME NEW i \in Starts(new, NgramSize), NEW j \in Starts(new, NgramSize),
             i < j, Same(new, i, j, NgramSize)
      PROVE  FALSE
  <2> i \in Nat /\ j \in Nat /\ i >= 1 /\ j <= last /\ i \in Starts(out, NgramSize)
    BY <1>2, <1>3, <1>4
  <2>1. CASE j # last
    <3>1. j \in Starts(out, NgramSize)
      BY <1>3, <2>1
    <3>2. ASSUME NEW d \in 0 .. NgramSize - 1
          PROVE  out[i + d] = out[j + d]
      <4>1. new[i + d] = new[j + d]
        BY <1>4, <3>2 DEF Same
      <4>2. i + d \in 1 .. Len(out) /\ j + d \in 1 .. Len(out)
        BY <3>1, <3>2 DEF Starts
      <4>3. QED
        BY <4>1, <4>2, <1>1
    <3>3. Same(out, i, j, NgramSize)
      BY <3>2 DEF Same
    <3>4. QED
      BY <3>1, <3>3, <1>4
  <2>2. CASE j = last
    <3>0. \A d \in 0 .. NgramSize - 1 : new[i + d] = new[j + d]
      BY <1>4 DEF Same
    <3>1. ASSUME NEW d \in 0 .. (NgramSize - 1) - 1
          PROVE  out[i + d] = out[j + d]
      <4>1. new[i + d] = new[j + d]
        BY <3>0, <3>1
      <4>2. i + d \in 1 .. Len(out) /\ j + d \in 1 .. Len(out)
        BY <1>4, <2>2, <3>1
      <4>3. QED
        BY <4>1, <4>2, <1>1
    <3>2. Same(out, i, Suffix(out), NgramSize - 1)
      BY <3>1, <2>2 DEF Same, Suffix
    <3>3. out[i + NgramSize - 1] = t
      <4>1. NgramSize - 1 \in 0 .. NgramSize - 1
        OBVIOUS
      <4>2. new[i + (NgramSize - 1)] = new[j + (NgramSize - 1)]
        BY <3>0, <4>1
      <4>3. /\ j + (NgramSize - 1) = Len(out) + 1
            /\ i + (NgramSize - 1) \in 1 .. Len(out)
            /\ i + (NgramSize - 1) = i + NgramSize - 1
        BY <1>4, <2>2
      <4>4. QED
        BY <4>2, <4>3, <1>1
    <3>4. t \in Banned(out)
      BY <3>2, <3>3 DEF Banned
    <3>5. QED
      BY <3>4
  <2>3. QED
    BY <2>1, <2>2
<1>5. ASSUME NEW i \in Starts(new, NgramSize), NEW j \in Starts(new, NgramSize),
             Same(new, i, j, NgramSize)
      PROVE  i = j
  <2>1. Same(new, j, i, NgramSize)
    BY <1>5 DEF Same
  <2>2. i \in Int /\ j \in Int
    BY <1>2
  <2>3. QED
    BY <1>4, <1>5, <2>1, <2>2
<1>6. QED
  BY <1>5 DEF new

-----------------------------------------------------------------------------

LEMMA InitInv == Init => Inv
<1> SUFFICES ASSUME Init PROVE Inv
  OBVIOUS
<1> USE VocabHasEnd, SizesPositive, LimitPositive
<1>1. TypeOK
  BY DEF Init, TypeOK
<1>2. Filtered /\ HeapFinite /\ WithinCeiling
  BY DEF Init, Filtered, HeapFinite, WithinCeiling
<1>3. NoRepeatedNgram
  BY DEF Init, NoRepeatedNgram, Starts
<1>4. QED
  BY <1>1, <1>2, <1>3 DEF Inv

\* The steps of the scan change neither the output nor the logits.
LEMMA ScanKeepsOutput ==
  ASSUME Inv, SkipBanned \/ Take \/ Replace \/ SiftDown
  PROVE  Filtered' /\ NoRepeatedNgram' /\ WithinCeiling'
<1>1. UNCHANGED <<phase, output, logits>>
  BY DEF SkipBanned, Take, Replace, SiftDown
<1>2. QED
  BY <1>1 DEF Inv, Filtered, NoRepeatedNgram, WithinCeiling

LEMMA DecodeKeeps == ASSUME Inv, Decode PROVE Inv'
<1> USE VocabHasEnd, SizesPositive, LimitPositive
<1> PICK raw \in [Vocab -> Levels] : logits' = Filter(raw, output)
  BY DEF Decode
<1>1. TypeOK'
  <2>1. logits' \in [Vocab -> Levels \cup {NegInf}]
    BY DEF Filter
  <2>2. QED
    BY <2>1 DEF Inv, TypeOK, Decode
<1>2. output \in Seq(Vocab \ Eog) /\ output' = output
  BY DEF Inv, TypeOK, Decode
<1>3. Filtered'
  <2>1. \A t \in Banned(output) \cup Forced(output) : t \in Vocab /\ logits'[t] = NegInf
    BY <1>2, BannedOccur DEF Filter, Forced
  <2>2. Eos \notin Banned(output) \cup Forced(output)
    BY <1>2, BannedOccur DEF Forced
  <2>3. logits'[Eos] = raw[Eos] /\ raw[Eos] \in Levels
    BY <2>2 DEF Filter
  <2>4. logits'[Eos] # NegInf
    BY <2>3, LevelsFinite DEF NegInf
  <2>5. QED
    BY <1>2, <2>1, <2>4 DEF Filtered
<1>4. HeapFinite'
  BY DEF Decode, HeapFinite, Vocab
<1>5. QED
  BY <1>1, <1>2, <1>3, <1>4 DEF Inv, NoRepeatedNgram, WithinCeiling

LEMMA SkipBannedKeeps == ASSUME Inv, SkipBanned PROVE Inv'
<1> USE VocabHasEnd, SizesPositive
<1>1. TypeOK'
  BY DEF Inv, TypeOK, SkipBanned, Scanning, Vocab
<1>2. at # Eos
  BY DEF Inv, Filtered, SkipBanned, Scanning
<1>3. HeapFinite'
  BY <1>2 DEF Inv, TypeOK, HeapFinite, SkipBanned, Scanning, Vocab
<1>4. QED
  BY <1>1, <1>3, ScanKeepsOutput DEF Inv

LEMMA TakeKeeps == ASSUME Inv, Take PROVE Inv'
<1> USE VocabHasEnd, SizesPositive, LimitPositive
<1>1. /\ at \in Vocab /\ logits[at] \in Levels /\ Len(heap) \in Nat
      /\ heap \in Seq(Vocab \X Levels) /\ heap' = Append(heap, Candidate)
      /\ Candidate \in Vocab \X Levels /\ Candidate[1] = at
  BY DEF Inv, TypeOK, Take, Scanning, Candidate
<1>2. /\ heap' \in Seq(Vocab \X Levels) /\ Len(heap') = Len(heap) + 1
      /\ \A k \in 1 .. Len(heap) : heap'[k] = heap[k]
      /\ heap'[Len(heap) + 1] = Candidate
  BY <1>1
<1>3. TypeOK'
  BY <1>1, <1>2 DEF Inv, TypeOK, Take, Scanning, Vocab
<1>4. HeapFinite'
  <2>1. \A k \in 1 .. Len(heap') : logits'[heap'[k][1]] # NegInf
    BY <1>1, <1>2 DEF Inv, HeapFinite, Take
  <2>2. heap' # <<>>
    BY <1>1, <1>2
  <2>3. sift' > 0 => floor' > 0 /\ phase' = "scan"
    BY DEF Inv, HeapFinite, Take, Scanning
  <2>4. QED
    BY <2>1, <2>2, <2>3 DEF HeapFinite
<1>5. QED
  BY <1>3, <1>4, ScanKeepsOutput DEF Inv

LEMMA ReplaceKeeps == ASSUME Inv, Replace PROVE Inv'
<1> USE VocabHasEnd, SizesPositive, LimitPositive
<1>1. /\ at \in Vocab /\ logits[at] \in Levels /\ Len(heap) \in Nat /\ Len(heap) >= 1
      /\ heap \in Seq(Vocab \X Levels)
      /\ Candidate \in Vocab \X Levels /\ Candidate[1] = at
  BY DEF Inv, TypeOK, Replace, Scanning, Candidate
<1>2. /\ heap' \in Seq(Vocab \X Levels) /\ Len(heap') = Len(heap)
      /\ \A k \in 1 .. Len(heap) : heap'[k] = heap[k] \/ heap'[k] = Candidate
  <2>1. CASE heap' = [heap EXCEPT ![1] = Candidate]
    BY <1>1, <2>1
  <2>2. CASE heap' = heap
    BY <1>1, <2>2
  <2>3. QED
    BY <2>1, <2>2 DEF Replace
<1>3. TypeOK'
  BY <1>1, <1>2 DEF Inv, TypeOK, Replace, Scanning, Vocab
<1>4. HeapFinite'
  <2>1. \A k \in 1 .. Len(heap') : logits'[heap'[k][1]] # NegInf
    BY <1>1, <1>2 DEF Inv, HeapFinite, Replace
  <2>2. heap' # <<>>
    BY <1>1, <1>2
  <2>3. sift' > 0 => floor' > 0 /\ phase' = "scan"
    BY DEF Inv, HeapFinite, Replace, Scanning
  <2>4. QED
    BY <2>1, <2>2, <2>3 DEF HeapFinite
<1>5. QED
  BY <1>3, <1>4, ScanKeepsOutput DEF Inv

LEMMA SmallestInHeap ==
  ASSUME TypeOK, sift > 0
  PROVE  Smallest(sift) \in 1 .. Len(heap)
  BY DEF TypeOK, Smallest, Below

LEMMA SiftDownKeeps == ASSUME Inv, SiftDown PROVE Inv'
<1> USE VocabHasEnd, SizesPositive, LimitPositive
<1> DEFINE s == Smallest(sift)
<1>1. /\ s \in 1 .. Len(heap) /\ sift \in 1 .. Len(heap) /\ Len(heap) \in Nat
      /\ heap \in Seq(Vocab \X Levels) /\ phase = "scan"
      /\ floor \in 1 .. Len(heap)
  BY SmallestInHeap DEF Inv, TypeOK, HeapFinite, SiftDown
<1> HIDE DEF s
<1>2. /\ heap' \in Seq(Vocab \X Levels) /\ Len(heap') = Len(heap)
      /\ \A k \in 1 .. Len(heap) : \E j \in 1 .. Len(heap) : heap'[k] = heap[j]
  <2>1. CASE heap' = [heap EXCEPT ![sift] = heap[s], ![s] = heap[sift]]
    <3>1. heap[s] \in Vocab \X Levels /\ heap[sift] \in Vocab \X Levels
      BY <1>1
    <3>2. heap' \in Seq(Vocab \X Levels) /\ Len(heap') = Len(heap)
      BY <1>1, <2>1, <3>1
    <3>3. ASSUME NEW k \in 1 .. Len(heap)
          PROVE  heap'[k] = heap[k] \/ heap'[k] = heap[s] \/ heap'[k] = heap[sift]
      BY <1>1, <2>1
    <3>4. QED
      BY <1>1, <3>2, <3>3
  <2>2. CASE heap' = heap
    BY <1>1, <2>2
  <2>3. QED
    BY <2>1, <2>2 DEF SiftDown, s
<1>3. TypeOK'
  <2>1. floor' \in 0 .. Len(heap) /\ sift' \in 0 .. Len(heap)
    BY <1>1 DEF SiftDown, s
  <2>2. QED
    BY <1>2, <2>1 DEF Inv, TypeOK, SiftDown
<1>4. HeapFinite'
  <2>1. \A k \in 1 .. Len(heap') : logits'[heap'[k][1]] # NegInf
    BY <1>1, <1>2 DEF Inv, HeapFinite, SiftDown
  <2>2. heap' # <<>>
    BY <1>1, <1>2
  <2>3. sift' > 0 => floor' > 0 /\ phase' = "scan"
    BY <1>1 DEF SiftDown
  <2>4. QED
    BY <2>1, <2>2, <2>3 DEF HeapFinite
<1>5. QED
  BY <1>3, <1>4, ScanKeepsOutput DEF Inv

\* What is drawn has a finite logit: it is neither banned nor masked.
LEMMA DrawnIsAllowed ==
  ASSUME Inv, Drawing
  PROVE  /\ heap # <<>>
         /\ \A k \in 1 .. Len(heap) :
              /\ heap[k][1] \in Vocab
              /\ heap[k][1] \notin Banned(output) \cup Forced(output)
<1>1. heap # <<>>
  BY VocabHasEnd DEF Inv, HeapFinite, Drawing, Vocab
<1>2. ASSUME NEW k \in 1 .. Len(heap)
      PROVE  heap[k][1] \in Vocab /\ logits[heap[k][1]] # NegInf
  BY DEF Inv, TypeOK, HeapFinite
<1>3. QED
  BY <1>1, <1>2 DEF Inv, Filtered, Drawing

LEMMA DrawKeeps == ASSUME Inv, Draw PROVE Inv'
<1> USE VocabHasEnd, SizesPositive, LimitPositive
<1>1. HeapFinite'
  BY DEF Draw, HeapFinite
<1>2. PICK t \in Vocab :
        /\ t \notin Banned(output) \cup Forced(output)
        /\ IF IsEnd(t) THEN phase' = "ended" /\ UNCHANGED output
                       ELSE phase' = "model" /\ output' = Append(output, t)
  BY DrawnIsAllowed DEF Draw
<1>3. phase' # "scan" /\ output \in Seq(Vocab \ Eog)
  BY <1>2 DEF Inv, TypeOK
<1>4. CASE IsEnd(t)
  <2>1. TypeOK'
    BY <1>2, <1>4 DEF Inv, TypeOK, Draw
  <2>2. QED
    BY <1>1, <1>2, <1>3, <1>4, <2>1 DEF Inv, Filtered, NoRepeatedNgram, WithinCeiling
<1>5. CASE ~IsEnd(t)
  <2>1. t \in Vocab \ Eog /\ output' = Append(output, t)
    BY <1>2, <1>5 DEF IsEnd
  <2>2. TypeOK'
    <3>1. output' \in Seq(Vocab \ Eog)
      BY <1>3, <2>1
    <3>2. QED
      BY <1>2, <1>5, <3>1 DEF Inv, TypeOK, Draw
  <2>3. NoRepeatedNgram'
    BY <1>2, <1>3, <2>1, AppendKeepsDistinct DEF Inv, NoRepeatedNgram
  <2>4. WithinCeiling'
    <3>1. t \notin Vocab \ {Eos} \/ ~Ceiling(output)
      BY <1>2 DEF Forced
    <3>2. Len(output) + 1 < SlotCapacity
      BY <3>1, <2>1, <1>3 DEF Ceiling
    <3>3. QED
      BY <3>2, <2>1, <1>3 DEF WithinCeiling
  <2>5. QED
    BY <1>1, <1>3, <2>2, <2>3, <2>4 DEF Inv, Filtered
<1>6. QED
  BY <1>4, <1>5

LEMMA NextInv == Inv /\ [Next]_vars => Inv'
<1> SUFFICES ASSUME Inv, [Next]_vars PROVE Inv'
  OBVIOUS
<1>1. CASE UNCHANGED vars
  BY <1>1 DEF Inv, TypeOK, Filtered, HeapFinite, NoRepeatedNgram, WithinCeiling,
              vars, scanVars
<1>2. CASE Next
  BY <1>1, <1>2, DecodeKeeps, SkipBannedKeeps, TakeKeeps, ReplaceKeeps,
     SiftDownKeeps, DrawKeeps DEF Next, Ended
<1>3. QED
  BY <1>1, <1>2

LEMMA AlwaysInv == Spec => []Inv
  BY InitInv, NextInv, PTL DEF Spec

-----------------------------------------------------------------------------

\* The variables of sample_token keep their types, and no end token is ever part
\* of an output.
THEOREM SamplingTyping == Spec => []TypeOK
<1>1. Inv => TypeOK
  BY DEF Inv
<1>2. QED
  BY <1>1, AlwaysInv, PTL

\* No n-gram is generated twice.
THEOREM NoRepetition == Spec => []NoRepeatedNgram
<1>1. Inv => NoRepeatedNgram
  BY DEF Inv
<1>2. QED
  BY <1>1, AlwaysInv, PTL

LEMMA NgramsSuffice == Inv => TailNeverRepeats
<1> SUFFICES ASSUME Inv, TailRepeats(output) PROVE FALSE
  BY DEF TailNeverRepeats
<1> USE SizesPositive, TailIsLonger
<1>1. PICK i \in Starts(output, TailNgram), j \in Starts(output, TailNgram) :
        /\ i > Len(output) - TailLen
        /\ j + TailNgram - 1 <= Len(output) - TailLen
        /\ Same(output, i, j, TailNgram)
  BY DEF TailRepeats
<1>2. Len(output) \in Nat
  BY DEF Inv, TypeOK
<1>3. i \in Starts(output, NgramSize) /\ j \in Starts(output, NgramSize)
  BY <1>2 DEF Starts
<1>4. Same(output, i, j, NgramSize)
  BY <1>1 DEF Same
<1>5. i = j
  BY <1>3, <1>4 DEF Inv, NoRepeatedNgram
<1>6. QED
  BY <1>1, <1>2, <1>5 DEF Starts

\* force_eos_on_tail_repeat never fires: whenever the n-gram filter looks for
\* repetitions no longer than its own, there is none for it to find.
THEOREM TailCheckIsIdle == Spec => []TailNeverRepeats
  BY NgramsSuffice, AlwaysInv, PTL

LEMMA HeapSuffices == Inv => AlwaysACandidate
  BY DrawnIsAllowed DEF AlwaysACandidate

\* sample_token is never left without a candidate.
THEOREM CandidateExists == Spec => []AlwaysACandidate
  BY HeapSuffices, AlwaysInv, PTL

\* Every slot ends below the ceiling.
THEOREM Ceilings == Spec => []WithinCeiling
<1>1. Inv => WithinCeiling
  BY DEF Inv
<1>2. QED
  BY <1>1, AlwaysInv, PTL

-----------------------------------------------------------------------------

\* The heap.  While it is sifted, the array is a heap from position floor on, but
\* for position sift, whose parent is already smaller than its children; what
\* the heap has dropped or refused is no larger than what it holds.

Child(p, c) == c \in {2 * p, 2 * p + 1}

\* The order of the array while min_heap_sift_down runs.
Ordered ==
  /\ Len(heap) < Limit => sift = 0
  /\ floor <= sift
  /\ Len(heap) = Limit =>
       \A p, c \in 1 .. Len(heap) : p >= floor /\ Child(p, c) =>
         /\ p # sift => heap[p][2] <= heap[c][2]
         /\ c = sift => \A e \in 1 .. Len(heap) : Child(c, e) => heap[p][2] <= heap[e][2]

\* Each candidate is a token already scanned, held once with its own logit.
OwnLogits ==
  /\ \A k \in 1 .. Len(heap) : heap[k][1] < at /\ heap[k][2] = logits[heap[k][1]]
  /\ \A j, k \in 1 .. Len(heap) : heap[j][1] = heap[k][1] => j = k

\* A scanned token is missing only from a full heap, where none is smaller.
Topmost ==
  \A t \in Finite \ Chosen :
    t < at => Len(heap) = Limit /\ \A k \in 1 .. Len(heap) : logits[t] <= heap[k][2]

HeapInv == Inv /\ Ordered /\ OwnLogits /\ Topmost

-----------------------------------------------------------------------------

LEMMA NatWellFounded == IsWellFoundedOn({p \in Nat \X Nat : p[1] < p[2]}, Nat)
  BY NatLessThanWellFounded DEF OpToRel

LEMMA HasLeast ==
  ASSUME NEW T, T \subseteq Nat, T # {}
  PROVE  \E x \in T : \A y \in T : x <= y
<1>1. PICK x \in T : \A y \in T : ~ (<<y, x>> \in {p \in Nat \X Nat : p[1] < p[2]})
  BY NatWellFounded, WFMin
<1>2. ASSUME NEW y \in T
      PROVE  x <= y
  <2>1. x \in Nat /\ y \in Nat /\ <<y, x>> \in Nat \X Nat
    OBVIOUS
  <2>2. ~ (y < x)
    BY <1>1, <2>1
  <2>3. QED
    BY <2>1, <2>2
<1>3. QED
  BY <1>2

\* The root of a heap is its smallest entry: the first entry smaller than the
\* root would have a parent that is smaller still.
LEMMA RootSmallest ==
  ASSUME NEW h \in Seq(Vocab \X Levels),
         \A p, c \in 1 .. Len(h) : Child(p, c) => h[p][2] <= h[c][2]
  PROVE  \A k \in 1 .. Len(h) : h[1][2] <= h[k][2]
<1> DEFINE Less == {k \in 1 .. Len(h) : h[k][2] < h[1][2]}
<1>1. ASSUME NEW k \in 1 .. Len(h)
      PROVE  h[k][2] \in Nat
  <2>1. h[k] \in Vocab \X Levels
    OBVIOUS
  <2>2. QED
    BY <2>1, LevelsFinite
<1>2. SUFFICES ASSUME Less # {} PROVE FALSE
  BY <1>1
<1>3. PICK x \in Less : \A y \in Less : x <= y
  <2>1. Less \subseteq Nat
    OBVIOUS
  <2>2. QED
    BY <1>2, <2>1, HasLeast
<1>4. x \in 1 .. Len(h) /\ x # 1 /\ h[x][2] < h[1][2]
  BY <1>1, <1>3
<1>5. x \div 2 \in 1 .. Len(h) /\ x \div 2 < x /\ Child(x \div 2, x)
  BY <1>4 DEF Child
<1>6. x \div 2 \in Less
  BY <1>1, <1>4, <1>5
<1>7. QED
  BY <1>3, <1>4, <1>5, <1>6

\* What HeapInv says of the types, in the form that the steps below use.
LEMMA HeapTypes ==
  ASSUME Inv
  PROVE  /\ heap \in Seq(Vocab \X Levels) /\ Len(heap) \in 0 .. Limit
         /\ \A k \in 1 .. Len(heap) : heap[k][1] \in Vocab /\ heap[k][2] \in Nat
         /\ at \in Nat /\ Vocab \subseteq Nat
         /\ \A t \in Finite : t \in Vocab /\ logits[t] \in Nat
         /\ floor \in 0 .. Len(heap) /\ sift \in 0 .. Len(heap)
<1>1. heap \in Seq(Vocab \X Levels) /\ Len(heap) \in Nat
  BY DEF Inv, TypeOK
<1>2. ASSUME NEW k \in 1 .. Len(heap)
      PROVE  heap[k][1] \in Vocab /\ heap[k][2] \in Nat
  <2>1. heap[k] \in Vocab \X Levels
    BY <1>1
  <2>2. QED
    BY <2>1, LevelsFinite
<1>3. ASSUME NEW t \in Finite
      PROVE  t \in Vocab /\ logits[t] \in Nat
  BY LevelsFinite DEF Inv, TypeOK, Finite
<1>4. at \in Nat /\ Vocab \subseteq Nat
  BY VocabHasEnd DEF Inv, TypeOK, Vocab
<1>5. QED
  BY <1>1, <1>2, <1>3, <1>4, LimitPositive DEF Inv, TypeOK

-----------------------------------------------------------------------------

\* Before and after a scan the heap is empty.
LEMMA EmptyHeap ==
  ASSUME heap = <<>>, at = 0, sift = 0, floor = 0
  PROVE  Ordered /\ OwnLogits /\ Topmost
<1>1. \A t \in Finite : ~(t < 0)
  BY VocabHasEnd DEF Finite, Vocab
<1>2. QED
  BY <1>1, LimitPositive DEF Ordered, OwnLogits, Topmost

LEMMA HeapInit == Init => HeapInv
  BY InitInv, EmptyHeap DEF Init, HeapInv

LEMMA EmptyHeapNext ==
  ASSUME heap' = <<>>, at' = 0, sift' = 0, floor' = 0
  PROVE  Ordered' /\ OwnLogits' /\ Topmost'
<1>1. \A t \in Finite' : ~(t < 0)
  BY VocabHasEnd DEF Finite, Vocab
<1>2. QED
  BY <1>1, LimitPositive DEF Ordered, OwnLogits, Topmost, Limit

LEMMA SkipBannedHeap == ASSUME HeapInv, SkipBanned PROVE Ordered' /\ OwnLogits' /\ Topmost'
<1>1. Inv
  BY DEF HeapInv
<1>2. UNCHANGED <<heap, sift, floor, logits>> /\ at' = at + 1 /\ logits[at] = NegInf
  BY DEF SkipBanned
<1>3. Ordered'
  BY <1>2 DEF HeapInv, Ordered, Child, Limit
<1>4. OwnLogits'
  BY <1>1, <1>2, HeapTypes DEF HeapInv, OwnLogits
<1>5. Topmost'
  <2>1. Finite' = Finite /\ Chosen' = Chosen /\ at \notin Finite
    BY <1>2 DEF Finite, Chosen
  <2>2. \A t \in Finite : t < at + 1 => t < at
    BY <1>1, <2>1, HeapTypes
  <2>3. QED
    BY <1>2, <2>1, <2>2 DEF HeapInv, Topmost, Limit
<1>6. QED
  BY <1>3, <1>4, <1>5

LEMMA TakeHeap == ASSUME HeapInv, Take PROVE Ordered' /\ OwnLogits' /\ Topmost'
<1> DEFINE n == Len(heap)
<1>1. Inv
  BY DEF HeapInv
<1>2. /\ at \in Finite /\ sift = 0 /\ floor = 0 /\ n < Limit /\ n \in Nat
      /\ UNCHANGED logits /\ at' = at + 1 /\ Limit \in Nat \ {0} /\ Limit' = Limit
  BY <1>1, HeapTypes, LimitPositive DEF Take, Scanning, Finite, HeapInv, Ordered, Limit
<1>3. /\ Len(heap') = n + 1
      /\ \A k \in 1 .. n : heap'[k] = heap[k]
      /\ heap'[n + 1][1] = at /\ heap'[n + 1][2] = logits[at]
  <2>1. heap' = Append(heap, Candidate)
    BY DEF Take
  <2>2. heap'[n + 1] = Candidate /\ Len(heap') = n + 1 /\ \A k \in 1 .. n : heap'[k] = heap[k]
    BY <1>1, <2>1, HeapTypes
  <2>3. QED
    BY <2>2 DEF Candidate
<1> HIDE DEF n
<1>4. Ordered'
  <2>1. CASE n + 1 = Limit
    <3>1. sift' = Limit \div 2 /\ floor' = Limit \div 2
      BY <2>1 DEF Take, n
    <3>2. ASSUME NEW p \in 1 .. Limit, NEW c \in 1 .. Limit, p >= Limit \div 2, Child(p, c)
          PROVE  p = Limit \div 2 /\ c # Limit \div 2
      BY <1>2, <3>2 DEF Child
    <3>3. Limit \div 2 \in Nat /\ ~(Len(heap') < Limit)
      BY <1>2, <1>3, <2>1
    <3>4. QED
      BY <1>2, <1>3, <2>1, <3>1, <3>2, <3>3 DEF Ordered, Child
  <2>2. CASE n + 1 # Limit
    BY <1>2, <1>3, <2>2 DEF Ordered, Take, n
  <2>3. QED
    BY <2>1, <2>2
<1>5. OwnLogits'
  <2>1. \A k \in 1 .. n : /\ heap'[k][1] \in Nat /\ heap'[k][1] < at
                          /\ heap'[k][2] = logits[heap'[k][1]]
    BY <1>1, <1>3, HeapTypes DEF HeapInv, OwnLogits, n
  <2>2. \A j, k \in 1 .. n : heap'[j][1] = heap'[k][1] => j = k
    BY <1>3 DEF HeapInv, OwnLogits, n
  <2>3. \A k \in 1 .. n + 1 : k \in 1 .. n \/ k = n + 1
    BY <1>2
  <2>4. at \in Nat
    BY <1>1, HeapTypes
  <2>5. QED
    BY <1>2, <1>3, <2>1, <2>2, <2>3, <2>4, SMTT(20) DEF OwnLogits
<1>6. Topmost'
  <2>1. Finite' = Finite
    BY <1>2 DEF Finite
  <2>2. Chosen \cup {at} \subseteq Chosen'
    BY <1>2, <1>3 DEF Chosen, n
  <2>3. ASSUME NEW t \in Finite \ Chosen', t < at + 1
        PROVE  FALSE
    <3>1. t \notin Chosen /\ t # at /\ t \in Nat /\ at \in Nat
      BY <1>1, <2>2, <2>3, HeapTypes
    <3>2. t < at
      BY <3>1, <2>3
    <3>3. QED
      BY <1>2, <3>1, <3>2 DEF HeapInv, Topmost, n
  <2>4. QED
    BY <1>2, <2>1, <2>3 DEF Topmost
<1>7. QED
  BY <1>4, <1>5, <1>6

\* Once the array is a heap, its root is the smallest candidate.
LEMMA FullHeap ==
  ASSUME HeapInv, Len(heap) = Limit, sift = 0
  PROVE  \A k \in 1 .. Len(heap) : heap[1][2] <= heap[k][2]
<1>1. Inv
  BY DEF HeapInv
<1>2. \A p, c \in 1 .. Len(heap) : Child(p, c) => heap[p][2] <= heap[c][2]
  BY <1>1, HeapTypes DEF HeapInv, Ordered
<1>3. QED
  BY <1>1, <1>2, HeapTypes, RootSmallest

LEMMA ReplaceHeap == ASSUME HeapInv, Replace PROVE Ordered' /\ OwnLogits' /\ Topmost'
<1> DEFINE n == Len(heap)
<1>1. Inv
  BY DEF HeapInv
<1>2. /\ at \in Finite /\ sift = 0 /\ floor = 0 /\ n = Limit /\ n \in Nat \ {0}
      /\ UNCHANGED logits /\ at' = at + 1 /\ Limit' = Limit
  BY <1>1, HeapTypes, LimitPositive DEF Replace, Scanning, Finite, HeapInv, Ordered, Limit
<1>3. \A k \in 1 .. n : heap[1][2] <= heap[k][2]
  BY <1>2, FullHeap
<1>4. /\ \A k \in 1 .. n : heap[k][1] \in Nat /\ heap[k][2] \in Nat
      /\ at \in Nat /\ logits[at] \in Nat
  BY <1>1, <1>2, HeapTypes
<1>5. Finite' = Finite /\ \A t \in Finite : t \in Nat /\ logits[t] \in Nat
  BY <1>1, <1>2, HeapTypes DEF Finite
<1>6. CASE logits[at] > heap[1][2]
  <2>1. heap' = [heap EXCEPT ![1] = Candidate] /\ floor' = 1 /\ sift' = 1
    BY <1>6 DEF Replace
  <2>2. /\ Len(heap') = n
        /\ \A k \in 1 .. n : k # 1 => heap'[k] = heap[k]
        /\ heap'[1][1] = at /\ heap'[1][2] = logits[at]
    <3>1. heap \in Seq(Vocab \X Levels)
      BY <1>1, HeapTypes
    <3>2. /\ heap'[1] = Candidate /\ Len(heap') = n
          /\ \A k \in 1 .. n : k # 1 => heap'[k] = heap[k]
      BY <1>2, <2>1, <3>1
    <3>3. QED
      BY <3>2 DEF Candidate
  <2> HIDE DEF n
  <2>3. Ordered'
    <3>1. ASSUME NEW p \in 1 .. n, NEW c \in 1 .. n, Child(p, c)
          PROVE  c # 1 /\ (p # 1 => heap'[p][2] <= heap'[c][2])
      <4>1. c # 1
        BY <1>2, <3>1 DEF Child
      <4>2. p # 1 => heap[p][2] <= heap[c][2]
        BY <1>2, <3>1 DEF HeapInv, Ordered, n
      <4>3. QED
        BY <2>2, <4>1, <4>2
    <3>2. QED
      BY <1>2, <2>1, <2>2, <3>1 DEF Ordered, Child
  <2>4. OwnLogits'
    <3>1. \A k \in 1 .. n : heap[k][1] < at /\ heap[k][2] = logits[heap[k][1]]
      BY DEF HeapInv, OwnLogits, n
    <3>2. \A j, k \in 1 .. n : heap[j][1] = heap[k][1] => j = k
      BY DEF HeapInv, OwnLogits, n
    <3>3. QED
      BY <1>2, <1>4, <2>2, <3>1, <3>2 DEF OwnLogits
  <2>5. Topmost'
    <3>1. ASSUME NEW t \in Finite \ Chosen', t < at + 1
          PROVE  \A k \in 1 .. n : logits[t] <= heap'[k][2]
      <4>1. t \in Nat /\ logits[t] \in Nat /\ t # at /\ t < at
        <5>1. at \in Chosen'
          BY <1>2, <2>2 DEF Chosen
        <5>2. QED
          BY <1>4, <1>5, <3>1, <5>1
      <4>2. \A k \in 1 .. n : logits[t] <= heap[k][2]
        <5>1. CASE t \in Chosen
          <6>1. t = heap[1][1]
            BY <2>2, <3>1, <5>1 DEF Chosen, n
          <6>2. logits[t] = heap[1][2]
            BY <1>2, <6>1 DEF HeapInv, OwnLogits, n
          <6>3. QED
            BY <1>3, <6>2
        <5>2. CASE t \notin Chosen
          BY <3>1, <4>1, <5>2 DEF HeapInv, Topmost, n
        <5>3. QED
          BY <5>1, <5>2
      <4>3. logits[t] <= heap'[1][2]
        <5>1. logits[t] <= heap[1][2]
          BY <1>2, <4>2
        <5>2. QED
          BY <1>2, <1>4, <1>6, <2>2, <4>1, <5>1
      <4>4. QED
        BY <2>2, <4>2, <4>3
    <3>2. QED
      BY <1>2, <1>5, <2>2, <3>1 DEF Topmost
  <2>6. QED
    BY <2>3, <2>4, <2>5
<1>7. CASE ~(logits[at] > heap[1][2])
  <2>1. UNCHANGED <<heap, floor, sift>>
    BY <1>7 DEF Replace
  <2>2. Ordered'
    BY <1>2, <2>1 DEF HeapInv, Ordered, Child
  <2>3. OwnLogits'
    BY <1>2, <1>4, <2>1 DEF HeapInv, OwnLogits
  <2>4. Topmost'
    <3>1. ASSUME NEW t \in Finite \ Chosen, t < at + 1
          PROVE  \A k \in 1 .. n : logits[t] <= heap[k][2]
      <4>1. CASE t = at
        BY <1>2, <1>3, <1>4, <1>7, <4>1
      <4>2. CASE t # at
        BY <1>4, <1>5, <3>1, <4>2 DEF HeapInv, Topmost
      <4>3. QED
        BY <4>1, <4>2
    <3>2. Chosen' = Chosen
      BY <2>1 DEF Chosen
    <3>3. QED
      BY <1>2, <1>5, <2>1, <3>1, <3>2 DEF Topmost
  <2>5. QED
    BY <2>2, <2>3, <2>4
<1>8. QED
  BY <1>6, <1>7

\* The smallest of an entry and its children.
LEMMA SmallestIs ==
  ASSUME Inv, sift > 0
  PROVE  /\ Smallest(sift) = sift \/ Child(sift, Smallest(sift))
         /\ Smallest(sift) # sift => heap[Smallest(sift)][2] < heap[sift][2]
         /\ \A e \in 1 .. Len(heap) : Child(sift, e) => heap[Smallest(sift)][2] <= heap[e][2]
<1>1. /\ \A k \in 1 .. Len(heap) : heap[k][2] \in Nat
      /\ Len(heap) \in Nat /\ sift \in 1 .. Len(heap)
  BY HeapTypes
<1>2. QED
  BY <1>1, SMTT(20) DEF Smallest, Below, Child

LEMMA SiftDownHeap == ASSUME HeapInv, SiftDown PROVE Ordered' /\ OwnLogits' /\ Topmost'
<1> DEFINE s == Smallest(sift)
           n == Len(heap)
           Other(k) == IF k = sift THEN s ELSE IF k = s THEN sift ELSE k
<1>1. Inv
  BY DEF HeapInv
<1>2. /\ sift \in 1 .. n /\ s \in 1 .. n /\ n \in Nat /\ floor \in Nat /\ floor <= sift
      /\ n = Limit /\ Limit' = Limit /\ UNCHANGED <<logits, at>>
      /\ \A k \in 1 .. n : heap[k][2] \in Nat
  <2>1. sift > 0 /\ UNCHANGED <<logits, at>>
    BY DEF SiftDown
  <2>2. s \in 1 .. n
    BY <1>1, <2>1, SmallestInHeap DEF Inv
  <2>3. floor <= sift /\ ~(n < Limit)
    BY <2>1 DEF HeapInv, Ordered
  <2>4. /\ sift \in 1 .. n /\ n \in Nat /\ floor \in Nat /\ n = Limit
        /\ \A k \in 1 .. n : heap[k][2] \in Nat
    BY <1>1, <2>1, <2>3, HeapTypes, LimitPositive
  <2>5. Limit' = Limit
    BY DEF Limit
  <2>6. QED
    BY <2>1, <2>2, <2>3, <2>4, <2>5
<1>3. /\ Len(heap') = n
      /\ \A k \in 1 .. n : heap'[k] = heap[Other(k)]
  <2>1. heap \in Seq(Vocab \X Levels)
    BY <1>1, HeapTypes
  <2>2. CASE s = sift
    BY <2>2 DEF SiftDown
  <2>3. CASE s # sift
    <3>1. heap' = [heap EXCEPT ![sift] = heap[s], ![s] = heap[sift]]
      BY <2>3 DEF SiftDown
    <3>2. QED
      BY <1>2, <2>1, <2>3, <3>1
  <2>4. QED
    BY <2>2, <2>3
<1>4. /\ s = sift \/ Child(sift, s)
      /\ s # sift => heap[s][2] < heap[sift][2]
      /\ \A e \in 1 .. n : Child(sift, e) => heap[s][2] <= heap[e][2]
  BY <1>1, <1>2, SmallestIs
<1>5. /\ s = sift => floor' = floor - 1 /\ sift' = floor - 1
      /\ s # sift => floor' = floor /\ sift' = s
  BY DEF SiftDown
<1>6. \A p, c \in 1 .. n : p >= floor /\ Child(p, c) =>
        /\ p # sift => heap[p][2] <= heap[c][2]
        /\ c = sift => \A e \in 1 .. n : Child(c, e) => heap[p][2] <= heap[e][2]
  BY <1>2 DEF HeapInv, Ordered
<1> HIDE DEF s, n
<1>7. Ordered'
  <2>1. CASE s = sift
    <3>1. ASSUME NEW p \in 1 .. n, NEW c \in 1 .. n, p >= floor - 1, Child(p, c)
          PROVE  c # floor - 1 /\ (p # floor - 1 => heap[p][2] <= heap[c][2])
      BY <1>2, <1>4, <1>6, <2>1, <3>1 DEF Child
    <3>2. \A k \in 1 .. n : heap'[k] = heap[k]
      BY <1>3, <2>1
    <3>3. QED
      BY <1>2, <1>3, <1>5, <2>1, <3>1, <3>2 DEF Ordered
  <2>2. CASE s # sift
    <3>1. ASSUME NEW p \in 1 .. n, NEW c \in 1 .. n, p >= floor, Child(p, c), p # s
          PROVE  heap'[p][2] <= heap'[c][2]
      <4>1. CASE p = sift
        <5>1. Other(p) = s /\ (c = s => Other(c) = sift) /\ (c # s => Other(c) = c)
          BY <1>2, <3>1, <4>1 DEF Child
        <5>2. QED
          BY <1>2, <1>3, <1>4, <2>2, <3>1, <4>1, <5>1
      <4>2. CASE p # sift
        <5>1. Other(p) = p /\ (c = sift => Other(c) = s) /\ (c # sift => Other(c) = c)
          BY <1>2, <1>4, <2>2, <3>1, <4>2 DEF Child
        <5>2. heap[p][2] <= heap[Other(c)][2]
          BY <1>2, <1>4, <1>6, <2>2, <3>1, <4>2, <5>1
        <5>3. QED
          BY <1>3, <5>1, <5>2
      <4>3. QED
        BY <4>1, <4>2
    <3>2. ASSUME NEW p \in 1 .. n, Child(p, s), NEW e \in 1 .. n, Child(s, e)
          PROVE  heap'[p][2] <= heap'[e][2]
      <4>1. p = sift /\ Other(p) = s /\ Other(e) = e /\ s >= floor
        BY <1>2, <1>4, <2>2, <3>2 DEF Child
      <4>2. heap[s][2] <= heap[e][2]
        BY <1>2, <1>6, <2>2, <3>2, <4>1
      <4>3. QED
        BY <1>3, <4>1, <4>2
    <3>3. floor <= s
      BY <1>2, <1>4, <2>2 DEF Child
    <3>4. QED
      BY <1>2, <1>3, <1>5, <2>2, <3>1, <3>2, <3>3, SMTT(20) DEF Ordered
  <2>3. QED
    BY <2>1, <2>2
<1>8. OwnLogits'
  <2>1. \A k \in 1 .. n : Other(k) \in 1 .. n
    BY <1>2
  <2>2. \A j, k \in 1 .. n : Other(j) = Other(k) => j = k
    BY <1>2
  <2>3. \A k \in 1 .. n : heap[k][1] < at /\ heap[k][2] = logits[heap[k][1]]
    BY DEF HeapInv, OwnLogits, n
  <2>4. \A j, k \in 1 .. n : heap[j][1] = heap[k][1] => j = k
    BY DEF HeapInv, OwnLogits, n
  <2> HIDE DEF Other
  <2>5. ASSUME NEW k \in 1 .. n
        PROVE  heap'[k][1] < at /\ heap'[k][2] = logits[heap'[k][1]]
    BY <1>3, <2>1, <2>3
  <2>6. ASSUME NEW j \in 1 .. n, NEW k \in 1 .. n, heap'[j][1] = heap'[k][1]
        PROVE  j = k
    <3>1. Other(j) \in 1 .. n /\ Other(k) \in 1 .. n
      BY <2>1
    <3>2. heap[Other(j)][1] = heap[Other(k)][1]
      BY <1>3, <2>6
    <3>3. QED
      BY <2>2, <2>4, <3>1, <3>2
  <2>7. QED
    BY <1>2, <1>3, <2>5, <2>6 DEF OwnLogits
<1>9. Topmost'
  <2>1. \A k \in 1 .. n : Other(k) \in 1 .. n /\ heap'[Other(k)] = heap[k]
    BY <1>2, <1>3
  <2> HIDE DEF Other
  <2>2. Chosen \subseteq Chosen' /\ Finite' = Finite
    BY <1>2, <1>3, <2>1 DEF Chosen, Finite, n
  <2>3. ASSUME NEW t \in Finite' \ Chosen', t < at
        PROVE  \A k \in 1 .. n : logits[t] <= heap'[k][2]
    <3>1. \A k \in 1 .. n : logits[t] <= heap[k][2]
      BY <2>2, <2>3 DEF HeapInv, Topmost, n
    <3>2. QED
      BY <1>3, <2>1, <3>1
  <2>4. QED
    BY <1>2, <1>3, <2>3 DEF Topmost
<1>10. QED
  BY <1>7, <1>8, <1>9

LEMMA HeapNext == HeapInv /\ [Next]_vars => HeapInv'
<1> SUFFICES ASSUME HeapInv, [Next]_vars PROVE HeapInv'
  OBVIOUS
<1>1. Inv'
  BY NextInv DEF HeapInv
<1>2. CASE UNCHANGED vars
  BY <1>1, <1>2 DEF HeapInv, Ordered, OwnLogits, Topmost, Finite, Chosen, Limit, Child,
                    vars, scanVars
<1>3. CASE Decode \/ Draw
  <2>1. heap' = <<>> /\ at' = 0 /\ sift' = 0 /\ floor' = 0
    BY <1>3 DEF Decode, Draw
  <2>2. QED
    BY <1>1, <2>1, EmptyHeapNext DEF HeapInv
<1>4. CASE SkipBanned \/ Take \/ Replace \/ SiftDown
  BY <1>1, <1>4, SkipBannedHeap, TakeHeap, ReplaceHeap, SiftDownHeap DEF HeapInv
<1>5. QED
  BY <1>2, <1>3, <1>4 DEF Next, Ended

LEMMA HeapComplete == HeapInv => TopKCorrect
<1> SUFFICES ASSUME HeapInv, Drawing PROVE TopKCorrect
  BY DEF TopKCorrect
<1>1. Inv
  BY DEF HeapInv
<1>2. at = VocabSize /\ \A t \in Finite : t < at
  BY <1>1, VocabHasEnd DEF Drawing, Finite, Vocab
<1>3. Chosen \subseteq Finite
  BY <1>1, HeapTypes DEF Chosen, Finite, Inv, HeapFinite
<1>4. \A t \in Finite \ Chosen :
        Len(heap) = Limit /\ \A k \in 1 .. Len(heap) : logits[t] <= heap[k][2]
  BY <1>2 DEF HeapInv, Topmost
<1>5. Len(heap) < Limit => Chosen = Finite
  <2>1. Len(heap) \in Nat /\ Limit \in Nat
    BY <1>1, LimitPositive, HeapTypes
  <2>2. ASSUME Len(heap) < Limit, NEW t \in Finite
        PROVE  t \in Chosen
    BY <1>4, <2>1, <2>2
  <2>3. QED
    BY <1>3, <2>2
<1>6. QED
  BY <1>3, <1>4, <1>5 DEF TopKCorrect, HeapInv, OwnLogits

\* The candidates of the draw are the TopK largest finite logits, or all of them
\* (min_heap_sift_down and the scan around it, sampling.rs:178).
THEOREM TopKHolds == Spec => []TopKCorrect
<1>1. Init => HeapInv
  BY HeapInit
<1>2. HeapInv /\ [Next]_vars => HeapInv'
  BY HeapNext
<1>3. HeapInv => TopKCorrect
  BY HeapComplete
<1>4. QED
  BY <1>1, <1>2, <1>3, PTL DEF Spec

=============================================================================
