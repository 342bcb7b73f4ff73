---------------------- MODULE TranslationServiceProofs ----------------------
(***************************************************************************)
(* Theorems about TranslationService, for any number of calls and items, any  *)
(* capacity, and whatever the scheduler thread may do to its callers.        *)
(***************************************************************************)
EXTENDS TranslationService, TLAPS, FiniteSetTheorems, SequenceTheorems

QueuedItems == {queue[j] : j \in 1 .. Len(queue)}

\* The scheduler answers an item that it holds, and holds what it took from the
\* queue; what was put there is what each call has sent.
Books ==
  /\ \A i \in Items : i \in submitted <=> i[2] <= sent[i[1]]
  /\ \A j, k \in 1 .. Len(queue) : queue[j] = queue[k] => j = k
  /\ QueuedItems \cap held = {}
  /\ QueuedItems \cup held \subseteq submitted
  /\ \A i \in Items : /\ read[i] <= Len(replies[i]) /\ Len(replies[i]) <= 1
                      /\ replies[i] # <<>> => i \in submitted
                      /\ i \in QueuedItems \cup held => replies[i] = <<>>

\* The items of which nothing is left.
LostItems == {i \in submitted \ (QueuedItems \cup held) : replies[i] = <<>>}

\* The replies that a call has received are those of distinct items.
ReadBy(c) == {k \in 1 .. size[c] : read[<<c, k>>] = 1}

Counts ==
  \A c \in Calls :
    /\ received[c] = Cardinality(ReadBy(c))
    /\ phase[c] = "new" => size[c] = 0 /\ sent[c] = 0
    /\ phase[c] \in {"sending", "waiting"} => sent[c] < size[c]
    /\ phase[c] = "receiving" => sent[c] = size[c] /\ received[c] < size[c]
    /\ phase[c] = "ok" => sent[c] = size[c] /\ received[c] = size[c]

Inv == TypeOK /\ Books /\ Counts

-----------------------------------------------------------------------------
(* The scheduler's side *)

LEMMA ItemsArePairs ==
  /\ \A i \in Items : i[1] \in Calls /\ i[2] \in 1 .. MaxWork /\ i = <<i[1], i[2]>>
  /\ \A c \in Calls, k \in 1 .. MaxWork :
       <<c, k>> \in Items /\ <<c, k>>[1] = c /\ <<c, k>>[2] = k
BY DEF Items

LEMMA QueueTypes ==
  ASSUME TypeOK
  PROVE  /\ queue \in Seq(Items) /\ QueuedItems \subseteq Items
         /\ \A i \in Items : replies[i] \in Seq({"ok", "error"})
         /\ \A i \in Items : read[i] \in Nat /\ Len(replies[i]) \in Nat
<1>1. queue \in Seq(Items) /\ replies \in [Items -> Seq({"ok", "error"})]
  BY DEF TypeOK, Pool!TypeOK
<1>2. \A j \in 1 .. Len(queue) : queue[j] \in Items
  BY <1>1, ElementOfSeq
<1>3. \A i \in Items : Len(replies[i]) \in Nat /\ read[i] \in Nat
  BY <1>1, LenProperties DEF TypeOK
<1> QED  BY <1>1, <1>2, <1>3 DEF QueuedItems

\* The next item leaves the queue.
LEMMA Dequeued ==
  ASSUME TypeOK, Books, queue # <<>>, queue' = Tail(queue)
  PROVE  /\ Head(queue) \in QueuedItems
         /\ QueuedItems' = QueuedItems \ {Head(queue)}
         /\ \A j, k \in 1 .. Len(queue') : queue'[j] = queue'[k] => j = k
         /\ queue' \in Seq(Items) /\ Len(queue') <= Len(queue)
<1>0. queue \in Seq(Items)
  BY QueueTypes
<1>1. /\ Len(queue) \in Nat /\ Len(queue') = Len(queue) - 1
      /\ \A j \in 1 .. Len(queue') : queue'[j] = queue[j + 1]
      /\ Len(queue) # 0 /\ Head(queue) = queue[1] /\ queue' \in Seq(Items)
  BY <1>0, HeadTailProperties, LenProperties, EmptySeq
<1>2. /\ \A j \in 1 .. Len(queue) :
           j = 1 \/ (j - 1 \in 1 .. Len(queue') /\ (j - 1) + 1 = j)
      /\ \A j \in 1 .. Len(queue') : j + 1 \in 1 .. Len(queue) /\ j + 1 # 1
      /\ 1 \in 1 .. Len(queue)
  BY <1>1
<1>3. \A j, k \in 1 .. Len(queue) : queue[j] = queue[k] => j = k
  BY DEF Books
<1>4. QueuedItems' = {queue'[j] : j \in 1 .. Len(queue')}
  BY DEF QueuedItems
<1>5. ASSUME NEW i \in QueuedItems' PROVE i \in QueuedItems \ {Head(queue)}
  <2>1. PICK j \in 1 .. Len(queue') : i = queue[j + 1]
    BY <1>1, <1>4, <1>5
  <2> QED  BY <1>1, <1>2, <1>3, <2>1 DEF QueuedItems
<1>6. ASSUME NEW i \in QueuedItems \ {Head(queue)} PROVE i \in QueuedItems'
  <2>1. PICK j \in 1 .. Len(queue) : i = queue[j]
    BY DEF QueuedItems
  <2>2. j - 1 \in 1 .. Len(queue') /\ queue'[j - 1] = queue[j]
    BY <1>1, <1>2, <2>1
  <2> QED  BY <1>4, <2>1, <2>2
<1>7. \A j, k \in 1 .. Len(queue') : queue'[j] = queue'[k] => j = k
  BY <1>1, <1>2, <1>3
<1>8. Head(queue) \in QueuedItems
  BY <1>1, <1>2 DEF QueuedItems
<1> QED  BY <1>1, <1>5, <1>6, <1>7, <1>8

\* The items of S are answered, each for the first time.
LEMMA Answering ==
  ASSUME TypeOK, Books,
         NEW S, S \subseteq QueuedItems \cup held,
         NEW r \in [S -> {"ok", "error"}],
         replies' = [i \in Items |-> IF i \in S THEN Append(replies[i], r[i])
                                                ELSE replies[i]]
  PROVE  /\ replies' \in [Items -> Seq({"ok", "error"})]
         /\ \A i \in Items : IF i \in S THEN Len(replies'[i]) = 1
                                        ELSE replies'[i] = replies[i]
         /\ \A i \in S : replies'[i] # <<>> /\ Len(replies[i]) = 0
<1>1. S \subseteq Items
  BY QueueTypes DEF TypeOK, Pool!TypeOK
<1>2. \A i \in S : replies[i] = <<>>
  BY <1>1 DEF Books
<1>3. <<>> \in Seq({"ok", "error"}) /\ Len(<<>>) = 0
  BY EmptySeq
<1>4. ASSUME NEW i \in S
      PROVE  /\ Append(replies[i], r[i]) \in Seq({"ok", "error"})
             /\ Len(Append(replies[i], r[i])) = 1
             /\ Append(replies[i], r[i]) # <<>>
  <2>1. r[i] \in {"ok", "error"}
    OBVIOUS
  <2>2. /\ Append(<<>>, r[i]) \in Seq({"ok", "error"})
        /\ Len(Append(<<>>, r[i])) = Len(<<>>) + 1
    BY <1>3, <2>1, AppendProperties
  <2>3. replies[i] = <<>>
    BY <1>2
  <2>4. Append(replies[i], r[i]) = Append(<<>>, r[i])
    BY <2>3, Zenon
  <2>5. Len(Append(<<>>, r[i])) = 1
    BY <1>3, <2>2
  <2>6. Append(<<>>, r[i]) # <<>>
    BY <1>3, <2>5
  <2> QED  BY <2>2, <2>4, <2>5, <2>6
<1>5. \A i \in Items : replies[i] \in Seq({"ok", "error"})
  BY QueueTypes
<1> QED  BY <1>1, <1>2, <1>3, <1>4, <1>5

\* A step of the thread leaves the calls alone and keeps the books.
LEMMA ThreadKeeps ==
  ASSUME Inv, Scheduler
  PROVE  Inv' /\ LostItems \subseteq LostItems'
<1>1. TypeOK /\ Pool!TypeOK /\ Books /\ Counts
  BY DEF Inv, TypeOK
<1>2. UNCHANGED <<callVars, engineVars>> /\ Pool!Thread
  BY DEF Scheduler
<1>3. UNCHANGED <<phase, size, sent, received, read, senders, guards>>
  BY <1>2 DEF callVars, engineVars
<1>4. Counts'
  <2>1. \A c \in Calls : ReadBy(c)' = ReadBy(c)
    BY <1>3 DEF ReadBy
  <2> QED  BY <1>1, <1>3, <2>1 DEF Counts
<1>5. SUFFICES Pool!TypeOK' /\ Books' /\ LostItems \subseteq LostItems'
  BY <1>1, <1>3, <1>4 DEF Inv, TypeOK
<1>6. /\ queue \in Seq(Items) /\ QueuedItems \subseteq Items
      /\ \A i \in Items : replies[i] \in Seq({"ok", "error"})
      /\ \A i \in Items : read[i] \in Nat /\ Len(replies[i]) \in Nat
      /\ Len(queue) \in Nat /\ Len(queue) <= QueueCapacity
      /\ held \subseteq Items /\ submitted \subseteq Items
  BY <1>1, QueueTypes, LenProperties DEF Pool!TypeOK
<1>7. CASE Pool!Take
  <2>1. /\ QueuedItems' = QueuedItems \ {Head(queue)} /\ Head(queue) \in QueuedItems
        /\ \A j, k \in 1 .. Len(queue') : queue'[j] = queue'[k] => j = k
        /\ queue' \in Seq(Items) /\ Len(queue') <= Len(queue)
    BY <1>1, <1>7, Dequeued DEF Pool!Take
  <2>2. /\ UNCHANGED <<running, open, submitted, replies>>
        /\ held' = held \cup {Head(queue)}
    BY <1>7 DEF Pool!Take
  <2>3. Pool!TypeOK'
    <3>1. Len(queue') \in Nat
      BY <2>1, LenProperties
    <3> QED  BY <1>1, <1>6, <2>1, <2>2, <3>1, LimitsNatural DEF Pool!TypeOK
  <2>4. Books'
    BY <1>1, <1>3, <2>1, <2>2 DEF Books
  <2>5. LostItems \subseteq LostItems'
    BY <2>1, <2>2 DEF LostItems
  <2> QED  BY <2>3, <2>4, <2>5
<1>8. CASE Pool!Refuse
  <2>1. /\ QueuedItems' = QueuedItems \ {Head(queue)} /\ Head(queue) \in QueuedItems
        /\ \A j, k \in 1 .. Len(queue') : queue'[j] = queue'[k] => j = k
        /\ queue' \in Seq(Items) /\ Len(queue') <= Len(queue)
    BY <1>1, <1>8, Dequeued DEF Pool!Refuse
  <2>2. UNCHANGED <<running, open, submitted, held>>
    BY <1>8 DEF Pool!Refuse
  <2> DEFINE S == {Head(queue)}
  <2>3. PICK r \in {"ok", "error"} :
          replies' = [replies EXCEPT ![Head(queue)] = Append(@, r)]
    BY <1>8 DEF Pool!Refuse
  <2> DEFINE f == [i \in S |-> r]
  <2>4. f \in [S -> {"ok", "error"}] /\ S \subseteq QueuedItems \cup held
    BY <2>1
  <2>5. replies' = [i \in Items |-> IF i \in S THEN Append(replies[i], f[i])
                                               ELSE replies[i]]
    BY <1>1, <2>3 DEF Pool!TypeOK
  <2>6. /\ replies' \in [Items -> Seq({"ok", "error"})]
        /\ \A i \in Items : IF i \in S THEN Len(replies'[i]) = 1
                                       ELSE replies'[i] = replies[i]
        /\ \A i \in S : replies'[i] # <<>> /\ Len(replies[i]) = 0
    <3> HIDE DEF S, f
    <3> QED  BY <1>1, <2>4, <2>5, Answering
  <2>7. Pool!TypeOK'
    <3>1. Len(queue') \in Nat
      BY <2>1, LenProperties
    <3> QED  BY <1>1, <1>6, <2>1, <2>2, <2>6, <3>1, LimitsNatural DEF Pool!TypeOK
  <2>8. Books'
    <3>1. \A i \in Items : /\ read'[i] <= Len(replies'[i]) /\ Len(replies'[i]) <= 1
                           /\ replies'[i] # <<>> => i \in submitted'
                           /\ i \in QueuedItems' \cup held' => replies'[i] = <<>>
      <4> SUFFICES ASSUME NEW i \in Items
                   PROVE  /\ read'[i] <= Len(replies'[i]) /\ Len(replies'[i]) <= 1
                          /\ replies'[i] # <<>> => i \in submitted'
                          /\ i \in QueuedItems' \cup held' => replies'[i] = <<>>
        OBVIOUS
      <4>1. /\ read[i] <= Len(replies[i]) /\ Len(replies[i]) <= 1
            /\ replies[i] # <<>> => i \in submitted
            /\ i \in QueuedItems \cup held => replies[i] = <<>> /\ i \in submitted
            /\ QueuedItems \cap held = {}
            /\ read[i] \in Nat /\ Len(replies[i]) \in Nat
        BY <1>1, <1>6 DEF Books
      <4>2. CASE i \in S
        <5>1. i \in submitted' /\ i \notin QueuedItems' \cup held'
          BY <4>1, <4>2, <2>1, <2>2, <2>6
        <5>2. Len(replies'[i]) = 1 /\ read'[i] \in Nat /\ read'[i] <= Len(replies'[i])
          BY <1>3, <4>1, <4>2, <2>1, <2>2, <2>6
        <5> QED  BY <5>1, <5>2
      <4>3. CASE i \notin S
        <5>1. replies'[i] = replies[i] /\ read'[i] = read[i]
          BY <1>3, <4>3, <2>1, <2>2, <2>6
        <5>2. i \in QueuedItems' \cup held' => i \in QueuedItems \cup held
          BY <2>1, <2>2, <2>6
        <5>3. submitted' = submitted
          BY <2>1, <2>2, <2>6
        <5> QED  BY <4>1, <5>1, <5>2, <5>3
      <4> QED  BY <4>2, <4>3
    <3> QED  BY <1>1, <1>3, <2>1, <2>2, <3>1 DEF Books
  <2>9. LostItems \subseteq LostItems'
    BY <1>6, <2>1, <2>2, <2>6 DEF LostItems
  <2> QED  BY <2>7, <2>8, <2>9
<1>9. CASE \E S \in SUBSET held : Pool!Answer(S)
  <2>1. PICK S \in SUBSET held : Pool!Answer(S)
    BY <1>9
  <2>2. UNCHANGED <<running, queue, open, submitted>> /\ held' = held \ S
    BY <2>1 DEF Pool!Answer
  <2>3. PICK r \in [S -> {"ok", "error"}] :
          replies' = [i \in Items |-> IF i \in S THEN Append(replies[i], r[i])
                                                 ELSE replies[i]]
    BY <2>1 DEF Pool!Answer
  <2>4. /\ replies' \in [Items -> Seq({"ok", "error"})]
        /\ \A i \in Items : IF i \in S THEN Len(replies'[i]) = 1
                                       ELSE replies'[i] = replies[i]
        /\ \A i \in S : replies'[i] # <<>> /\ Len(replies[i]) = 0
    BY <1>1, <2>3, Answering
  <2>5. QueuedItems' = QueuedItems
    BY <2>2 DEF QueuedItems
  <2>6. Pool!TypeOK'
    BY <1>1, <2>2, <2>4 DEF Pool!TypeOK
  <2>7. Books'
    <3>1. \A i \in Items : /\ read'[i] <= Len(replies'[i]) /\ Len(replies'[i]) <= 1
                           /\ replies'[i] # <<>> => i \in submitted'
                           /\ i \in QueuedItems' \cup held' => replies'[i] = <<>>
      <4> SUFFICES ASSUME NEW i \in Items
                   PROVE  /\ read'[i] <= Len(replies'[i]) /\ Len(replies'[i]) <= 1
                          /\ replies'[i] # <<>> => i \in submitted'
                          /\ i \in QueuedItems' \cup held' => replies'[i] = <<>>
        OBVIOUS
      <4>1. /\ read[i] <= Len(replies[i]) /\ Len(replies[i]) <= 1
            /\ replies[i] # <<>> => i \in submitted
            /\ i \in QueuedItems \cup held => replies[i] = <<>> /\ i \in submitted
            /\ QueuedItems \cap held = {}
            /\ read[i] \in Nat /\ Len(replies[i]) \in Nat
        BY <1>1, <1>6 DEF Books
      <4>2. CASE i \in S
        <5>1. i \in submitted' /\ i \notin QueuedItems' \cup held'
          BY <4>1, <4>2, <2>2, <2>4, <2>5
        <5>2. Len(replies'[i]) = 1 /\ read'[i] \in Nat /\ read'[i] <= Len(replies'[i])
          BY <1>3, <4>1, <4>2, <2>2, <2>4, <2>5
        <5> QED  BY <5>1, <5>2
      <4>3. CASE i \notin S
        <5>1. replies'[i] = replies[i] /\ read'[i] = read[i]
          BY <1>3, <4>3, <2>2, <2>4, <2>5
        <5>2. i \in QueuedItems' \cup held' => i \in QueuedItems \cup held
          BY <2>2, <2>4, <2>5
        <5>3. submitted' = submitted
          BY <2>2, <2>4, <2>5
        <5> QED  BY <4>1, <5>1, <5>2, <5>3
      <4> QED  BY <4>2, <4>3
    <3> QED  BY <1>1, <1>3, <2>2, <2>5, <3>1 DEF Books
  <2>8. LostItems \subseteq LostItems'
    BY <1>6, <2>2, <2>4, <2>5 DEF LostItems
  <2> QED  BY <2>6, <2>7, <2>8
<1>10. CASE Pool!Gone
  <2>1. /\ running' = FALSE /\ queue' = <<>> /\ held' = {}
        /\ UNCHANGED <<open, submitted, replies>>
    BY <1>10 DEF Pool!Gone
  <2>2. <<>> \in Seq(Items) /\ Len(<<>>) = 0
    BY EmptySeq
  <2>3. QueuedItems' = {}
    BY <2>1, <2>2 DEF QueuedItems
  <2>4. Pool!TypeOK'
    <3>1. Len(queue') = 0 /\ queue' \in Seq(Items) /\ 0 <= QueueCapacity
      BY <2>1, <2>2, LimitsNatural
    <3> QED  BY <1>1, <2>1, <3>1 DEF Pool!TypeOK
  <2>5. Books'
    BY <1>1, <1>3, <2>1, <2>2, <2>3 DEF Books
  <2>6. LostItems \subseteq LostItems'
    BY <2>1, <2>3 DEF LostItems
  <2> QED  BY <2>4, <2>5, <2>6
<1>11. CASE \E S \in SUBSET held : Pool!Lose(S)
  <2>1. /\ UNCHANGED <<running, queue, open, submitted, replies>>
        /\ held' \subseteq held /\ MayLose
    BY <1>11 DEF Pool!Lose
  <2>2. QueuedItems' = QueuedItems
    BY <2>1 DEF QueuedItems
  <2>3. Pool!TypeOK' /\ Books'
    BY <1>1, <1>3, <2>1, <2>2 DEF Pool!TypeOK, Books
  <2> QED  BY <2>1, <2>2, <2>3 DEF LostItems
<1> QED  BY <1>2, <1>7, <1>8, <1>9, <1>10, <1>11
         DEF Pool!Thread, Pool!Halt, Pool!Finish

-----------------------------------------------------------------------------
(* The calls' side *)

LEMMA ReadTypes ==
  ASSUME TypeOK, NEW c \in Calls
  PROVE  /\ size[c] \in 0 .. MaxWork /\ sent[c] \in Nat /\ received[c] \in Nat
         /\ IsFiniteSet(1 .. size[c]) /\ Cardinality(1 .. size[c]) = size[c]
         /\ IsFiniteSet(ReadBy(c)) /\ Cardinality(ReadBy(c)) \in Nat
         /\ Cardinality(ReadBy(c)) <= size[c]
         /\ Cardinality(ReadBy(c)) = size[c] => ReadBy(c) = 1 .. size[c]
<1> DEFINE n == size[c]
<1>1. n \in 0 .. MaxWork /\ n \in Nat /\ sent[c] \in Nat /\ received[c] \in Nat
  BY LimitsNatural DEF TypeOK
<1>2. IsFiniteSet(1 .. n) /\ Cardinality(1 .. n) = n
  <2> HIDE DEF n
  <2>1. Cardinality(1 .. n) = (IF 1 > n THEN 0 ELSE n - 1 + 1) /\ IsFiniteSet(1 .. n)
    BY <1>1, FS_Interval
  <2> QED  BY <1>1, <2>1
<1>3. ReadBy(c) \subseteq 1 .. n
  BY DEF ReadBy
<1>4. /\ IsFiniteSet(ReadBy(c)) /\ Cardinality(ReadBy(c)) <= Cardinality(1 .. n)
      /\ Cardinality(1 .. n) = Cardinality(ReadBy(c)) => 1 .. n = ReadBy(c)
  <2> HIDE DEF n
  <2> QED  BY <1>2, <1>3, FS_Subset
<1> QED  BY <1>1, <1>2, <1>4, FS_CardinalityType

\* A call that waits for replies has not read all its items.
LEMMA SomeUnread ==
  ASSUME Inv, NEW c \in Calls, phase[c] = "receiving"
  PROVE  \E k \in 1 .. size[c] :
           <<c, k>> \in Items /\ read[<<c, k>>] = 0 /\ <<c, k>> \in submitted
<1>1. /\ sent[c] = size[c] /\ received[c] = Cardinality(ReadBy(c))
      /\ received[c] < size[c]
  BY DEF Inv, Counts
<1>2. PICK k \in 1 .. size[c] : k \notin ReadBy(c)
  <2>1. ReadBy(c) # 1 .. size[c]
    BY <1>1, ReadTypes DEF Inv
  <2> QED  BY <2>1 DEF ReadBy
<1>3. k \in 1 .. MaxWork /\ <<c, k>> \in Items /\ <<c, k>>[1] = c /\ <<c, k>>[2] = k
  <2>1. k \in 1 .. MaxWork
    BY ReadTypes, LimitsNatural DEF Inv
  <2> QED  BY <2>1, ItemsArePairs
<1>4. read[<<c, k>>] \in Nat /\ read[<<c, k>>] <= 1
  BY <1>3, QueueTypes DEF Inv, Books
<1>5. read[<<c, k>>] # 1
  BY <1>2 DEF ReadBy
<1>6. <<c, k>> \in submitted
  BY <1>1, <1>3 DEF Inv, Books
<1> QED  BY <1>3, <1>4, <1>5, <1>6

\* A call that returns Ok has read each of its items.
LEMMA InvSuffices == Inv => OkIsComplete
<1> SUFFICES ASSUME Inv, NEW c \in Calls, phase[c] = "ok", NEW k \in 1 .. size[c]
             PROVE  Len(replies[<<c, k>>]) = 1 /\ read[<<c, k>>] = 1
  BY DEF OkIsComplete, WorkOf
<1>1. Cardinality(ReadBy(c)) = size[c]
  BY DEF Inv, Counts
<1>2. ReadBy(c) = 1 .. size[c]
  BY <1>1, ReadTypes DEF Inv
<1>3. read[<<c, k>>] = 1
  BY <1>2 DEF ReadBy
<1>4. <<c, k>> \in Items
  <2>1. k \in 1 .. MaxWork
    BY ReadTypes, LimitsNatural DEF Inv
  <2> QED  BY <2>1, ItemsArePairs
<1>5. /\ read[<<c, k>>] <= Len(replies[<<c, k>>]) /\ Len(replies[<<c, k>>]) <= 1
      /\ Len(replies[<<c, k>>]) \in Nat
  BY <1>4, QueueTypes DEF Inv, Books
<1> DEFINE n == Len(replies[<<c, k>>])
<1>6. n = 1
  <2> HIDE DEF n
  <2>1. n \in Nat /\ n <= 1 /\ 1 <= n
    BY <1>3, <1>5 DEF n
  <2> QED  BY <2>1
<1> QED  BY <1>3, <1>6

\* A call without replies has read nothing.
LEMMA NothingRead ==
  ASSUME Inv, NEW c \in Calls, sent[c] = 0, NEW k \in 1 .. MaxWork
  PROVE  read[<<c, k>>] # 1
<1>1. <<c, k>> \in Items /\ <<c, k>> \notin submitted
  BY ItemsArePairs DEF Inv, Books
<1>2. /\ replies[<<c, k>>] = <<>> /\ read[<<c, k>>] <= Len(replies[<<c, k>>])
      /\ read[<<c, k>>] \in Nat
  BY <1>1, QueueTypes DEF Inv, Books
<1>3. Len(<<>>) = 0
  BY EmptySeq
<1> QED  BY <1>2, <1>3

LEMMA BeginKeeps ==
  ASSUME Inv, NEW c \in Calls, Begin(c)
  PROVE  Inv'
<1>1. /\ phase[c] = "new" /\ Main \in senders
      /\ senders' = senders \cup {c} /\ guards' = guards \cup {c}
      /\ UNCHANGED <<running, queue, open, submitted, held, replies>>
      /\ UNCHANGED <<sent, received, read>>
  BY DEF Begin, poolVars
<1>2. PICK n \in 0 .. MaxWork :
        /\ size' = [size EXCEPT ![c] = n]
        /\ phase' = [phase EXCEPT ![c] = IF n = 0 THEN "ok" ELSE "sending"]
  BY DEF Begin, Goto
<1>3. size[c] = 0 /\ sent[c] = 0 /\ received[c] = 0
  <2>1. size[c] = 0 /\ sent[c] = 0 /\ received[c] = Cardinality(ReadBy(c))
    BY <1>1 DEF Inv, Counts
  <2> QED  BY <2>1, ReadTypes DEF Inv
<1>4. TypeOK'
  <2>1. Pool!TypeOK'
    BY <1>1 DEF Inv, TypeOK, Pool!TypeOK
  <2>2. \A d \in Calls : sent'[d] <= size'[d] /\ received'[d] <= sent'[d]
    BY <1>1, <1>2, <1>3 DEF Inv, TypeOK
  <2> QED  BY <1>1, <1>2, <2>1, <2>2 DEF Inv, TypeOK, Phases, Returned, Owners
<1>5. Books'
  BY <1>1 DEF Inv, Books, QueuedItems
<1>6. Counts'
  <2> SUFFICES ASSUME NEW d \in Calls
               PROVE  /\ received'[d] = Cardinality(ReadBy(d)')
                      /\ phase'[d] = "new" => size'[d] = 0 /\ sent'[d] = 0
                      /\ phase'[d] \in {"sending", "waiting"} => sent'[d] < size'[d]
                      /\ phase'[d] = "receiving" =>
                           sent'[d] = size'[d] /\ received'[d] < size'[d]
                      /\ phase'[d] = "ok" =>
                           sent'[d] = size'[d] /\ received'[d] = size'[d]
    BY DEF Counts
  <2>1. CASE d = c
    <3>1. phase'[c] = (IF n = 0 THEN "ok" ELSE "sending") /\ size'[c] = n
      BY <1>2 DEF Inv, TypeOK
    <3>2. ReadBy(c)' = {}
      <4>1. ReadBy(c)' = {k \in 1 .. n : read[<<c, k>>] = 1}
        BY <1>1, <3>1 DEF ReadBy
      <4>2. \A k \in 1 .. n : k \in 1 .. MaxWork
        BY LimitsNatural
      <4> QED  BY <1>3, <4>1, <4>2, NothingRead
    <3> QED  BY <1>1, <1>3, <2>1, <3>1, <3>2, FS_EmptySet
  <2>2. CASE d # c
    <3>1. phase'[d] = phase[d] /\ size'[d] = size[d] /\ ReadBy(d)' = ReadBy(d)
      BY <1>1, <1>2, <2>2 DEF Inv, TypeOK, ReadBy
    <3> QED  BY <1>1, <3>1 DEF Inv, Counts
  <2> QED  BY <2>1, <2>2
<1> QED  BY <1>4, <1>5, <1>6 DEF Inv

LEMMA EnqueueKeeps ==
  ASSUME Inv, NEW c \in Calls, Enqueue(c), phase[c] \in {"sending", "waiting"}
  PROVE  Inv' /\ LostItems \subseteq LostItems'
<1> DEFINE i == <<c, sent[c] + 1>>
<1>1. /\ running /\ open /\ i \notin submitted /\ Len(queue) < QueueCapacity
      /\ queue' = Append(queue, i) /\ submitted' = submitted \cup {i}
      /\ UNCHANGED <<running, open, held, replies>>
      /\ sent' = [sent EXCEPT ![c] = @ + 1]
      /\ phase' = [phase EXCEPT ![c] = IF sent[c] + 1 = size[c] THEN "receiving"
                                                              ELSE "sending"]
      /\ UNCHANGED <<size, received, read, senders, guards>>
  BY DEF Enqueue, Pool!Submit, Pool!Room, Goto, engineVars
<1>2. /\ sent[c] < size[c] /\ sent[c] \in Nat /\ size[c] \in 0 .. MaxWork
      /\ received[c] \in Nat /\ received[c] <= sent[c]
  BY ReadTypes DEF Inv, Counts, TypeOK
<1>3. i \in Items /\ i[1] = c /\ i[2] = sent[c] + 1
  <2>1. sent[c] + 1 \in 1 .. MaxWork
    BY <1>2, LimitsNatural
  <2> QED  BY <2>1, ItemsArePairs
<1>4. /\ queue \in Seq(Items) /\ queue' \in Seq(Items) /\ Len(queue) \in Nat
      /\ Len(queue') = Len(queue) + 1
      /\ \A j \in 1 .. Len(queue) : queue'[j] = queue[j]
      /\ queue'[Len(queue) + 1] = i
  <2> HIDE DEF i
  <2> QED  BY <1>1, <1>3, QueueTypes, AppendProperties, LenProperties DEF Inv
<1>5. /\ \A j \in 1 .. Len(queue') : j = Len(queue) + 1 \/ j \in 1 .. Len(queue)
      /\ \A j \in 1 .. Len(queue) : j \in 1 .. Len(queue')
      /\ Len(queue) + 1 \in 1 .. Len(queue')
  BY <1>4
<1>6. QueuedItems' = QueuedItems \cup {i}
  <2> HIDE DEF i
  <2> QED  BY <1>4, <1>5 DEF QueuedItems
<1>7. i \notin QueuedItems \cup held
  BY <1>1 DEF Inv, Books
<1>8. \A j, k \in 1 .. Len(queue') : queue'[j] = queue'[k] => j = k
  <2>1. \A j \in 1 .. Len(queue) : queue[j] # i
    BY <1>7 DEF QueuedItems
  <2> HIDE DEF i
  <2> QED  BY <1>4, <1>5, <2>1 DEF Inv, Books
<1>9. TypeOK'
  <2>1. Pool!TypeOK'
    <3>1. Len(queue') <= QueueCapacity
      BY <1>1, <1>4, LimitsNatural
    <3> HIDE DEF i
    <3> QED  BY <1>1, <1>3, <1>4, <3>1 DEF Inv, TypeOK, Pool!TypeOK
  <2>2. sent' \in [Calls -> Nat]
    BY <1>1, <1>2 DEF Inv, TypeOK
  <2>3. \A d \in Calls : sent'[d] <= size'[d] /\ received'[d] <= sent'[d]
    <3>1. sent'[c] = sent[c] + 1 /\ \A d \in Calls \ {c} : sent'[d] = sent[d]
      BY <1>1 DEF Inv, TypeOK
    <3>2. sent'[c] <= size'[c] /\ received'[c] <= sent'[c]
      BY <1>1, <1>2, <3>1
    <3> QED  BY <1>1, <3>1, <3>2 DEF Inv, TypeOK
  <2> QED  BY <1>1, <2>1, <2>2, <2>3 DEF Inv, TypeOK, Phases
<1>10. Books'
  <2>1. ASSUME NEW j \in Items
        PROVE  j \in submitted' <=> j[2] <= sent'[j[1]]
    <3>1. j \in submitted <=> j[2] <= sent[j[1]]
      BY DEF Inv, Books
    <3>2. /\ j[1] \in Calls /\ j[2] \in 1 .. MaxWork /\ j = <<j[1], j[2]>>
          /\ sent[j[1]] \in Nat
      BY ItemsArePairs, ReadTypes DEF Inv
    <3>3. CASE j[1] = c
      <4>1. sent'[j[1]] = sent[c] + 1
        BY <1>1, <3>3 DEF Inv, TypeOK
      <4>2. j = i <=> j[2] = sent[c] + 1
        BY <1>3, <3>2, <3>3
      <4>3. j[2] <= sent[c] + 1 <=> j[2] <= sent[c] \/ j[2] = sent[c] + 1
        BY <1>2, <3>2
      <4> HIDE DEF i
      <4> QED  BY <1>1, <3>1, <3>3, <4>1, <4>2, <4>3
    <3>4. CASE j[1] # c
      <4>1. sent'[j[1]] = sent[j[1]] /\ j # i
        BY <1>1, <1>3, <3>2, <3>4 DEF Inv, TypeOK
      <4> HIDE DEF i
      <4> QED  BY <1>1, <3>1, <4>1
    <3> QED  BY <3>3, <3>4
  <2>2. replies[i] = <<>>
    <3> HIDE DEF i
    <3> QED  BY <1>1, <1>3 DEF Inv, Books
  <2> HIDE DEF i
  <2> QED  BY <1>1, <1>3, <1>6, <1>7, <1>8, <2>1, <2>2 DEF Inv, Books
<1>11. Counts'
  <2>1. \A d \in Calls : ReadBy(d)' = ReadBy(d)
    BY <1>1 DEF ReadBy
  <2>2. /\ sent'[c] = sent[c] + 1
        /\ phase'[c] = IF sent[c] + 1 = size[c] THEN "receiving" ELSE "sending"
        /\ \A d \in Calls \ {c} : sent'[d] = sent[d] /\ phase'[d] = phase[d]
    BY <1>1 DEF Inv, TypeOK
  <2>3. received[c] < size[c]
    BY <1>2
  <2> QED  BY <1>1, <1>2, <2>1, <2>2, <2>3 DEF Inv, Counts
<1>12. LostItems \subseteq LostItems'
  <2> HIDE DEF i
  <2> QED  BY <1>1, <1>6 DEF LostItems
<1> QED  BY <1>9, <1>10, <1>11, <1>12 DEF Inv

LEMMA ReceiveKeeps ==
  ASSUME Inv, NEW c \in Calls, Receive(c)
  PROVE  Inv'
<1>1. /\ phase[c] = "receiving"
      /\ received' = [received EXCEPT ![c] = @ + 1]
      /\ phase' = [phase EXCEPT ![c] = IF received[c] + 1 = sent[c] THEN "ok"
                                                                ELSE phase[c]]
      /\ UNCHANGED <<running, queue, open, submitted, held, replies>>
      /\ UNCHANGED <<size, sent, senders, guards>>
  BY DEF Receive, LastReply, Goto, poolVars, engineVars, Inv, TypeOK
<1>2. PICK k \in 1 .. size[c] :
        /\ read[<<c, k>>] < Len(replies[<<c, k>>])
        /\ read' = [read EXCEPT ![<<c, k>>] = @ + 1]
  BY DEF Receive, WorkOf
<1>3. /\ sent[c] = size[c] /\ received[c] < size[c] /\ size[c] \in 0 .. MaxWork
      /\ received[c] \in Nat /\ received[c] = Cardinality(ReadBy(c))
  BY <1>1, ReadTypes DEF Inv, Counts
<1>4. <<c, k>> \in Items
  <2>1. k \in 1 .. MaxWork
    BY <1>3, LimitsNatural
  <2> QED  BY <2>1, ItemsArePairs
<1>5. read[<<c, k>>] = 0 /\ Len(replies[<<c, k>>]) = 1
  <2> DEFINE m == Len(replies[<<c, k>>])
             r == read[<<c, k>>]
  <2>1. m \in Nat /\ m <= 1 /\ r \in Nat /\ r < m
    BY <1>2, <1>4, QueueTypes DEF Inv, Books
  <2> HIDE DEF m, r
  <2>2. r = 0 /\ m = 1
    BY <2>1
  <2> QED  BY <2>2 DEF m, r
<1>6. /\ read' \in [Items -> Nat] /\ read'[<<c, k>>] = 1
      /\ \A i \in Items : i # <<c, k>> => read'[i] = read[i]
  <2>1. read \in [Items -> Nat]
    BY DEF Inv, TypeOK
  <2>2. read' = [read EXCEPT ![<<c, k>>] = 1]
    BY <1>2, <1>5
  <2> QED  BY <1>4, <2>1, <2>2
<1>7. Cardinality(ReadBy(c)') = received[c] + 1
  <2>1. ReadBy(c)' = ReadBy(c) \cup {k}
    <3>1. ReadBy(c)' = {l \in 1 .. size[c] : read'[<<c, l>>] = 1}
      BY <1>1 DEF ReadBy
    <3>2. ASSUME NEW l \in 1 .. size[c], l # k
          PROVE  read'[<<c, l>>] = read[<<c, l>>]
      <4>1. <<c, l>> \in Items /\ <<c, l>> # <<c, k>>
        <5>1. l \in 1 .. MaxWork
          BY <1>3, LimitsNatural
        <5> QED  BY <3>2, <5>1, ItemsArePairs
      <4> QED  BY <1>6, <4>1
    <3> QED  BY <1>6, <3>1, <3>2 DEF ReadBy
  <2>2. k \notin ReadBy(c)
    BY <1>5 DEF ReadBy
  <2> QED  BY <1>3, <2>1, <2>2, ReadTypes, FS_AddElement DEF Inv
<1>8. \A d \in Calls \ {c} : ReadBy(d)' = ReadBy(d)
  <2> SUFFICES ASSUME NEW d \in Calls \ {c}, NEW l \in 1 .. size[d]
               PROVE  read'[<<d, l>>] = read[<<d, l>>]
    BY <1>1 DEF ReadBy
  <2>1. l \in 1 .. MaxWork
    BY ReadTypes, LimitsNatural DEF Inv
  <2>2. <<d, l>> \in Items /\ <<d, l>> # <<c, k>>
    BY <2>1, ItemsArePairs
  <2> QED  BY <1>6, <2>2
<1>9. /\ received'[c] = received[c] + 1
      /\ phase'[c] = IF received[c] + 1 = sent[c] THEN "ok" ELSE phase[c]
      /\ \A d \in Calls \ {c} : received'[d] = received[d] /\ phase'[d] = phase[d]
  BY <1>1 DEF Inv, TypeOK
<1>10. TypeOK'
  <2>1. Pool!TypeOK'
    BY <1>1 DEF Inv, TypeOK, Pool!TypeOK
  <2>2. received' \in [Calls -> Nat]
    BY <1>1, <1>3 DEF Inv, TypeOK
  <2>3. \A d \in Calls : sent'[d] <= size'[d] /\ received'[d] <= sent'[d]
    BY <1>1, <1>3, <1>9 DEF Inv, TypeOK
  <2> QED  BY <1>1, <1>6, <2>1, <2>2, <2>3 DEF Inv, TypeOK, Phases, Returned
<1>11. Books'
  <2>1. \A i \in Items : read'[i] <= Len(replies'[i])
    <3> SUFFICES ASSUME NEW i \in Items PROVE read'[i] <= Len(replies[i])
      BY <1>1
    <3>1. CASE i = <<c, k>>
      <4>1. read'[i] = 1 /\ Len(replies[i]) = 1
        BY <1>5, <1>6, <3>1
      <4> QED  BY <4>1
    <3>2. CASE i # <<c, k>>
      BY <1>6, <3>2 DEF Inv, Books
    <3> QED  BY <3>1, <3>2
  <2> QED  BY <1>1, <2>1 DEF Inv, Books, QueuedItems
<1>12. Counts'
  BY <1>1, <1>3, <1>7, <1>8, <1>9 DEF Inv, Counts
<1> QED  BY <1>10, <1>11, <1>12 DEF Inv

\* A call that waits for room, gives up or fails changes nothing else.
LEMMA MoveKeeps ==
  ASSUME Inv, NEW c \in Calls,
         TrySendFull(c) \/ TrySendDisconnected(c) \/ SendGivesUp(c) \/ RecvFails(c)
  PROVE  Inv'
<1>1. /\ UNCHANGED <<running, queue, open, submitted, held, replies>>
      /\ UNCHANGED <<size, sent, received, read, senders, guards>>
  BY DEF TrySendFull, TrySendDisconnected, SendGivesUp, RecvFails, poolVars,
         engineVars
<1>2. PICK p \in {"waiting", "unavailable", "failed"} :
        /\ phase' = [phase EXCEPT ![c] = p]
        /\ p = "waiting" => phase[c] = "sending"
  BY DEF TrySendFull, TrySendDisconnected, SendGivesUp, RecvFails, Goto
<1>3. /\ phase'[c] = p /\ phase' \in [Calls -> Phases]
      /\ \A d \in Calls \ {c} : phase'[d] = phase[d]
  BY <1>2 DEF Inv, TypeOK, Phases, Returned
<1>4. TypeOK'
  BY <1>1, <1>3 DEF Inv, TypeOK, Pool!TypeOK
<1>5. Books'
  BY <1>1 DEF Inv, Books, QueuedItems
<1>6. Counts'
  <2>1. \A d \in Calls : ReadBy(d)' = ReadBy(d)
    BY <1>1 DEF ReadBy
  <2> QED  BY <1>1, <1>2, <1>3, <2>1 DEF Inv, Counts
<1> QED  BY <1>4, <1>5, <1>6 DEF Inv

LEMMA DropKeeps ==
  ASSUME Inv, NEW o \in Owners, Drop(o)
  PROVE  Inv'
<1>1. /\ UNCHANGED <<running, queue, submitted, held, replies>>
      /\ UNCHANGED <<phase, size, sent, received, read>>
      /\ open' \in BOOLEAN /\ senders' \subseteq senders /\ guards' \subseteq guards
  BY DEF Drop, DropSender, DropGuard, poolVars, callVars, Pool!Close, Inv, TypeOK,
         Pool!TypeOK
<1>2. TypeOK'
  BY <1>1 DEF Inv, TypeOK, Pool!TypeOK
<1>3. Books'
  BY <1>1 DEF Inv, Books, QueuedItems
<1>4. Counts'
  BY <1>1 DEF Inv, Counts, ReadBy
<1> QED  BY <1>2, <1>3, <1>4 DEF Inv

LEMMA NextInv == Inv /\ [Next]_vars => Inv'
<1> SUFFICES ASSUME Inv, [Next]_vars PROVE Inv'
  OBVIOUS
<1>1. CASE Scheduler
  BY <1>1, ThreadKeeps
<1>2. CASE \E c \in Calls : Begin(c)
  BY <1>2, BeginKeeps
<1>3. CASE \E c \in Calls : Call(c)
  <2>1. PICK c \in Calls : Call(c)
    BY <1>3
  <2>2. CASE TrySend(c) \/ SendWaiting(c)
    BY <2>2, EnqueueKeeps DEF TrySend, SendWaiting
  <2>3. CASE Receive(c)
    BY <2>3, ReceiveKeeps
  <2> QED  BY <2>1, <2>2, <2>3, MoveKeeps DEF Call
<1>4. CASE \E o \in Owners : Drop(o)
  BY <1>4, DropKeeps
<1>5. CASE Terminated \/ UNCHANGED vars
  <2>1. /\ UNCHANGED <<running, queue, open, submitted, held, replies>>
        /\ UNCHANGED <<phase, size, sent, received, read, senders, guards>>
    BY <1>5 DEF Terminated, vars, poolVars, callVars, engineVars
  <2>2. TypeOK'
    BY <2>1 DEF Inv, TypeOK, Pool!TypeOK
  <2>3. Books' /\ Counts'
    BY <2>1 DEF Inv, Books, QueuedItems, Counts, ReadBy
  <2> QED  BY <2>2, <2>3 DEF Inv
<1> QED  BY <1>1, <1>2, <1>3, <1>4, <1>5 DEF Next

LEMMA InitInv == Init => Inv
<1> SUFFICES ASSUME Init PROVE Inv
  OBVIOUS
<1>1. /\ running = TRUE /\ queue = <<>> /\ open = TRUE /\ submitted = {} /\ held = {}
      /\ replies = [i \in Items |-> <<>>]
      /\ phase = [c \in Calls |-> "new"] /\ size = [c \in Calls |-> 0]
      /\ sent = [c \in Calls |-> 0] /\ received = [c \in Calls |-> 0]
      /\ read = [i \in Items |-> 0] /\ senders = {Main} /\ guards = {Main}
  BY DEF Init, Pool!Init
<1>2. /\ <<>> \in Seq(Items) /\ <<>> \in Seq({"ok", "error"}) /\ Len(<<>>) = 0
      /\ QueuedItems = {}
  BY <1>1, EmptySeq DEF QueuedItems
<1>3. Pool!TypeOK
  <2>1. 0 <= QueueCapacity
    BY LimitsNatural
  <2> QED  BY <1>1, <1>2, <2>1 DEF Pool!TypeOK
<1>4. TypeOK
  BY <1>1, <1>3, LimitsNatural DEF TypeOK, Phases, Owners
<1>5. Books
  BY <1>1, <1>2, ItemsArePairs DEF Books
<1>6. Counts
  <2>1. \A c \in Calls : ReadBy(c) = {}
    BY <1>1 DEF ReadBy
  <2> QED  BY <1>1, <2>1, FS_EmptySet DEF Counts
<1> QED  BY <1>4, <1>5, <1>6 DEF Inv

-----------------------------------------------------------------------------
(* Theorems *)

\* The variables keep their types and a call's counters stay within its items,
\* for any number of calls: a call never receives more replies than it has sent
\* items (engine.rs:470).
THEOREM ServiceTyping == Spec => []TypeOK
<1>1. Inv => TypeOK
  BY DEF Inv
<1> QED  BY <1>1, InitInv, NextInv, PTL DEF Spec

\* A call that returns Ok has the one result of each of its items, whatever the
\* other calls and the scheduler do (engine.rs:465-484).
THEOREM OkComplete == Spec => []OkIsComplete
BY InitInv, NextInv, InvSuffices, PTL DEF Spec

\* What is lost stays lost: an item is submitted once, and answers go to items
\* that are queued or held.
LEMMA LossIsFinal == Inv /\ [Next]_vars => LostItems \subseteq LostItems'
<1> SUFFICES ASSUME Inv, [Next]_vars PROVE LostItems \subseteq LostItems'
  OBVIOUS
<1>1. CASE Scheduler
  BY <1>1, ThreadKeeps
<1>2. CASE \E c \in Calls : TrySend(c) \/ SendWaiting(c)
  BY <1>2, EnqueueKeeps DEF TrySend, SendWaiting
<1>3. CASE UNCHANGED <<running, queue, submitted, held, replies>>
  BY <1>3 DEF LostItems, QueuedItems
<1>4. CASE \E c \in Calls : Begin(c) \/ Receive(c) \/ TrySendFull(c)
             \/ TrySendDisconnected(c) \/ SendGivesUp(c) \/ RecvFails(c)
  BY <1>3, <1>4 DEF Begin, Receive, TrySendFull, TrySendDisconnected, SendGivesUp,
     RecvFails, poolVars
<1>5. CASE \E o \in Owners : Drop(o)
  BY <1>3, <1>5 DEF Drop, DropSender, DropGuard, poolVars, Pool!Close
<1>6. CASE Terminated \/ UNCHANGED vars
  BY <1>3, <1>6 DEF Terminated, vars, poolVars
<1> QED  BY <1>1, <1>2, <1>4, <1>5, <1>6 DEF Next, Call

LEMMA LostItem ==
  ASSUME NEW i
  PROVE  (Lost(i) <=> i \in LostItems) /\ (Lost(i)' <=> i \in LostItems')
BY DEF Lost, LostItems, QueuedItems

\* The items of a call are its own for ever: its size is set before it sends.
LEMMA SizeIsFixed ==
  ASSUME Inv, [Next]_vars, NEW c \in Calls, phase[c] # "new"
  PROVE  WorkOf(c)' = WorkOf(c)
<1>1. size'[c] = size[c]
  <2>1. CASE \E d \in Calls : Begin(d)
    BY <2>1 DEF Begin, Inv, TypeOK
  <2>2. CASE UNCHANGED size
    BY <2>2
  <2> QED
    BY <2>1, <2>2 DEF Next, Scheduler, Call, TrySend, SendWaiting, Enqueue, Receive,
       TrySendFull, TrySendDisconnected, SendGivesUp, RecvFails, Drop, DropSender,
       DropGuard, Terminated, vars, callVars
<1> QED  BY <1>1 DEF WorkOf

LEMMA Persists == TypeOK /\ [Next]_vars => (~running => ~running')
<1> SUFFICES ASSUME TypeOK, ~running, [Next]_vars PROVE ~running'
  OBVIOUS
<1>1. ~Scheduler
  BY DEF Scheduler, Pool!Thread, Pool!Take, Pool!Refuse, Pool!Halt, Pool!Finish,
     Pool!Answer, Pool!Lose, Pool!Gone
<1>2. UNCHANGED running
  BY <1>1 DEF Next, Begin, Call, TrySend, SendWaiting, Enqueue, Pool!Submit, Receive,
     TrySendFull, TrySendDisconnected, SendGivesUp, RecvFails, Drop, DropSender,
     DropGuard, Pool!Close, Terminated, vars, poolVars
<1> QED  BY <1>2

\* A call as a whole fails only because the thread has ended or one of its own
\* items is lost, for any number of calls: with the thread alive its unread items
\* are queued, held or answered, or lost (engine.rs:458, 473).
THEOREM FailureCause == Spec => []FailureHasCause
<1>1. Init => FailureHasCause
  BY DEF Init, FailureHasCause
<1>2. Inv /\ FailureHasCause /\ [Next]_vars => FailureHasCause'
  <2> SUFFICES ASSUME Inv, FailureHasCause, [Next]_vars,
                      NEW c \in Calls, phase'[c] = "failed", running'
               PROVE  \E i \in WorkOf(c)' : Lost(i)'
    BY DEF FailureHasCause
  <2>1. running
    BY Persists DEF Inv
  <2>2. SUFFICES phase[c] # "new" /\ \E i \in WorkOf(c) : i \in LostItems
    BY LossIsFinal, LostItem, SizeIsFixed
  <2>3. CASE phase[c] = "failed"
    BY <2>1, <2>3, LostItem DEF FailureHasCause
  <2>4. CASE phase[c] # "failed"
    <3>1. RecvFails(c)
      <4>1. CASE UNCHANGED phase
        BY <2>4, <4>1
      <4>2. CASE Scheduler \/ Terminated \/ UNCHANGED vars \/ \E o \in Owners : Drop(o)
        BY <4>1, <4>2 DEF Scheduler, Terminated, vars, callVars, Drop, DropSender,
           DropGuard
      <4>3. CASE \E d \in Calls : Begin(d)
        BY <2>4, <4>3 DEF Begin, Goto, Inv, TypeOK
      <4>4. CASE \E d \in Calls : Call(d)
        <5>1. PICK d \in Calls : Call(d)
          BY <4>4
        <5>2. phase \in [Calls -> Phases]
          BY DEF Inv, TypeOK
        <5>3. ASSUME NEW p, Goto(d, p), p # "failed" PROVE FALSE
          BY <2>4, <5>2, <5>3 DEF Goto
        <5>4. CASE Enqueue(d)
          BY <5>3, <5>4 DEF Enqueue
        <5>5. CASE Receive(d)
          BY <4>1, <5>3, <5>5 DEF Receive
        <5>6. CASE TrySendFull(d) \/ SendGivesUp(d)
          BY <5>3, <5>6 DEF TrySendFull, SendGivesUp
        <5>7. CASE TrySendDisconnected(d)
          BY <2>1, <5>7 DEF TrySendDisconnected
        <5>8. CASE RecvFails(d)
          <6>1. d = c
            BY <2>4, <5>2, <5>8 DEF RecvFails, Goto
          <6> QED  BY <5>8, <6>1
        <5> QED  BY <5>1, <5>4, <5>5, <5>6, <5>7, <5>8 DEF Call, TrySend, SendWaiting
      <4> QED  BY <4>2, <4>3, <4>4 DEF Next
    <3>2. PICK k \in 1 .. size[c] :
            <<c, k>> \in Items /\ read[<<c, k>>] = 0 /\ <<c, k>> \in submitted
      BY <3>1, SomeUnread DEF RecvFails
    <3>3. /\ <<c, k>> \in WorkOf(c)
          /\ <<c, k>> \notin QueuedItems \cup held /\ Len(replies[<<c, k>>]) = 0
      BY <3>1, <3>2 DEF RecvFails, Disconnected, WorkOf, QueuedItems
    <3>4. replies[<<c, k>>] = <<>>
      BY <3>2, <3>3, QueueTypes, EmptySeq DEF Inv
    <3> QED  BY <3>1, <3>2, <3>3, <3>4 DEF LostItems, RecvFails
  <2> QED  BY <2>3, <2>4
<1> QED  BY <1>1, <1>2, InitInv, NextInv, PTL DEF Spec

=============================================================================
