---------------------------- MODULE LongTextsProofs ----------------------------
(***************************************************************************)
(* Theorems about LongTexts, for every batch, every way its texts are cut    *)
(* and every order of the replies: what is merged and whether it is complete, *)
(* why there are errors, how long the chunks are, that they join to the text, *)
(* and that a translation without an error covers all of the text but the    *)
(* wordless sentences of paragraphs that had to be cut.                       *)
(*                                                                            *)
(* The parts: sequences and what FlattenSeq yields; LongInv, the invariant of *)
(* the merge; OutcomeInv, what a missing translation has to do with an error; *)
(* CuttingInv, the loops of chunk_text; SurvivalInv, what they keep of the    *)
(* text; and the theorems.                                                    *)
(***************************************************************************)
EXTENDS TextSurvival, WellFoundedInduction, TLAPS

\* A sequence, whatever its elements are.
SomeSeq(q) == \E S : q \in Seq(S)

LEMMA EmptyIsSeq == SomeSeq(<<>>)
<1>1. <<>> \in Seq({})
  OBVIOUS
<1>2. QED
  BY <1>1 DEF SomeSeq

LEMMA FunctionIsSeq ==
  ASSUME NEW n \in Nat, NEW f, DOMAIN f = 1 .. n, f = [k \in 1 .. n |-> f[k]]
  PROVE  SomeSeq(f) /\ Len(f) = n
<1>1. f \in [1 .. n -> {f[k] : k \in 1 .. n}]
  OBVIOUS
<1>2. f \in Seq({f[k] : k \in 1 .. n}) /\ Len(f) = n
  BY <1>1
<1>3. QED
  BY <1>2 DEF SomeSeq

LEMMA ConcatSeq ==
  ASSUME NEW p, NEW q, SomeSeq(p), SomeSeq(q)
  PROVE  /\ SomeSeq(p \o q) /\ Len(p) \in Nat /\ Len(q) \in Nat
         /\ Len(p \o q) = Len(p) + Len(q)
         /\ \A k \in 1 .. Len(p) : (p \o q)[k] = p[k]
         /\ \A k \in Len(p) + 1 .. Len(p) + Len(q) : (p \o q)[k] = q[k - Len(p)]
<1>1. PICK S : p \in Seq(S)
  BY DEF SomeSeq
<1>2. PICK T : q \in Seq(T)
  BY DEF SomeSeq
<1>3. p \in Seq(S \cup T) /\ q \in Seq(S \cup T)
  BY <1>1, <1>2
<1>4. p \o q \in Seq(S \cup T)
  BY <1>3
<1>5. QED
  BY <1>3, <1>4 DEF SomeSeq

LEMMA ConcatAssoc ==
  ASSUME NEW p, NEW q, NEW r, SomeSeq(p), SomeSeq(q), SomeSeq(r)
  PROVE  p \o (q \o r) = (p \o q) \o r
<1>1. PICK S : p \in Seq(S)
  BY DEF SomeSeq
<1>2. PICK T : q \in Seq(T)
  BY DEF SomeSeq
<1>3. PICK U : r \in Seq(U)
  BY DEF SomeSeq
<1> DEFINE V == S \cup T \cup U
<1>4. p \in Seq(V) /\ q \in Seq(V) /\ r \in Seq(V)
  BY <1>1, <1>2, <1>3
<1> HIDE DEF V
<1>5. QED
  BY <1>4

LEMMA EmptyConcat ==
  ASSUME NEW p, SomeSeq(p)
  PROVE  <<>> \o p = p /\ p \o <<>> = p
  BY DEF SomeSeq

LEMMA AppendSeq ==
  ASSUME NEW q, NEW x, SomeSeq(q)
  PROVE  /\ SomeSeq(Append(q, x)) /\ Len(q) \in Nat
         /\ Len(Append(q, x)) = Len(q) + 1
         /\ \A k \in 1 .. Len(q) : Append(q, x)[k] = q[k]
         /\ Append(q, x)[Len(q) + 1] = x
<1>1. PICK S : q \in Seq(S)
  BY DEF SomeSeq
<1>2. q \in Seq(S \cup {x})
  BY <1>1
<1>3. Append(q, x) \in Seq(S \cup {x})
  BY <1>2
<1>4. QED
  BY <1>2, <1>3 DEF SomeSeq

LEMMA NatWellFounded == IsWellFoundedOn({p \in Nat \X Nat : p[1] < p[2]}, Nat)
  BY NatLessThanWellFounded DEF OpToRel

LEMMA HasLeast ==
  ASSUME NEW T, T \subseteq Nat, T # {}
  PROVE  \E x \in T : \A y \in T : x <= y
<1>1. PICK x \in T : \A y \in T : ~ (<<y, x>> \in {p \in Nat \X Nat : p[1] < p[2]})
  BY NatWellFounded, WFMin
<1>2. ASSUME NEW y \in T
      PROVE  x <= y
  <2>1. x \in Nat /\ y \in Nat /\ <<y, x>> \in Nat \X Nat
    OBVIOUS
  <2>2. ~ (y < x)
    BY <1>1, <2>1
  <2>3. QED
    BY <2>1, <2>2
<1>3. QED
  BY <1>2

\* f puts the first n elements of p together, as the function in FlattenSeq does.
Flattens(f, p, n) ==
  f = [i \in 1 .. n |-> IF i = 1 THEN p[i] ELSE f[i - 1] \o p[i]]

LEMMA FlattensAt ==
  ASSUME NEW n \in Nat, NEW p, NEW f, Flattens(f, p, n), NEW i \in 1 .. n
  PROVE  f[i] = IF i = 1 THEN p[i] ELSE f[i - 1] \o p[i]
<1> DEFINE body == [j \in 1 .. n |-> IF j = 1 THEN p[j] ELSE f[j - 1] \o p[j]]
<1>1. body[i] = IF i = 1 THEN p[i] ELSE f[i - 1] \o p[i]
  OBVIOUS
<1>2. f = body
  BY DEF Flattens
<1> HIDE DEF body
<1>3. f[i] = body[i]
  BY <1>2
<1>4. QED
  BY <1>1, <1>3

LEMMA FlattensExists == ASSUME NEW n \in Nat, NEW p PROVE \E f : Flattens(f, p, n)
<1> DEFINE T == {m \in Nat : ~ \E f : Flattens(f, p, m)}
<1>1. SUFFICES T = {}
  OBVIOUS
<1>2. SUFFICES ASSUME T # {} PROVE FALSE
  OBVIOUS
<1>3. PICK m \in T : \A y \in T : m <= y
  BY <1>2, HasLeast
<1>4. m # 0
  <2>1. Flattens([i \in 1 .. 0 |-> 0], p, 0)
    BY DEF Flattens
  <2>2. QED
    BY <2>1
<1>5. m - 1 \in Nat /\ m - 1 \notin T
  BY <1>3, <1>4
<1>6. PICK f : Flattens(f, p, m - 1)
  BY <1>5
<1> DEFINE g == [i \in 1 .. m |-> IF i = 1 THEN p[i] ELSE f[i - 1] \o p[i]]
<1>7. ASSUME NEW i \in 1 .. m - 1 PROVE g[i] = f[i]
  <2>1. f[i] = IF i = 1 THEN p[i] ELSE f[i - 1] \o p[i]
    BY <1>5, <1>6, FlattensAt
  <2>2. i \in 1 .. m
    BY <1>4
  <2>3. QED
    BY <2>1, <2>2
<1>8. ASSUME NEW i \in 1 .. m, i # 1 PROVE g[i - 1] = f[i - 1]
  <2>1. i - 1 \in 1 .. m - 1
    BY <1>3, <1>8
  <2> HIDE DEF g
  <2>2. QED
    BY <1>7, <2>1
<1>9. \A i \in 1 .. m : (IF i = 1 THEN p[i] ELSE f[i - 1] \o p[i])
                       = (IF i = 1 THEN p[i] ELSE g[i - 1] \o p[i])
  BY <1>8
<1>10. Flattens(g, p, m)
  <2>1. g = [i \in 1 .. m |-> IF i = 1 THEN p[i] ELSE g[i - 1] \o p[i]]
    BY <1>9, Zenon
  <2> HIDE DEF g
  <2>2. QED
    BY <2>1 DEF Flattens
<1>11. QED
  BY <1>3, <1>10

LEMMA FlattensAgree ==
  ASSUME NEW n \in Nat, NEW p, NEW f, NEW g, Flattens(f, p, n), Flattens(g, p, n + 1)
  PROVE  \A i \in 1 .. n : f[i] = g[i]
<1> DEFINE T == {i \in 1 .. n : f[i] # g[i]}
<1>1. SUFFICES ASSUME T # {} PROVE FALSE
  OBVIOUS
<1>2. PICK i \in T : \A y \in T : i <= y
  <2>1. T \subseteq Nat
    OBVIOUS
  <2>2. QED
    BY <1>1, <2>1, HasLeast
<1>3. /\ f[i] = IF i = 1 THEN p[i] ELSE f[i - 1] \o p[i]
      /\ g[i] = IF i = 1 THEN p[i] ELSE g[i - 1] \o p[i]
  <2>1. i \in 1 .. n /\ i \in 1 .. n + 1
    OBVIOUS
  <2>2. QED
    BY <2>1, FlattensAt
<1>4. i # 1 => f[i - 1] = g[i - 1]
  BY <1>2
<1>5. QED
  BY <1>3, <1>4

\* What is put together from one more sequence.
LEMMA FlattenStep ==
  ASSUME NEW n \in Nat, NEW p, SomeSeq(p[n + 1])
  PROVE  FlattenSeq([k \in 1 .. n + 1 |-> p[k]])
           = FlattenSeq([k \in 1 .. n |-> p[k]]) \o p[n + 1]
<1> DEFINE s == [k \in 1 .. n |-> p[k]]
           t == [k \in 1 .. n + 1 |-> p[k]]
           F(u) == CHOOSE f : f = [i \in 1 .. Len(u) |->
                                     IF i = 1 THEN u[i] ELSE f[i - 1] \o u[i]]
<1>1. Len(s) = n /\ Len(t) = n + 1
  OBVIOUS
<1>2. FlattenSeq(t) = F(t)[n + 1]
  <2> HIDE DEF s, t
  <2>1. FlattenSeq(t) = IF Len(t) = 0 THEN t ELSE F(t)[Len(t)]
    BY DEF FlattenSeq
  <2> HIDE DEF F
  <2>2. QED
    BY <1>1, <2>1
<1>3. n # 0 => FlattenSeq(s) = F(s)[n]
  <2> HIDE DEF s, t
  <2>1. FlattenSeq(s) = IF Len(s) = 0 THEN s ELSE F(s)[Len(s)]
    BY DEF FlattenSeq
  <2> HIDE DEF F
  <2>2. QED
    BY <1>1, <2>1
<1>4. ASSUME NEW f
      PROVE  f = [i \in 1 .. Len(t) |-> IF i = 1 THEN t[i] ELSE f[i - 1] \o t[i]]
               <=> Flattens(f, p, n + 1)
  <2>1. [i \in 1 .. Len(t) |-> IF i = 1 THEN t[i] ELSE f[i - 1] \o t[i]]
          = [i \in 1 .. n + 1 |-> IF i = 1 THEN p[i] ELSE f[i - 1] \o p[i]]
    BY <1>1
  <2>2. QED
    BY <2>1 DEF Flattens
<1>5. ASSUME NEW f
      PROVE  f = [i \in 1 .. Len(s) |-> IF i = 1 THEN s[i] ELSE f[i - 1] \o s[i]]
               <=> Flattens(f, p, n)
  <2>1. [i \in 1 .. Len(s) |-> IF i = 1 THEN s[i] ELSE f[i - 1] \o s[i]]
          = [i \in 1 .. n |-> IF i = 1 THEN p[i] ELSE f[i - 1] \o p[i]]
    BY <1>1
  <2>2. QED
    BY <2>1 DEF Flattens
<1>6. Flattens(F(t), p, n + 1) /\ Flattens(F(s), p, n)
  <2>1. (\E f : Flattens(f, p, n + 1)) /\ (\E f : Flattens(f, p, n))
    BY FlattensExists
  <2> HIDE DEF s, t
  <2>2. QED
    BY <1>4, <1>5, <2>1
<1> HIDE DEF F
<1>7. F(t)[n + 1] = IF n + 1 = 1 THEN p[n + 1] ELSE F(t)[n] \o p[n + 1]
  <2> HIDE DEF t
  <2>1. n + 1 \in 1 .. n + 1 /\ n + 1 \in Nat /\ n + 1 - 1 = n
    OBVIOUS
  <2>2. F(t)[n + 1] = IF n + 1 = 1 THEN p[n + 1] ELSE F(t)[n + 1 - 1] \o p[n + 1]
    BY <1>6, <2>1, FlattensAt
  <2>3. QED
    BY <2>1, <2>2
<1>8. CASE n = 0
  <2>1. FlattenSeq(s) = <<>>
    <3>1. s = <<>>
      BY <1>8
    <3>2. QED
      BY <3>1 DEF FlattenSeq
  <2>2. <<>> \o p[n + 1] = p[n + 1]
    BY DEF SomeSeq
  <2>3. FlattenSeq(t) = p[n + 1]
    <3> HIDE DEF t
    <3>1. n + 1 = 1
      BY <1>8
    <3>2. QED
      BY <1>2, <1>7, <3>1
  <2>4. QED
    BY <2>1, <2>2, <2>3
<1>9. CASE n # 0
  <2>1. F(t)[n] = F(s)[n]
    BY <1>6, <1>9, FlattensAgree
  <2>2. FlattenSeq(t) = FlattenSeq(s) \o p[n + 1]
    <3> HIDE DEF s, t
    <3>1. n + 1 # 1
      BY <1>9
    <3>2. QED
      BY <1>2, <1>3, <1>7, <1>9, <2>1, <3>1
  <2>3. QED
    BY <2>2
<1>10. QED
  BY <1>8, <1>9

LEMMA FlattenNone == ASSUME NEW p PROVE FlattenSeq([k \in 1 .. 0 |-> p[k]]) = <<>>
<1>1. [k \in 1 .. 0 |-> p[k]] = <<>>
  OBVIOUS
<1>2. Len(<<>>) = 0
  OBVIOUS
<1>3. FlattenSeq(<<>>) = <<>>
  BY <1>2 DEF FlattenSeq
<1>4. QED
  BY <1>1, <1>3

\* What n sequences are put together to has their elements, and no others.
Gathers(f, p, n) ==
  /\ SomeSeq(f)
  /\ \A a \in 1 .. Len(f) : \E k \in 1 .. n : \E b \in 1 .. Len(p[k]) : f[a] = p[k][b]
  /\ \A k \in 1 .. n : \A b \in 1 .. Len(p[k]) : \E a \in 1 .. Len(f) : f[a] = p[k][b]

LEMMA FlattenGathers ==
  ASSUME NEW n \in Nat, NEW p, \A k \in 1 .. n : SomeSeq(p[k])
  PROVE  Gathers(FlattenSeq([k \in 1 .. n |-> p[k]]), p, n)
<1> DEFINE F(m) == FlattenSeq([k \in 1 .. m |-> p[k]])
           T == {m \in 0 .. n : ~ Gathers(F(m), p, m)}
<1>1. SUFFICES ASSUME T # {} PROVE FALSE
  <2>1. n \in 0 .. n
    OBVIOUS
  <2>2. ASSUME T = {} PROVE Gathers(F(n), p, n)
    <3> HIDE DEF F
    <3>1. QED
      BY <2>1, <2>2
  <2>3. QED
    BY <2>2
<1>2. PICK m \in T : \A y \in T : m <= y
  <2>1. T \subseteq Nat
    OBVIOUS
  <2>2. QED
    BY <1>1, <2>1, HasLeast
<1>3. m \in 0 .. n /\ ~ Gathers(F(m), p, m)
  BY <1>2
<1>4. m # 0
  <2>1. F(0) = <<>>
    BY FlattenNone
  <2> HIDE DEF F
  <2>2. Gathers(F(0), p, 0)
    BY <2>1, EmptyIsSeq DEF Gathers
  <2>3. QED
    BY <1>3, <2>2
<1>5. m - 1 \in 0 .. n /\ m - 1 \in Nat /\ m - 1 + 1 = m
  BY <1>3, <1>4
<1>6. Gathers(F(m - 1), p, m - 1)
  BY <1>2, <1>5
<1>7. m \in 1 .. n /\ SomeSeq(p[m])
  BY <1>3, <1>4
<1>8. F(m) = F(m - 1) \o p[m]
  BY <1>5, <1>7, FlattenStep
<1> HIDE DEF F
<1> DEFINE old == F(m - 1)
           all == F(m)
<1>9. /\ SomeSeq(all) /\ Len(old) \in Nat /\ Len(p[m]) \in Nat
      /\ Len(all) = Len(old) + Len(p[m])
      /\ \A a \in 1 .. Len(old) : all[a] = old[a]
      /\ \A a \in Len(old) + 1 .. Len(old) + Len(p[m]) : all[a] = p[m][a - Len(old)]
  <2>1. SomeSeq(F(m - 1)) /\ SomeSeq(p[m])
    BY <1>6, <1>7 DEF Gathers
  <2>2. all = old \o p[m]
    BY <1>8
  <2> HIDE DEF all
  <2>3. SomeSeq(old)
    BY <2>1
  <2> HIDE DEF old
  <2>4. QED
    BY <2>1, <2>2, <2>3, ConcatSeq
<1> HIDE DEF old, all
<1>10. Gathers(old, p, m - 1)
  BY <1>6 DEF old
<1>11. ASSUME NEW a \in 1 .. Len(all)
       PROVE  \E k \in 1 .. m : \E b \in 1 .. Len(p[k]) : all[a] = p[k][b]
  <2>1. CASE a \in 1 .. Len(old)
    <3>1. PICK k \in 1 .. m - 1 : \E b \in 1 .. Len(p[k]) : old[a] = p[k][b]
      BY <1>10, <2>1 DEF Gathers
    <3>2. k \in 1 .. m
      BY <1>7
    <3>3. QED
      BY <1>9, <2>1, <3>1, <3>2
  <2>2. CASE a \notin 1 .. Len(old)
    <3>1. a - Len(old) \in 1 .. Len(p[m]) /\ all[a] = p[m][a - Len(old)]
      <4>1. a \in Len(old) + 1 .. Len(old) + Len(p[m])
        BY <1>9, <2>2
      <4>2. a - Len(old) \in 1 .. Len(p[m])
        BY <1>9, <4>1
      <4>3. QED
        BY <1>9, <4>1, <4>2
    <3>2. m \in 1 .. m
      BY <1>7
    <3>3. QED
      BY <3>1, <3>2
  <2>3. QED
    BY <2>1, <2>2
<1>12. ASSUME NEW k \in 1 .. m, NEW b \in 1 .. Len(p[k])
       PROVE  \E a \in 1 .. Len(all) : all[a] = p[k][b]
  <2>1. CASE k = m
    <3>1. Len(old) + b \in Len(old) + 1 .. Len(old) + Len(p[m]) /\ Len(old) + b - Len(old) = b
      BY <1>9, <2>1
    <3>2. Len(old) + b \in 1 .. Len(all)
      BY <1>9, <3>1
    <3>3. QED
      BY <1>9, <2>1, <3>1, <3>2
  <2>2. CASE k # m
    <3>1. k \in 1 .. m - 1
      BY <1>7, <2>2
    <3>2. PICK a \in 1 .. Len(old) : old[a] = p[k][b]
      BY <1>10, <3>1 DEF Gathers
    <3>3. a \in 1 .. Len(all)
      BY <1>9
    <3>4. QED
      BY <1>9, <3>2, <3>3
  <2>3. QED
    BY <2>1, <2>2
<1>13. Gathers(all, p, m)
  BY <1>9, <1>11, <1>12 DEF Gathers
<1>14. QED
  BY <1>3, <1>13 DEF all
\* The work items of a chunk are for the languages that it is not in.
LEMMA ItemsShape ==
  ASSUME job \in Jobs, NEW c, NEW src
  PROVE  /\ SomeSeq(ItemsOf(c, src))
         /\ \A a \in 1 .. Len(ItemsOf(c, src)) :
              \E t \in Targets : t # src /\ ItemsOf(c, src)[a] = <<c, t>>
         /\ \A t \in Targets : t # src =>
              \E a \in 1 .. Len(ItemsOf(c, src)) : ItemsOf(c, src)[a] = <<c, t>>
<1> DEFINE n == Len(job.targets)
           p == [k \in 1 .. n |->
                   IF job.targets[k] = src THEN <<>> ELSE <<<<c, job.targets[k]>>>>]
           items == ItemsOf(c, src)
<1>1. n \in Nat
  BY JobsAreBatches
<1>2. ASSUME NEW k \in 1 .. n
      PROVE  /\ SomeSeq(p[k])
             /\ job.targets[k] = src => p[k] = <<>>
             /\ job.targets[k] # src => p[k] = <<<<c, job.targets[k]>>>>
  <2>1. <<<<c, job.targets[k]>>>> \in Seq({<<c, job.targets[k]>>})
    OBVIOUS
  <2>2. QED
    BY <2>1, EmptyIsSeq DEF SomeSeq
<1>3. items = FlattenSeq([k \in 1 .. n |-> p[k]])
  BY DEF ItemsOf
<1> HIDE DEF p, items
<1>4. Gathers(items, p, n)
  BY <1>1, <1>2, <1>3, FlattenGathers
<1>5. ASSUME NEW a \in 1 .. Len(items)
      PROVE  \E t \in Targets : t # src /\ items[a] = <<c, t>>
  <2>1. PICK k \in 1 .. n : \E b \in 1 .. Len(p[k]) : items[a] = p[k][b]
    BY <1>4 DEF Gathers
  <2> PICK b \in 1 .. Len(p[k]) : items[a] = p[k][b]
    BY <2>1
  <2>2. p[k] # <<>>
    BY <2>1
  <2>3. job.targets[k] # src /\ p[k] = <<<<c, job.targets[k]>>>>
    BY <1>2, <2>2
  <2>4. b = 1
    BY <2>3
  <2>5. job.targets[k] \in Targets
    BY DEF Targets
  <2>6. QED
    BY <2>3, <2>4, <2>5
<1>6. ASSUME NEW t \in Targets, t # src
      PROVE  \E a \in 1 .. Len(items) : items[a] = <<c, t>>
  <2>1. PICK k \in 1 .. n : job.targets[k] = t
    BY DEF Targets
  <2>2. p[k] = <<<<c, t>>>>
    BY <1>2, <1>6, <2>1
  <2>3. 1 \in 1 .. Len(p[k]) /\ p[k][1] = <<c, t>>
    BY <2>2
  <2>4. \E a \in 1 .. Len(items) : items[a] = p[k][1]
    BY <1>4, <2>3 DEF Gathers
  <2>5. QED
    BY <2>3, <2>4
<1>7. QED
  BY <1>4, <1>5, <1>6 DEF items, Gathers

-----------------------------------------------------------------------------

\* A text is never cut into nothing.
CutInv == SomeSeq(chunks) /\ (step = "done" => chunks # <<>>)

\* The pieces of the texts follow each other, and the first of each is marked.
FollowsText(c) ==
  IF pieces[c].first THEN pieces[c].text = IF c = 1 THEN 1 ELSE pieces[c - 1].text + 1
                     ELSE c > 1 /\ pieces[c].text = pieces[c - 1].text

TextsUpTo(n) == IF n = 0 THEN 0 ELSE pieces[n].text

PiecesInv ==
  /\ job \in Jobs /\ phase \in {"chunk", "build", "receive", "merge", "done"}
  /\ SomeSeq(pieces) /\ at \in Nat \ {0}
  /\ \A c \in 1 .. Len(pieces) :
       /\ pieces[c].text \in Nat \ {0} /\ pieces[c].first \in BOOLEAN
       /\ pieces[c].join \in {<<>>, <<Separator>>}
       /\ FollowsText(c)
  /\ phase = "chunk" => at = TextsUpTo(Len(pieces)) + 1 /\ at <= Len(job.texts) + 1
  /\ phase # "chunk" => TextsUpTo(Len(pieces)) = Len(job.texts)

\* How far the loops are, and what they have filled.
LoopInv ==
  /\ SomeSeq(source) /\ SomeSeq(work) /\ SomeSeq(errors) /\ SomeSeq(translations)
  /\ Len(errors) = Len(source)
  /\ phase = "chunk" => source = <<>> /\ work = <<>>
  /\ phase = "build" => Len(source) = at - 1 /\ at <= Len(pieces) + 1
  /\ phase \notin {"chunk", "build"} => Len(source) = Len(pieces)
  /\ phase \in {"chunk", "build"} => outstanding = {} /\ translated = {}
  /\ \A k \in 1 .. Len(work) :
       work[k] = <<work[k][1], work[k][2]>> /\ work[k][1] \in 1 .. Len(source)
  /\ outstanding \subseteq 1 .. Len(work) /\ outstanding \cap translated = {}
  /\ phase = "merge" => at <= Len(pieces) + 1
  /\ phase = "done" => at = Len(pieces) + 1

\* Chunk c has failed in language t.
Failed(c, t) ==
  \/ source[c] = NoLanguage
  \/ /\ phase \notin {"chunk", "build"}
     /\ \E k \in 1 .. Len(work) : k \notin translated \cup outstanding /\ work[k] = <<c, t>>

ChunkErrors == \A c \in 1 .. Len(errors) : \A t \in DOMAIN errors[c] : Failed(c, t)

ChunkTexts ==
  phase \in {"merge", "done"} =>
    /\ Len(translations) = Len(pieces)
    /\ \A c \in 1 .. Len(pieces) : \A l \in DOMAIN translations[c] :
         \E x : translations[c][l] = <<<<c, x>>>>

\* What the merge has put together so far: chunks that the loop has passed, and
\* errors that have a cause.
PartsSoFar(i, parts, n) ==
  /\ SomeSeq(parts) /\ InPlace(i, parts)
  /\ \A a \in 1 .. Len(parts) : parts[a] # Separator => parts[a][1] \in Nat /\ parts[a][1] < n

HasFields(r) == {"translations", "errors"} \subseteq DOMAIN r

Explained(i, errs) == \A t \in DOMAIN errs : \E c \in ChunksOf(i) : Failed(c, t)

MergeInv ==
  /\ SomeSeq(results)
  /\ phase \notin {"merge", "done"} => results = <<>>
  /\ phase \in {"merge", "done"} =>
       /\ Len(results) = TextsUpTo(at - 1)
       /\ \A i \in 1 .. Len(results) :
            /\ HasFields(results[i])
            /\ \A l \in DOMAIN results[i].translations :
                 PartsSoFar(i, results[i].translations[l], at)
            /\ Explained(i, results[i].errors)

LongInv == CutInv /\ PiecesInv /\ LoopInv /\ ChunkErrors /\ ChunkTexts /\ MergeInv

-----------------------------------------------------------------------------

LEMMA InitLong == LongInit => LongInv
<1> SUFFICES ASSUME LongInit PROVE LongInv
  OBVIOUS
<1>1. CutInv
  BY EmptyIsSeq DEF LongInit, Cut!Start, CutInv
<1>2. PiecesInv
  BY EmptyIsSeq, JobsAreBatches DEF LongInit, BatchInit, Init, PiecesInv, TextsUpTo
<1>3. LoopInv /\ ChunkErrors /\ ChunkTexts /\ MergeInv
  BY EmptyIsSeq DEF LongInit, BatchInit, Init, LoopInv, ChunkErrors, ChunkTexts, MergeInv
<1>4. QED
  BY <1>1, <1>2, <1>3 DEF LongInv

\* While a text is cut, only the chunks of that text change.
LEMMA CutKeeps == ASSUME CutInv, CutText PROVE CutInv'
<1>1. CASE Cut!Begin
  <2>1. SomeSeq(<<Cut!Chunk(Cut!Whole, <<>>)>>) /\ <<Cut!Chunk(Cut!Whole, <<>>)>> # <<>>
    <3>1. <<Cut!Chunk(Cut!Whole, <<>>)>> \in Seq({Cut!Chunk(Cut!Whole, <<>>)})
      OBVIOUS
    <3>2. QED
      BY <3>1 DEF SomeSeq
  <2>2. QED
    BY <1>1, <2>1 DEF Cut!Begin, CutInv
<1>2. CASE Cut!Pack \/ Cut!SentencesDone
  BY <1>2 DEF Cut!Pack, Cut!SentencesDone, CutInv
<1>3. CASE Cut!Flush \/ Cut!NextSentence
  <2>1. step' # "done"
    BY <1>3 DEF Cut!Flush, Cut!NextSentence
  <2>2. chunks' = chunks \/ \E x : chunks' = Append(chunks, x)
    BY <1>3 DEF Cut!Flush, Cut!NextSentence
  <2>3. SomeSeq(chunks')
    BY <2>2, AppendSeq DEF CutInv
  <2>4. QED
    BY <2>1, <2>3 DEF CutInv
<1>4. CASE Cut!Finish
  <2>1. SomeSeq(<<Cut!Chunk(Cut!Whole, <<>>)>>) /\ <<Cut!Chunk(Cut!Whole, <<>>)>> # <<>>
    <3>1. <<Cut!Chunk(Cut!Whole, <<>>)>> \in Seq({Cut!Chunk(Cut!Whole, <<>>)})
      OBVIOUS
    <3>2. QED
      BY <3>1 DEF SomeSeq
  <2>2. ASSUME NEW x
        PROVE  SomeSeq(Append(chunks, x)) /\ Append(chunks, x) # <<>>
    BY AppendSeq DEF CutInv
  <2>3. QED
    BY <1>4, <2>1, <2>2 DEF Cut!Finish, CutInv
<1>5. QED
  BY <1>1, <1>2, <1>3, <1>4 DEF CutText, Cut!Next

\* What a result rests on stays while the pieces and the outcomes stay.
LEMMA ResultsKept ==
  ASSUME UNCHANGED <<pieces, source, work, translated, outstanding>>,
         phase \in {"chunk", "build"} \/ phase' \notin {"chunk", "build"}
  PROVE  /\ \A i, parts, n : PartsSoFar(i, parts, n) => PartsSoFar(i, parts, n)'
         /\ \A i, errs : Explained(i, errs) => Explained(i, errs)'
<1>1. \A i : ChunksOf(i)' = ChunksOf(i)
  BY DEF ChunksOf
<1>2. \A i, parts : InPlace(i, parts) => InPlace(i, parts)'
  BY <1>1 DEF InPlace
<1>3. \A c, t : Failed(c, t) => Failed(c, t)'
  BY DEF Failed
<1>4. QED
  BY <1>1, <1>2, <1>3 DEF PartsSoFar, Explained

\* A step that leaves the batch alone leaves what is known of it alone.
LEMMA BatchStutter ==
  ASSUME LongInv, UNCHANGED vars
  PROVE  PiecesInv' /\ LoopInv' /\ ChunkErrors' /\ ChunkTexts' /\ MergeInv'
<1> USE DEF LongInv, vars, jobVars, buildVars, replyVars
<1>1. PiecesInv'
  BY DEF PiecesInv, FollowsText, TextsUpTo
<1>2. LoopInv'
  BY DEF LoopInv
<1>3. ChunkErrors'
  BY DEF ChunkErrors, Failed
<1>4. ChunkTexts'
  BY DEF ChunkTexts
<1>5. MergeInv'
  BY ResultsKept DEF MergeInv, TextsUpTo
<1>6. QED
  BY <1>1, <1>2, <1>3, <1>4, <1>5

\* A collected text has at least one piece, and its first is marked.
LEMMA CollectKeeps == ASSUME LongInv, Collect PROVE LongInv'
<1> DEFINE n == Len(chunks)
           m == Len(pieces)
           new == [c \in 1 .. n |-> [text |-> at, first |-> c = 1, content |-> Pieces[c].text,
                                     join |-> Pieces[c].join, blank |-> Pieces[c].blank]]
<1>1. n \in Nat \ {0}
  <2>1. PICK S : chunks \in Seq(S)
    BY DEF LongInv, CutInv, SomeSeq
  <2>2. chunks # <<>>
    BY DEF LongInv, CutInv, Collect
  <2>3. QED
    BY <2>1, <2>2
<1>2. Len(Pieces) = n /\ \A c \in 1 .. n : Pieces[c].join \in {<<>>, <<Separator>>}
  <2>1. Len(Pieces) = n
    BY <1>1, FunctionIsSeq DEF Pieces
  <2>2. QED
    BY <2>1 DEF Pieces
<1>3. SomeSeq(new) /\ Len(new) = n
  BY <1>1, FunctionIsSeq
<1>4. pieces' = pieces \o new
  BY <1>2 DEF Collect, AddText
<1>5. SomeSeq(pieces) /\ m \in Nat /\ at \in Nat \ {0} /\ phase = "chunk" /\ at' = at + 1
  BY <1>3, ConcatSeq DEF LongInv, PiecesInv, Collect, AddText
<1>6. /\ SomeSeq(pieces') /\ Len(pieces') = m + n
      /\ \A k \in 1 .. m : pieces'[k] = pieces[k]
      /\ \A k \in m + 1 .. m + n : /\ pieces'[k].text = at
                                   /\ pieces'[k].first \in BOOLEAN
                                   /\ pieces'[k].first <=> k = m + 1
                                   /\ pieces'[k].join \in {<<>>, <<Separator>>}
  <2>1. /\ SomeSeq(pieces') /\ Len(pieces') = m + n
        /\ \A k \in 1 .. m : pieces'[k] = pieces[k]
        /\ \A k \in m + 1 .. m + n : pieces'[k] = new[k - m]
    BY <1>3, <1>4, <1>5, ConcatSeq
  <2>2. ASSUME NEW k \in m + 1 .. m + n
        PROVE  /\ pieces'[k].text = at
               /\ pieces'[k].first \in BOOLEAN /\ (pieces'[k].first <=> k = m + 1)
               /\ pieces'[k].join \in {<<>>, <<Separator>>}
    <3>1. k - m \in 1 .. n /\ (k - m = 1 <=> k = m + 1)
      BY <1>1, <1>5
    <3>2. pieces'[k] = [text |-> at, first |-> k - m = 1, content |-> Pieces[k - m].text,
                        join |-> Pieces[k - m].join, blank |-> Pieces[k - m].blank]
      BY <2>1, <3>1
    <3>3. pieces'[k].text = at /\ pieces'[k].join = Pieces[k - m].join
      BY <3>2
    <3>4. pieces'[k].first = (k - m = 1)
      BY <3>2
    <3>5. pieces'[k].first \in BOOLEAN /\ (pieces'[k].first <=> k - m = 1)
      BY <3>4
    <3>6. QED
      BY <1>2, <3>1, <3>3, <3>5
  <2>3. QED
    BY <2>1, <2>2
<1>7. UNCHANGED <<job, phase, buildVars, replyVars, translations, errors, results>>
      /\ at <= Len(job.texts)
  BY DEF Collect, AddText
<1> HIDE DEF new, n, m
<1>8. TextsUpTo(m) = at - 1
  BY <1>5 DEF LongInv, PiecesInv, TextsUpTo, m
<1>9. PiecesInv'
  <2>1. Len(job.texts) \in Nat
    BY JobsAreBatches DEF LongInv, PiecesInv
  <2>2. ASSUME NEW c \in 1 .. m + n
        PROVE  /\ pieces'[c].text \in Nat \ {0} /\ pieces'[c].first \in BOOLEAN
               /\ pieces'[c].join \in {<<>>, <<Separator>>}
               /\ FollowsText(c)'
    <3>1. CASE c \in 1 .. m
      <4>1. /\ pieces[c].text \in Nat \ {0} /\ pieces[c].first \in BOOLEAN
            /\ pieces[c].join \in {<<>>, <<Separator>>} /\ FollowsText(c)
        BY <3>1 DEF LongInv, PiecesInv, m
      <4>2. pieces'[c] = pieces[c] /\ (c > 1 => pieces'[c - 1] = pieces[c - 1])
        BY <1>5, <1>6, <3>1
      <4>3. QED
        BY <4>1, <4>2 DEF FollowsText
    <3>2. CASE c = m + 1
      <4>0. c \in m + 1 .. m + n
        BY <1>1, <1>5, <3>2
      <4>1. /\ pieces'[c].text = at /\ pieces'[c].first /\ pieces'[c].first \in BOOLEAN
            /\ pieces'[c].join \in {<<>>, <<Separator>>}
        BY <1>6, <3>2, <4>0
      <4>2. c # 1 => pieces'[c - 1].text + 1 = at
        BY <1>5, <1>6, <1>8, <3>2 DEF TextsUpTo
      <4>3. c = 1 => at = 1
        BY <1>5, <1>8, <3>2 DEF TextsUpTo
      <4>4. FollowsText(c)'
        BY <4>1, <4>2, <4>3 DEF FollowsText
      <4>5. QED
        BY <1>5, <4>1, <4>4
    <3>3. CASE c \in m + 2 .. m + n
      <4>0. c \in m + 1 .. m + n /\ c - 1 \in m + 1 .. m + n /\ c # m + 1 /\ c > 1
        BY <1>1, <1>5, <3>3
      <4>1. /\ pieces'[c].text = at /\ ~pieces'[c].first /\ pieces'[c].first \in BOOLEAN
            /\ pieces'[c - 1].text = at
            /\ pieces'[c].join \in {<<>>, <<Separator>>}
        BY <1>6, <4>0
      <4>2. QED
        BY <1>5, <4>0, <4>1 DEF FollowsText
    <3>4. QED
      BY <1>1, <1>5, <2>2, <3>1, <3>2, <3>3
  <2>3. Len(pieces') # 0 /\ pieces'[Len(pieces')].text = at
    <3>1. m + n \in m + 1 .. m + n /\ m + n # 0
      BY <1>1, <1>5
    <3>2. QED
      BY <1>6, <3>1
  <2>4. at' <= Len(job.texts) + 1 /\ at' \in Nat \ {0}
    BY <1>5, <1>7, <2>1
  <2>5. TextsUpTo(Len(pieces))' = at
    BY <2>3 DEF TextsUpTo
  <2>6. job' \in Jobs /\ phase' = "chunk"
    BY <1>5, <1>7 DEF LongInv, PiecesInv
  <2>7. QED
    BY <1>5, <1>6, <1>7, <2>2, <2>4, <2>5, <2>6 DEF PiecesInv
<1>10. LoopInv'
  BY <1>5, <1>7 DEF LongInv, LoopInv, buildVars, replyVars
<1>11. ChunkErrors' /\ ChunkTexts' /\ MergeInv'
  BY <1>5, <1>7 DEF LongInv, ChunkErrors, ChunkTexts, MergeInv, Failed, buildVars, replyVars
<1>12. CutInv'
  BY EmptyIsSeq DEF LongInv, CutInv, Collect, cutVars
<1>13. QED
  BY <1>9, <1>10, <1>11, <1>12 DEF LongInv

LEMMA ChunkedKeeps ==
  ASSUME LongInv, Chunked
  PROVE  PiecesInv' /\ LoopInv' /\ ChunkErrors' /\ ChunkTexts' /\ MergeInv'
<1>1. UNCHANGED <<jobVars, buildVars, replyVars, translations, errors, results>>
      /\ phase = "chunk" /\ phase' = "build" /\ at' = 1 /\ at > Len(job.texts)
  BY DEF Chunked
<1>2. PiecesInv'
  <2>1. Len(job.texts) \in Nat
    BY JobsAreBatches DEF LongInv, PiecesInv
  <2>2. TextsUpTo(Len(pieces)) \in Nat
    BY EmptyIsSeq, AppendSeq DEF LongInv, PiecesInv, TextsUpTo
  <2>3. TextsUpTo(Len(pieces)) = Len(job.texts)
    BY <1>1, <2>1, <2>2 DEF LongInv, PiecesInv
  <2>4. QED
    BY <1>1, <2>3 DEF LongInv, PiecesInv, FollowsText, TextsUpTo, jobVars
<1>3. LoopInv'
  <2>1. Len(pieces) \in Nat
    BY AppendSeq DEF LongInv, PiecesInv
  <2>2. QED
    BY <1>1, <2>1 DEF LongInv, LoopInv, buildVars, replyVars, jobVars
<1>4. ChunkErrors' /\ ChunkTexts' /\ MergeInv'
  BY <1>1 DEF LongInv, ChunkErrors, ChunkTexts, MergeInv, Failed, buildVars, replyVars
<1>5. QED
  BY <1>2, <1>3, <1>4

\* The pieces are fixed once the texts are cut.
LEMMA PiecesStay ==
  ASSUME LongInv, UNCHANGED jobVars, phase # "chunk",
         phase' \in {"build", "receive", "merge", "done"},
         at' \in Nat \ {0}
  PROVE  PiecesInv'
  BY DEF LongInv, PiecesInv, FollowsText, TextsUpTo, jobVars

LEMMA BuildKeeps ==
  ASSUME LongInv, Build
  PROVE  PiecesInv' /\ LoopInv' /\ ChunkErrors' /\ ChunkTexts' /\ MergeInv'
<1>1. UNCHANGED <<jobVars, phase, replyVars, results>> /\ phase = "build" /\ at' = at + 1
      /\ at <= Len(pieces)
  BY DEF Build
<1>2. PICK src, same, errs :
        /\ source' = Append(source, src)
        /\ translations' = Append(translations, same)
        /\ errors' = Append(errors, errs)
        /\ DOMAIN errs = IF src # NoLanguage THEN {} ELSE Targets
        /\ work' = work \/ work' = work \o ItemsOf(at, src)
  BY DEF Build
<1>3. /\ SomeSeq(source) /\ SomeSeq(errors) /\ SomeSeq(translations) /\ SomeSeq(work)
      /\ Len(errors) = Len(source) /\ Len(source) = at - 1 /\ at \in Nat \ {0}
      /\ Len(pieces) \in Nat
      /\ outstanding = {} /\ translated = {}
  BY <1>1, AppendSeq DEF LongInv, LoopInv, PiecesInv
<1>4. /\ SomeSeq(source') /\ SomeSeq(errors') /\ SomeSeq(translations')
      /\ Len(source') = at /\ Len(errors') = at
      /\ \A c \in 1 .. at - 1 : source'[c] = source[c] /\ errors'[c] = errors[c]
      /\ source'[at] = src /\ errors'[at] = errs
  <2>1. Len(source) \in Nat /\ at = Len(source) + 1 /\ at - 1 = Len(source)
    BY <1>3
  <2>2. SomeSeq(source') /\ SomeSeq(errors') /\ SomeSeq(translations')
    BY <1>2, <1>3, AppendSeq
  <2>3. Len(source') = at /\ source'[at] = src /\ \A c \in 1 .. at - 1 : source'[c] = source[c]
    BY <1>2, <1>3, <2>1, AppendSeq
  <2>4. Len(errors') = at /\ errors'[at] = errs /\ \A c \in 1 .. at - 1 : errors'[c] = errors[c]
    BY <1>2, <1>3, <2>1, AppendSeq
  <2>5. QED
    BY <2>2, <2>3, <2>4
<1>5. /\ SomeSeq(work')
      /\ \A k \in 1 .. Len(work') :
           work'[k] = <<work'[k][1], work'[k][2]>> /\ work'[k][1] \in 1 .. at
  <2>1. \A k \in 1 .. Len(work) : work[k] = <<work[k][1], work[k][2]>> /\ work[k][1] \in 1 .. at
    BY <1>3 DEF LongInv, LoopInv
  <2>2. CASE work' = work
    BY <1>3, <2>1, <2>2
  <2>3. CASE work' = work \o ItemsOf(at, src)
    <3> DEFINE n == Len(ItemsOf(at, src))
    <3>1. SomeSeq(ItemsOf(at, src))
          /\ \A a \in 1 .. n : \E t : ItemsOf(at, src)[a] = <<at, t>>
      BY ItemsShape DEF LongInv, PiecesInv
    <3>4. /\ SomeSeq(work') /\ Len(work) \in Nat /\ Len(work') = Len(work) + n /\ n \in Nat
          /\ \A k \in 1 .. Len(work) : work'[k] = work[k]
          /\ \A k \in Len(work) + 1 .. Len(work) + n :
               work'[k] = ItemsOf(at, src)[k - Len(work)]
      BY <1>3, <2>3, <3>1, ConcatSeq
    <3> HIDE DEF n
    <3>5. ASSUME NEW k \in Len(work) + 1 .. Len(work) + n
          PROVE  \E t : work'[k] = <<at, t>>
      <4>1. k - Len(work) \in 1 .. n
        BY <3>4
      <4>2. QED
        BY <3>1, <3>4, <4>1
    <3>6. ASSUME NEW k \in 1 .. Len(work')
          PROVE  work'[k] = <<work'[k][1], work'[k][2]>> /\ work'[k][1] \in 1 .. at
      <4>1. CASE k \in 1 .. Len(work)
        BY <2>1, <3>4, <4>1
      <4>2. CASE k \in Len(work) + 1 .. Len(work) + n
        BY <1>3, <3>5, <4>2
      <4>3. QED
        BY <3>4, <4>1, <4>2
    <3>7. QED
      BY <3>4, <3>6
  <2>4. QED
    BY <1>2, <2>2, <2>3
<1>6. PiecesInv'
  BY <1>1, <1>3, PiecesStay
<1>7. LoopInv'
  BY <1>1, <1>3, <1>4, <1>5 DEF LoopInv, replyVars, jobVars
<1>8. ChunkErrors'
  <2>1. ASSUME NEW c \in 1 .. at, NEW t \in DOMAIN errors'[c]
        PROVE  source'[c] = NoLanguage
    <3>1. CASE c = at
      BY <1>2, <1>4, <2>1, <3>1
    <3>2. CASE c # at
      <4>1. c \in 1 .. at - 1 /\ c \in 1 .. Len(errors)
        BY <1>3, <3>2
      <4>2. QED
        BY <1>1, <1>4, <2>1, <4>1 DEF LongInv, ChunkErrors, Failed
    <3>3. QED
      BY <3>1, <3>2
  <2>2. QED
    BY <1>4, <2>1 DEF ChunkErrors, Failed
<1>9. ChunkTexts' /\ MergeInv'
  BY <1>1 DEF LongInv, ChunkTexts, MergeInv
<1>10. QED
  BY <1>6, <1>7, <1>8, <1>9

LEMMA DispatchKeeps ==
  ASSUME LongInv, Dispatch
  PROVE  PiecesInv' /\ LoopInv' /\ ChunkErrors' /\ ChunkTexts' /\ MergeInv'
<1>1. UNCHANGED <<jobVars, at, buildVars, translated, translations, errors, results>>
      /\ phase = "build" /\ phase' = "receive" /\ at > Len(pieces)
      /\ outstanding' = 1 .. Len(work)
  BY DEF Dispatch
<1>2. PiecesInv'
  BY <1>1, PiecesStay DEF LongInv, PiecesInv
<1>3. LoopInv'
  <2>1. Len(pieces) \in Nat /\ Len(source) \in Nat /\ at \in Nat
    BY AppendSeq DEF LongInv, PiecesInv, LoopInv
  <2>2. Len(source) = Len(pieces)
    BY <1>1, <2>1 DEF LongInv, LoopInv
  <2>3. QED
    BY <1>1, <2>2 DEF LongInv, LoopInv, buildVars, jobVars
<1>4. ChunkErrors' /\ ChunkTexts' /\ MergeInv'
  BY <1>1 DEF LongInv, ChunkErrors, ChunkTexts, MergeInv, Failed, buildVars
<1>5. QED
  BY <1>2, <1>3, <1>4

LEMMA ReplyOkKeeps ==
  ASSUME LongInv, NEW k \in 1 .. Len(work), ReplyOk(k)
  PROVE  PiecesInv' /\ LoopInv' /\ ChunkErrors' /\ ChunkTexts' /\ MergeInv'
<1>1. /\ UNCHANGED <<jobVars, phase, at, buildVars, translations, errors, results>>
      /\ phase = "receive" /\ k \in outstanding
      /\ outstanding' = outstanding \ {k} /\ translated' = translated \cup {k}
  BY DEF ReplyOk
<1>2. PiecesInv'
  BY <1>1, PiecesStay DEF LongInv, PiecesInv
<1>3. LoopInv'
  BY <1>1 DEF LongInv, LoopInv, buildVars, jobVars
<1>4. translated' \cup outstanding' = translated \cup outstanding
  BY <1>1
<1>5. ChunkErrors' /\ ChunkTexts' /\ MergeInv'
  BY <1>1, <1>4 DEF LongInv, ChunkErrors, ChunkTexts, MergeInv, Failed, buildVars
<1>6. QED
  BY <1>2, <1>3, <1>5

LEMMA ReplyErrorKeeps ==
  ASSUME LongInv, NEW k \in 1 .. Len(work), ReplyError(k)
  PROVE  PiecesInv' /\ LoopInv' /\ ChunkErrors' /\ ChunkTexts' /\ MergeInv'
<1>1. /\ UNCHANGED <<jobVars, phase, at, buildVars, translated, translations, results>>
      /\ phase = "receive" /\ k \in outstanding /\ outstanding' = outstanding \ {k}
  BY DEF ReplyError
<1>2. PiecesInv'
  BY <1>1, PiecesStay DEF LongInv, PiecesInv
<1>3. PICK c, t, failed :
        /\ c \in 1 .. Len(errors)
        /\ work[k] = <<c, t>> /\ DOMAIN failed = DOMAIN errors[c] \cup {t}
        /\ errors' = [errors EXCEPT ![c] = failed]
  <2>1. work[k] = <<work[k][1], work[k][2]>> /\ work[k][1] \in 1 .. Len(errors)
    BY DEF LongInv, LoopInv
  <2>2. DOMAIN Insert(errors[work[k][1]], work[k][2], "translation")
          = DOMAIN errors[work[k][1]] \cup {work[k][2]}
    BY DEF Insert
  <2>3. errors' = [errors EXCEPT ![work[k][1]] =
                     Insert(errors[work[k][1]], work[k][2], "translation")]
    BY DEF ReplyError, PlaceOf
  <2>4. QED
    BY <2>1, <2>2, <2>3
<1> c \in 1 .. Len(errors)
  BY <1>3
<1>4. SomeSeq(errors) /\ k \notin translated
  BY <1>1 DEF LongInv, LoopInv
<1>5. SomeSeq(errors') /\ Len(errors') = Len(errors)
      /\ \A j \in 1 .. Len(errors) : errors'[j] = IF j = c THEN failed ELSE errors[j]
  <2>1. SomeSeq(errors) /\ errors' = [errors EXCEPT ![c] = failed]
    BY <1>3, <1>4
  <2>2. PICK S : errors \in Seq(S)
    BY <2>1 DEF SomeSeq
  <2>3. errors \in Seq(S \cup {failed})
    BY <2>2
  <2>4. errors' \in Seq(S \cup {failed})
    BY <2>1, <2>3
  <2>5. QED
    BY <2>1, <2>3, <2>4 DEF SomeSeq
<1>6. LoopInv'
  BY <1>1, <1>5 DEF LongInv, LoopInv, buildVars, jobVars
<1>7. ChunkErrors'
  <2>1. \A j, u : Failed(j, u) => Failed(j, u)'
    BY <1>1 DEF Failed, buildVars
  <2>2. Failed(c, t)'
    <3>1. k \in 1 .. Len(work') /\ k \notin translated' \cup outstanding' /\ work'[k] = <<c, t>>
      BY <1>1, <1>3, <1>4 DEF buildVars
    <3>2. QED
      BY <1>1, <3>1 DEF Failed
  <2>3. ASSUME NEW j \in 1 .. Len(errors), NEW u \in DOMAIN errors'[j]
        PROVE  Failed(j, u)'
    <3>1. u \in DOMAIN errors[j] \/ (j = c /\ u = t)
      BY <1>3, <1>5, <2>3
    <3>2. QED
      BY <2>1, <2>2, <3>1 DEF LongInv, ChunkErrors
  <2>4. QED
    BY <1>5, <2>3 DEF ChunkErrors
<1>8. ChunkTexts' /\ MergeInv'
  BY <1>1 DEF LongInv, ChunkTexts, MergeInv
<1>9. QED
  BY <1>2, <1>6, <1>7, <1>8

LEMMA PlaceKeeps ==
  ASSUME LongInv, Place
  PROVE  PiecesInv' /\ LoopInv' /\ ChunkErrors' /\ ChunkTexts' /\ MergeInv'
<1>1. UNCHANGED <<jobVars, buildVars, replyVars, errors, results>>
      /\ phase = "receive" /\ phase' = "merge" /\ at' = 1
  BY DEF Place
<1>2. Len(pieces) \in Nat /\ SomeSeq(translations)
  BY AppendSeq DEF LongInv, PiecesInv, LoopInv
<1>3. /\ SomeSeq(translations') /\ Len(translations') = Len(pieces)
      /\ \A c \in 1 .. Len(pieces) : \A l \in DOMAIN translations'[c] :
           \E x : translations'[c][l] = <<<<c, x>>>>
  <2> DEFINE done(c) == {work[k][2] : k \in {j \in translated : work[j][1] = c}}
             own(c) == {source[c]} \ {NoLanguage}
             placed(c) == [l \in DOMAIN translations[c] \cup done(c) \cup own(c) |->
                             IF l \in done(c) THEN <<<<c, l>>>> ELSE <<<<c, AsIs>>>>]
  <2>1. translations' = [c \in 1 .. Len(pieces) |-> placed(c)]
    BY DEF Place
  <2>2. \A c : \A l \in DOMAIN placed(c) : \E x : placed(c)[l] = <<<<c, x>>>>
    OBVIOUS
  <2> HIDE DEF placed
  <2>3. QED
    BY <1>2, <2>1, <2>2, FunctionIsSeq
<1>4. PiecesInv'
  BY <1>1, PiecesStay
<1>5. LoopInv'
  BY <1>1, <1>2, <1>3 DEF LongInv, LoopInv, buildVars, replyVars, jobVars
<1>6. ChunkErrors'
  BY <1>1 DEF LongInv, ChunkErrors, Failed, buildVars, replyVars
<1>7. ChunkTexts'
  BY <1>1, <1>3 DEF ChunkTexts, jobVars
<1>8. MergeInv'
  BY <1>1 DEF LongInv, MergeInv, TextsUpTo
<1>9. QED
  BY <1>4, <1>5, <1>6, <1>7, <1>8

\* What the two steps of the merge share.
LEMMA MergeContext ==
  ASSUME LongInv, phase = "merge", at <= Len(pieces),
         UNCHANGED <<jobVars, phase, buildVars, replyVars, translations, errors>>, at' = at + 1
  PROVE  /\ PiecesInv' /\ LoopInv' /\ ChunkErrors' /\ ChunkTexts'
         /\ at \in Nat /\ at \in 1 .. Len(pieces) /\ FollowsText(at)
         /\ pieces[at].text \in Nat \ {0} /\ pieces[at].join \in {<<>>, <<Separator>>}
         /\ SomeSeq(results) /\ Len(results) \in Nat /\ Len(results) = TextsUpTo(at - 1)
         /\ TextsUpTo(at) = pieces[at].text
         /\ \A i, parts, n : PartsSoFar(i, parts, n) => PartsSoFar(i, parts, n)'
         /\ \A i, errs : Explained(i, errs) => Explained(i, errs)'
         /\ Explained(pieces[at].text, errors[at])
         /\ \A l \in DOMAIN translations[at] : \E x : translations[at][l] = <<<<at, x>>>>
<1>1. at \in Nat \ {0} /\ Len(pieces) \in Nat /\ at \in 1 .. Len(pieces)
  BY AppendSeq DEF LongInv, PiecesInv
<1>2. PiecesInv'
  BY <1>1, PiecesStay
<1>3. LoopInv'
  BY <1>1 DEF LongInv, LoopInv, buildVars, replyVars, jobVars
<1>4. ChunkErrors' /\ ChunkTexts'
  BY DEF LongInv, ChunkErrors, ChunkTexts, Failed, buildVars, replyVars, jobVars
<1>5. FollowsText(at) /\ pieces[at].text \in Nat \ {0}
      /\ pieces[at].join \in {<<>>, <<Separator>>}
  BY <1>1 DEF LongInv, PiecesInv
<1>6. SomeSeq(results) /\ Len(results) \in Nat /\ Len(results) = TextsUpTo(at - 1)
  BY AppendSeq DEF LongInv, MergeInv
<1>7. Explained(pieces[at].text, errors[at])
  <2>1. at \in 1 .. Len(errors) /\ at \in ChunksOf(pieces[at].text)
    BY <1>1 DEF LongInv, LoopInv, ChunksOf
  <2>2. QED
    BY <2>1 DEF LongInv, ChunkErrors, Explained
<1>8. \A l \in DOMAIN translations[at] : \E x : translations[at][l] = <<<<at, x>>>>
  BY <1>1 DEF LongInv, ChunkTexts
<1>9. UNCHANGED <<pieces, source, work, translated, outstanding>>
  BY DEF jobVars, buildVars, replyVars
<1>10. /\ \A i, parts, n : PartsSoFar(i, parts, n) => PartsSoFar(i, parts, n)'
       /\ \A i, errs : Explained(i, errs) => Explained(i, errs)'
  BY <1>9, ResultsKept
<1>11. TextsUpTo(at) = pieces[at].text
  BY <1>1 DEF TextsUpTo
<1>12. QED
  BY <1>1, <1>2, <1>3, <1>4, <1>5, <1>6, <1>7, <1>8, <1>10, <1>11

LEMMA SoFarGrows ==
  ASSUME NEW i, NEW parts, NEW n \in Nat, PartsSoFar(i, parts, n)
  PROVE  PartsSoFar(i, parts, n + 1)
  BY DEF PartsSoFar

\* The text of one chunk alone.
LEMMA OnePart ==
  ASSUME NEW c \in Nat, c \in 1 .. Len(pieces), NEW x
  PROVE  PartsSoFar(pieces[c].text, <<<<c, x>>>>, c + 1)
<1>1. <<<<c, x>>>> \in Seq({<<c, x>>}) /\ Len(<<<<c, x>>>>) = 1
  OBVIOUS
<1>2. SomeSeq(<<<<c, x>>>>)
  BY <1>1 DEF SomeSeq
<1>3. \A a \in 1 .. Len(<<<<c, x>>>>) : a = 1 /\ <<<<c, x>>>>[a][1] = c
  BY <1>1
<1>4. c \in ChunksOf(pieces[c].text)
  BY DEF ChunksOf
<1>5. InPlace(pieces[c].text, <<<<c, x>>>>)
  BY <1>3, <1>4 DEF InPlace
<1>6. QED
  BY <1>2, <1>3, <1>5 DEF PartsSoFar

\* The text of a chunk behind those of earlier chunks.
LEMMA JoinedParts ==
  ASSUME NEW c \in Nat, c \in 1 .. Len(pieces), NEW x,
         NEW old, NEW join \in {<<>>, <<Separator>>},
         PartsSoFar(pieces[c].text, old, c)
  PROVE  PartsSoFar(pieces[c].text, JoinWith(join, old, <<<<c, x>>>>), c + 1)
<1> DEFINE i == pieces[c].text
           last == <<<<c, x>>>>
           front == old \o join
           all == JoinWith(join, old, last)
           isPart(a) == all[a] # Separator
<1>1. SomeSeq(old) /\ Len(old) \in Nat
  BY AppendSeq DEF PartsSoFar
<1>2. SomeSeq(join) /\ Len(join) \in Nat /\ \A a \in 1 .. Len(join) : join[a] = Separator
  <2>1. CASE join = <<>>
    BY <2>1, EmptyIsSeq
  <2>2. CASE join = <<Separator>>
    <3>1. join \in Seq({Separator}) /\ Len(join) = 1 /\ join[1] = Separator
      BY <2>2
    <3>2. QED
      BY <3>1 DEF SomeSeq
  <2>3. QED
    BY <2>1, <2>2
<1>3. SomeSeq(last) /\ Len(last) = 1 /\ last[1] = <<c, x>>
  <2>1. last \in Seq({<<c, x>>}) /\ Len(last) = 1 /\ last[1] = <<c, x>>
    OBVIOUS
  <2>2. QED
    BY <2>1 DEF SomeSeq
<1> HIDE DEF last
<1>4. /\ SomeSeq(front) /\ Len(front) = Len(old) + Len(join) /\ Len(front) \in Nat
      /\ \A a \in 1 .. Len(old) : front[a] = old[a]
      /\ \A a \in Len(old) + 1 .. Len(front) : front[a] = Separator
  <2>1. /\ SomeSeq(front) /\ Len(front) = Len(old) + Len(join)
        /\ \A a \in 1 .. Len(old) : front[a] = old[a]
        /\ \A a \in Len(old) + 1 .. Len(old) + Len(join) : front[a] = join[a - Len(old)]
    BY <1>1, <1>2, ConcatSeq
  <2>2. \A a \in Len(old) + 1 .. Len(old) + Len(join) : a - Len(old) \in 1 .. Len(join)
    BY <1>1, <1>2
  <2>3. QED
    BY <1>1, <1>2, <2>1, <2>2
<1>5. all = front \o last
  BY DEF JoinWith
<1> HIDE DEF front, all
<1>6. /\ SomeSeq(all) /\ Len(all) = Len(front) + 1
      /\ \A a \in 1 .. Len(front) : all[a] = front[a]
      /\ all[Len(front) + 1] = <<c, x>>
  <2>1. /\ SomeSeq(all) /\ Len(all) = Len(front) + Len(last)
        /\ \A a \in 1 .. Len(front) : all[a] = front[a]
        /\ \A a \in Len(front) + 1 .. Len(front) + Len(last) : all[a] = last[a - Len(front)]
    BY <1>3, <1>4, <1>5, ConcatSeq
  <2>2. /\ Len(front) + 1 \in Len(front) + 1 .. Len(front) + Len(last)
        /\ Len(front) + 1 - Len(front) = 1
    BY <1>3, <1>4
  <2>3. QED
    BY <1>3, <2>1, <2>2
<1>7. ASSUME NEW a \in 1 .. Len(all), isPart(a)
      PROVE  \/ a \in 1 .. Len(old) /\ all[a] = old[a]
             \/ a = Len(front) + 1
  <2>1. a \in 1 .. Len(old) \/ a \in Len(old) + 1 .. Len(front) \/ a = Len(front) + 1
    <3>1. a \in Nat /\ 1 <= a /\ a <= Len(front) + 1
      BY <1>4, <1>6
    <3>2. QED
      BY <1>1, <1>4, <3>1, SMTT(20)
  <2>2. a \notin Len(old) + 1 .. Len(front)
    BY <1>1, <1>4, <1>6, <1>7
  <2>3. a \in 1 .. Len(old) => all[a] = old[a]
    BY <1>1, <1>2, <1>4, <1>6
  <2>4. QED
    BY <2>1, <2>2, <2>3
<1>8. \A a \in 1 .. Len(old) : old[a] # Separator =>
        old[a][1] \in Nat /\ old[a][1] < c /\ old[a][1] \in ChunksOf(i)
  BY DEF PartsSoFar, InPlace
<1>9. \A a, b \in 1 .. Len(old) : old[a] # Separator /\ old[b] # Separator /\ a < b =>
        old[a][1] < old[b][1]
  BY DEF PartsSoFar, InPlace
<1>10. c \in ChunksOf(i)
  BY DEF ChunksOf
<1>11. InPlace(i, all)
  <2>1. ASSUME NEW a \in 1 .. Len(all), isPart(a)
        PROVE  all[a][1] \in ChunksOf(i)
    BY <1>6, <1>7, <1>8, <1>10, <2>1
  <2>2. ASSUME NEW a \in 1 .. Len(all), NEW b \in 1 .. Len(all), isPart(a), isPart(b), a < b
        PROVE  all[a][1] < all[b][1]
    <3>1. a \in 1 .. Len(old) /\ all[a] = old[a]
      <4>1. a # Len(front) + 1
        BY <1>4, <1>6, <2>2
      <4>2. QED
        BY <1>7, <2>2, <4>1
    <3>2. CASE b \in 1 .. Len(old) /\ all[b] = old[b]
      BY <1>9, <2>2, <3>1, <3>2
    <3>3. CASE b = Len(front) + 1
      BY <1>6, <1>8, <2>2, <3>1, <3>3
    <3>4. QED
      BY <1>7, <2>2, <3>2, <3>3
  <2>3. QED
    BY <2>1, <2>2 DEF InPlace
<1>12. ASSUME NEW a \in 1 .. Len(all), isPart(a)
       PROVE  all[a][1] \in Nat /\ all[a][1] < c + 1
  BY <1>6, <1>7, <1>8, <1>12
<1>13. QED
  <2>1. PartsSoFar(i, all, c + 1)
    BY <1>6, <1>11, <1>12 DEF PartsSoFar
  <2>2. QED
    BY <2>1 DEF all, last

LEMMA MergeFirstKeeps ==
  ASSUME LongInv, MergeFirst
  PROVE  PiecesInv' /\ LoopInv' /\ ChunkErrors' /\ ChunkTexts' /\ MergeInv'
<1> DEFINE new == [detected |-> source[at], translations |-> translations[at],
                   errors |-> errors[at]]
           i == Len(results) + 1
<1>1. /\ UNCHANGED <<jobVars, phase, buildVars, replyVars, translations, errors>>
      /\ phase = "merge" /\ at <= Len(pieces) /\ at' = at + 1 /\ pieces[at].first
      /\ results' = Append(results, new)
  BY DEF MergeFirst
<1>2. /\ PiecesInv' /\ LoopInv' /\ ChunkErrors' /\ ChunkTexts'
      /\ at \in Nat /\ at \in 1 .. Len(pieces) /\ FollowsText(at)
      /\ SomeSeq(results) /\ Len(results) \in Nat /\ Len(results) = TextsUpTo(at - 1)
      /\ TextsUpTo(at) = pieces[at].text
      /\ \A j, parts, n : PartsSoFar(j, parts, n) => PartsSoFar(j, parts, n)'
      /\ \A j, errs : Explained(j, errs) => Explained(j, errs)'
      /\ Explained(pieces[at].text, errors[at])
      /\ \A l \in DOMAIN translations[at] : \E x : translations[at][l] = <<<<at, x>>>>
  BY <1>1, MergeContext
<1>3. i = pieces[at].text
  <2>1. CASE at = 1
    BY <1>1, <1>2, <2>1 DEF FollowsText, TextsUpTo
  <2>2. CASE at # 1
    <3>1. at - 1 # 0 /\ at - 1 \in Nat
      BY <1>2, <2>2
    <3>2. QED
      BY <1>1, <1>2, <2>2, <3>1 DEF FollowsText, TextsUpTo
  <2>3. QED
    BY <2>1, <2>2
<1> HIDE DEF new, i
<1>4. /\ SomeSeq(results') /\ Len(results') = i /\ results'[i] = new
      /\ \A j \in 1 .. Len(results) : results'[j] = results[j]
  BY <1>1, <1>2, AppendSeq DEF i
<1>5. /\ HasFields(new)
      /\ new.translations = translations[at] /\ new.errors = errors[at]
  BY DEF new, HasFields
<1>6. \A l \in DOMAIN new.translations : PartsSoFar(i, new.translations[l], at + 1)
  BY <1>2, <1>3, <1>5, OnePart
<1>7. \A j \in 1 .. Len(results) :
        /\ HasFields(results[j])
        /\ \A l \in DOMAIN results[j].translations :
             PartsSoFar(j, results[j].translations[l], at + 1)
        /\ Explained(j, results[j].errors)
  BY <1>1, <1>2, SoFarGrows DEF LongInv, MergeInv
<1>8. ASSUME NEW j \in 1 .. i
      PROVE  /\ HasFields(results'[j])
             /\ \A l \in DOMAIN results'[j].translations :
                  PartsSoFar(j, results'[j].translations[l], at + 1)
             /\ Explained(j, results'[j].errors)
  <2>1. CASE j = i
    BY <1>2, <1>3, <1>4, <1>5, <1>6, <2>1
  <2>2. CASE j # i
    <3>1. j \in 1 .. Len(results)
      BY <1>2, <2>2 DEF i
    <3>2. QED
      BY <1>4, <1>7, <3>1
  <2>3. QED
    BY <2>1, <2>2
<1>9. MergeInv'
  <2>1. TextsUpTo(at - 1)' = i
    <3>1. at' - 1 = at /\ at # 0 /\ pieces' = pieces
      BY <1>1, <1>2 DEF jobVars
    <3>2. QED
      BY <1>3, <3>1 DEF TextsUpTo
  <2>2. ASSUME NEW j \in 1 .. i
        PROVE  /\ \A l \in DOMAIN results'[j].translations :
                    PartsSoFar(j, results[j].translations[l], at)'
               /\ Explained(j, results[j].errors)'
    BY <1>1, <1>2, <1>8
  <2>3. QED
    BY <1>1, <1>2, <1>3, <1>4, <1>8, <2>1, <2>2 DEF MergeInv
<1>10. QED
  BY <1>2, <1>9

LEMMA MergeNextKeeps ==
  ASSUME LongInv, MergeNext
  PROVE  PiecesInv' /\ LoopInv' /\ ChunkErrors' /\ ChunkTexts' /\ MergeInv'
<1> DEFINE i == Len(results)
           old == results[i].translations
           new == translations[at]
           texts == [l \in DOMAIN old \cup DOMAIN new |->
                       IF l \notin DOMAIN new THEN old[l]
                       ELSE IF l \notin DOMAIN old THEN new[l]
                       ELSE JoinWith(pieces[at].join, old[l], new[l])]
           errs == KeepFirst(results[i].errors, errors[at])
           merged == [[results[i] EXCEPT !.translations = texts] EXCEPT !.errors = errs]
<1>1. /\ UNCHANGED <<jobVars, phase, buildVars, replyVars, translations, errors>>
      /\ phase = "merge" /\ at <= Len(pieces) /\ at' = at + 1 /\ ~pieces[at].first
  BY DEF MergeNext
<1>2. /\ PiecesInv' /\ LoopInv' /\ ChunkErrors' /\ ChunkTexts'
      /\ at \in Nat /\ at \in 1 .. Len(pieces) /\ FollowsText(at)
      /\ pieces[at].text \in Nat \ {0} /\ pieces[at].join \in {<<>>, <<Separator>>}
      /\ SomeSeq(results) /\ Len(results) \in Nat /\ Len(results) = TextsUpTo(at - 1)
      /\ TextsUpTo(at) = pieces[at].text
      /\ \A j, parts, n : PartsSoFar(j, parts, n) => PartsSoFar(j, parts, n)'
      /\ \A j, es : Explained(j, es) => Explained(j, es)'
      /\ Explained(pieces[at].text, errors[at])
      /\ \A l \in DOMAIN translations[at] : \E x : translations[at][l] = <<<<at, x>>>>
  BY <1>1, MergeContext
<1>3. i = pieces[at].text /\ i \in 1 .. Len(results)
  <2>1. at > 1 /\ at - 1 # 0
    BY <1>1, <1>2 DEF FollowsText
  <2>2. i = pieces[at].text
    BY <1>1, <1>2, <2>1 DEF FollowsText, TextsUpTo
  <2>3. QED
    BY <1>2, <2>2
<1>4. \A j \in 1 .. Len(results) :
        /\ HasFields(results[j])
        /\ \A l \in DOMAIN results[j].translations :
             PartsSoFar(j, results[j].translations[l], at)
        /\ Explained(j, results[j].errors)
  BY <1>1 DEF LongInv, MergeInv
<1>5. \A j, parts : PartsSoFar(j, parts, at) => PartsSoFar(j, parts, at + 1)
  BY <1>2, SoFarGrows
<1>6. ASSUME NEW l \in DOMAIN old \cup DOMAIN new
      PROVE  PartsSoFar(i, texts[l], at + 1)
  <2>1. CASE l \notin DOMAIN new
    <3>1. texts[l] = old[l]
      BY <1>6, <2>1
    <3>2. QED
      BY <1>3, <1>4, <1>5, <1>6, <2>1, <3>1
  <2>2. CASE l \in DOMAIN new
    <3>1. PICK x : new[l] = <<<<at, x>>>>
      BY <1>2, <2>2
    <3>2. CASE l \notin DOMAIN old
      <4>1. texts[l] = <<<<at, x>>>>
        BY <1>6, <2>2, <3>1, <3>2
      <4>2. QED
        BY <1>2, <1>3, <4>1, OnePart
    <3>3. CASE l \in DOMAIN old
      <4>1. texts[l] = JoinWith(pieces[at].join, old[l], <<<<at, x>>>>)
        BY <1>6, <2>2, <3>1, <3>3
      <4>2. PartsSoFar(pieces[at].text, old[l], at)
        BY <1>3, <1>4, <3>3
      <4>3. QED
        BY <1>2, <1>3, <4>1, <4>2, JoinedParts
    <3>4. QED
      BY <3>2, <3>3
  <2>3. QED
    BY <2>1, <2>2
<1>7. Explained(i, errs)
  <2>1. DOMAIN errs = DOMAIN results[i].errors \cup DOMAIN errors[at]
    BY DEF KeepFirst
  <2>2. Explained(i, results[i].errors) /\ Explained(i, errors[at])
    BY <1>2, <1>3, <1>4
  <2> HIDE DEF errs
  <2>3. QED
    BY <2>1, <2>2 DEF Explained
<1>8. results' = [results EXCEPT ![i] = merged]
  <2>1. results' = [results EXCEPT ![i].translations = texts, ![i].errors = errs]
    BY DEF MergeNext
  <2>2. QED
    BY <2>1
<1>9. /\ HasFields(merged) /\ Explained(i, merged.errors)
      /\ \A l \in DOMAIN merged.translations : PartsSoFar(i, merged.translations[l], at + 1)
  <2>1. DOMAIN texts = DOMAIN old \cup DOMAIN new
    OBVIOUS
  <2> HIDE DEF texts, errs, old, new
  <2>2. HasFields(merged) /\ merged.translations = texts /\ merged.errors = errs
    <3>1. HasFields(results[i])
      BY <1>3, <1>4
    <3>2. QED
      BY <3>1 DEF HasFields
  <2> HIDE DEF merged
  <2>3. QED
    BY <1>6, <1>7, <2>1, <2>2
<1> HIDE DEF merged
<1>10. /\ SomeSeq(results') /\ Len(results') = Len(results)
       /\ \A j \in 1 .. Len(results) : results'[j] = IF j = i THEN merged ELSE results[j]
  <2>1. PICK S : results \in Seq(S)
    BY <1>2 DEF SomeSeq
  <2>2. results \in Seq(S \cup {merged})
    BY <2>1
  <2>3. results' \in Seq(S \cup {merged})
    BY <1>3, <1>8, <2>2
  <2>4. QED
    BY <1>3, <1>8, <2>2, <2>3 DEF SomeSeq
<1> HIDE DEF i
<1>11. ASSUME NEW j \in 1 .. Len(results)
       PROVE  /\ HasFields(results'[j])
              /\ \A l \in DOMAIN results'[j].translations :
                   PartsSoFar(j, results'[j].translations[l], at + 1)
              /\ Explained(j, results'[j].errors)
  <2>1. CASE j = i
    BY <1>9, <1>10, <2>1
  <2>2. CASE j # i
    BY <1>4, <1>5, <1>10, <2>2
  <2>3. QED
    BY <2>1, <2>2
<1>12. MergeInv'
  <2>1. TextsUpTo(at - 1)' = Len(results)
    <3>1. at' - 1 = at /\ at # 0 /\ pieces' = pieces
      BY <1>1, <1>2 DEF jobVars
    <3>2. QED
      BY <1>3, <3>1 DEF TextsUpTo, i
  <2>2. ASSUME NEW j \in 1 .. Len(results)
        PROVE  /\ \A l \in DOMAIN results'[j].translations :
                    PartsSoFar(j, results[j].translations[l], at)'
               /\ Explained(j, results[j].errors)'
    BY <1>1, <1>2, <1>11
  <2>3. QED
    BY <1>1, <1>2, <1>10, <1>11, <2>1, <2>2 DEF MergeInv
<1>13. QED
  BY <1>2, <1>12

LEMMA MergedKeeps ==
  ASSUME LongInv, Merged
  PROVE  PiecesInv' /\ LoopInv' /\ ChunkErrors' /\ ChunkTexts' /\ MergeInv'
<1>1. /\ UNCHANGED <<jobVars, at, buildVars, replyVars, translations, errors, results>>
      /\ phase = "merge" /\ phase' = "done" /\ at > Len(pieces)
  BY DEF Merged
<1>2. at \in Nat \ {0} /\ Len(pieces) \in Nat /\ at <= Len(pieces) + 1
  BY <1>1, AppendSeq DEF LongInv, PiecesInv, LoopInv
<1>3. PiecesInv'
  BY <1>1, <1>2, PiecesStay
<1>4. LoopInv'
  BY <1>1, <1>2 DEF LongInv, LoopInv, buildVars, replyVars, jobVars
<1>5. ChunkErrors' /\ ChunkTexts'
  BY <1>1 DEF LongInv, ChunkErrors, ChunkTexts, Failed, buildVars, replyVars, jobVars
<1>6. MergeInv'
  <2>1. UNCHANGED <<pieces, source, work, translated, outstanding>>
    BY <1>1 DEF jobVars, buildVars, replyVars
  <2>2. QED
    BY <1>1, <2>1, ResultsKept DEF LongInv, MergeInv, TextsUpTo
<1>7. QED
  BY <1>3, <1>4, <1>5, <1>6

LEMMA NextLong == LongInv /\ [LongNext]_<<vars, cutVars>> => LongInv'
<1> SUFFICES ASSUME LongInv, [LongNext]_<<vars, cutVars>> PROVE LongInv'
  OBVIOUS
<1>1. CASE UNCHANGED <<vars, cutVars>>
  <2>1. CutInv'
    BY <1>1 DEF LongInv, CutInv, cutVars
  <2>2. QED
    BY <1>1, <2>1, BatchStutter DEF LongInv
<1>2. CASE CutText
  BY <1>2, CutKeeps, BatchStutter DEF LongInv, CutText
<1>3. CASE Collect
  BY <1>3, CollectKeeps
<1>4. CASE Rest
  <2>1. CutInv'
    BY <1>4 DEF LongInv, CutInv, Rest, cutVars
  <2>2. PiecesInv' /\ LoopInv' /\ ChunkErrors' /\ ChunkTexts' /\ MergeInv'
    BY <1>4, ChunkedKeeps, BuildKeeps, DispatchKeeps, PlaceKeeps, MergeFirstKeeps,
       MergeNextKeeps, MergedKeeps, BatchStutter, ReplyOkKeeps, ReplyErrorKeeps
       DEF Rest, AfterChunking, Terminated
  <2>3. QED
    BY <2>1, <2>2 DEF LongInv
<1>5. QED
  BY <1>1, <1>2, <1>3, <1>4 DEF LongNext

LEMMA AlwaysLong == LongSpec => []LongInv
  BY InitLong, NextLong, PTL DEF LongSpec

-----------------------------------------------------------------------------

\* Chunk c needs a model for language t.
Foreign(c, t) == ~pieces[c].blank /\ source[c] # t

\* There is a work item for every chunk and language that needs a model, and for
\* no other.
ItemsInv ==
  /\ translated \subseteq 1 .. Len(work)
  /\ \A k \in 1 .. Len(work) : Foreign(work[k][1], work[k][2])
  /\ \A c \in 1 .. Len(source) : \A t \in Targets :
       source[c] # NoLanguage /\ Foreign(c, t) =>
         \E k \in 1 .. Len(work) : work[k] = <<c, t>>

\* What failed has left an error.
ErrorsInv ==
  /\ \A c \in 1 .. Len(source) : \A t \in Targets :
       source[c] = NoLanguage => t \in DOMAIN errors[c]
  /\ phase \notin {"chunk", "build"} =>
       \A k \in 1 .. Len(work) : k \notin translated \cup outstanding =>
         work[k][2] \in DOMAIN errors[work[k][1]]

\* What needs no model has its text before the first reply.
AsIsInv ==
  phase \in {"chunk", "build", "receive"} =>
    /\ Len(translations) = Len(source)
    /\ \A c \in 1 .. Len(source) : \A t \in Targets :
         source[c] # NoLanguage /\ ~Foreign(c, t) => t \in DOMAIN translations[c]

\* What has no error has the right text after the last reply.
PlacedInv ==
  phase \in {"merge", "done"} =>
    \A c \in 1 .. Len(pieces) : \A t \in Targets \ DOMAIN errors[c] :
      t \in DOMAIN translations[c] /\ translations[c][t] = <<TargetOf(c, t)>>

\* The merge has what it should have after the chunks that it has passed; the
\* texts after the last of them have not begun.
SoFarInv ==
  phase \in {"merge", "done"} =>
    /\ \A i \in 1 .. Len(results) : \A t \in Targets \ DOMAIN results[i].errors :
         /\ t \in DOMAIN results[i].translations
         /\ results[i].translations[t] = ExpectedUpTo(i, t, at - 1)
    /\ \A i \in Nat : \A t \in Targets :
         i > TextsUpTo(at - 1) => ExpectedUpTo(i, t, at - 1) = <<>>

OutcomeInv == ItemsInv /\ ErrorsInv /\ AsIsInv /\ PlacedInv /\ SoFarInv

-----------------------------------------------------------------------------

LEMMA ExpectedNone == ASSUME NEW i, NEW t PROVE ExpectedUpTo(i, t, 0) = <<>>
<1> DEFINE p == [c \in 1 .. 0 |-> Share(i, t, c)]
<1>1. FlattenSeq([c \in 1 .. 0 |-> p[c]]) = <<>>
  BY FlattenNone
<1>2. [c \in 1 .. 0 |-> p[c]] = [c \in 1 .. 0 |-> Share(i, t, c)]
  OBVIOUS
<1>3. QED
  BY <1>1, <1>2 DEF ExpectedUpTo

LEMMA ShareIsSeq ==
  ASSUME NEW i, NEW t, NEW c, pieces[c].join \in {<<>>, <<Separator>>}
  PROVE  SomeSeq(Share(i, t, c))
<1>1. SomeSeq(<<>>) /\ SomeSeq(<<Separator>>) /\ SomeSeq(<<TargetOf(c, t)>>)
  <2>1. <<Separator>> \in Seq({Separator}) /\ <<TargetOf(c, t)>> \in Seq({TargetOf(c, t)})
    OBVIOUS
  <2>2. QED
    BY <2>1, EmptyIsSeq DEF SomeSeq
<1>2. QED
  BY <1>1, ConcatSeq DEF Share

LEMMA ExpectedStep ==
  ASSUME LongInv, NEW i, NEW t, NEW n \in 1 .. Len(pieces)
  PROVE  ExpectedUpTo(i, t, n) = ExpectedUpTo(i, t, n - 1) \o Share(i, t, n)
<1> DEFINE p == [c \in 1 .. n |-> Share(i, t, c)]
<1>1. n \in Nat /\ n - 1 \in Nat /\ n - 1 + 1 = n
  BY AppendSeq DEF LongInv, PiecesInv
<1>2. SomeSeq(p[n - 1 + 1])
  BY <1>1, ShareIsSeq DEF LongInv, PiecesInv
<1>3. FlattenSeq([c \in 1 .. n - 1 + 1 |-> p[c]])
        = FlattenSeq([c \in 1 .. n - 1 |-> p[c]]) \o p[n - 1 + 1]
  <2> HIDE DEF p
  <2>1. QED
    BY <1>1, <1>2, FlattenStep
<1>4. [c \in 1 .. n - 1 + 1 |-> p[c]] = [c \in 1 .. n |-> Share(i, t, c)]
  BY <1>1
<1>5. [c \in 1 .. n - 1 |-> p[c]] = [c \in 1 .. n - 1 |-> Share(i, t, c)]
  BY <1>1
<1>6. p[n - 1 + 1] = Share(i, t, n)
  BY <1>1
<1> HIDE DEF p
<1>7. QED
  BY <1>3, <1>4, <1>5, <1>6 DEF ExpectedUpTo

\* What is expected rests on the pieces and their languages.
LEMMA ExpectedStays ==
  ASSUME UNCHANGED <<pieces, source>>
  PROVE  /\ \A c, t : Foreign(c, t)' = Foreign(c, t)
         /\ \A c, t : TargetOf(c, t)' = TargetOf(c, t)
         /\ \A i, t, n : ExpectedUpTo(i, t, n)' = ExpectedUpTo(i, t, n)
         /\ \A n : TextsUpTo(n)' = TextsUpTo(n)
  BY DEF Foreign, TargetOf, Share, ExpectedUpTo, TextsUpTo

LEMMA InitOutcome == LongInit => OutcomeInv
  BY DEF LongInit, BatchInit, Init, OutcomeInv, ItemsInv, ErrorsInv, AsIsInv, PlacedInv,
         SoFarInv

LEMMA OutcomeStutter == ASSUME OutcomeInv, UNCHANGED vars PROVE OutcomeInv'
<1>1. UNCHANGED <<pieces, source>> /\ Targets' = Targets
  BY DEF vars, jobVars, buildVars, Targets
<1>2. ItemsInv' /\ ErrorsInv'
  BY <1>1, ExpectedStays
     DEF OutcomeInv, ItemsInv, ErrorsInv, vars, buildVars, replyVars
<1>3. AsIsInv'
  BY <1>1, ExpectedStays DEF OutcomeInv, AsIsInv, vars
<1>4. PlacedInv'
  BY <1>1, ExpectedStays DEF OutcomeInv, PlacedInv, vars
<1>5. SoFarInv'
  BY <1>1, ExpectedStays DEF OutcomeInv, SoFarInv, vars
<1>6. QED
  BY <1>2, <1>3, <1>4, <1>5 DEF OutcomeInv

\* Before the first chunk is looked at nothing is outstanding.
LEMMA ChunkOutcome ==
  ASSUME LongInv, OutcomeInv, Collect \/ Chunked
  PROVE  OutcomeInv'
<1>1. /\ UNCHANGED <<buildVars, replyVars, translations, errors, results>>
      /\ phase = "chunk" /\ phase' \in {"chunk", "build"}
  BY DEF Collect, AddText, Chunked
<1>2. source = <<>> /\ work = <<>> /\ source' = <<>> /\ work' = <<>>
      /\ Len(source) = 0 /\ Len(work) = 0 /\ translated' = {}
  BY <1>1 DEF LongInv, LoopInv, buildVars, replyVars
<1>3. Len(translations) = 0 /\ translations' = translations
  BY <1>1, <1>2 DEF OutcomeInv, AsIsInv
<1>4. QED
  BY <1>1, <1>2, <1>3 DEF OutcomeInv, ItemsInv, ErrorsInv, AsIsInv, PlacedInv, SoFarInv

LEMMA DispatchOutcome == ASSUME LongInv, OutcomeInv, Dispatch PROVE OutcomeInv'
<1>1. /\ UNCHANGED <<jobVars, at, buildVars, translated, translations, errors, results>>
      /\ phase = "build" /\ phase' = "receive" /\ outstanding' = 1 .. Len(work)
  BY DEF Dispatch
<1>2. UNCHANGED <<pieces, source, work>> /\ Targets' = Targets
  BY <1>1 DEF jobVars, buildVars, Targets
<1>3. UNCHANGED <<translated, translations, errors, results>>
      /\ translated' \cup outstanding' = translated \cup 1 .. Len(work)
  BY <1>1
<1>4. ItemsInv' /\ ErrorsInv'
  BY <1>1, <1>2, <1>3, ExpectedStays DEF OutcomeInv, ItemsInv, ErrorsInv
<1>5. AsIsInv'
  BY <1>1, <1>2, <1>3, ExpectedStays DEF OutcomeInv, AsIsInv
<1>6. PlacedInv'
  BY <1>1, <1>2, <1>3, ExpectedStays DEF OutcomeInv, PlacedInv
<1>7. SoFarInv'
  BY <1>1, <1>2, <1>3, ExpectedStays DEF OutcomeInv, SoFarInv
<1>8. QED
  BY <1>4, <1>5, <1>6, <1>7 DEF OutcomeInv

LEMMA ReplyOkOutcome ==
  ASSUME LongInv, OutcomeInv, NEW k \in 1 .. Len(work), ReplyOk(k)
  PROVE  OutcomeInv'
<1>1. /\ UNCHANGED <<jobVars, phase, at, buildVars, translations, errors, results>>
      /\ phase = "receive" /\ k \in outstanding
      /\ outstanding' = outstanding \ {k} /\ translated' = translated \cup {k}
  BY DEF ReplyOk
<1>2. UNCHANGED <<pieces, source, work>> /\ Targets' = Targets
  BY <1>1 DEF jobVars, buildVars, Targets
<1>3. translated' \cup outstanding' = translated \cup outstanding
  BY <1>1
<1>4. ItemsInv' /\ ErrorsInv'
  BY <1>1, <1>2, <1>3, ExpectedStays DEF OutcomeInv, ItemsInv, ErrorsInv
<1>5. AsIsInv'
  BY <1>1, <1>2, ExpectedStays DEF OutcomeInv, AsIsInv
<1>6. PlacedInv' /\ SoFarInv'
  BY <1>1 DEF PlacedInv, SoFarInv
<1>7. QED
  BY <1>4, <1>5, <1>6 DEF OutcomeInv

LEMMA ReplyErrorOutcome ==
  ASSUME LongInv, OutcomeInv, NEW k \in 1 .. Len(work), ReplyError(k)
  PROVE  OutcomeInv'
<1> DEFINE c == work[k][1]
           t == work[k][2]
           failed == Insert(errors[c], t, "translation")
<1>1. /\ UNCHANGED <<jobVars, phase, at, buildVars, translated, translations, results>>
      /\ phase = "receive" /\ k \in outstanding /\ outstanding' = outstanding \ {k}
      /\ errors' = [errors EXCEPT ![c] = failed]
  BY DEF ReplyError, PlaceOf
<1>2. UNCHANGED <<pieces, source, work>> /\ Targets' = Targets
  BY <1>1 DEF jobVars, buildVars, Targets
<1>3. c \in 1 .. Len(errors) /\ SomeSeq(errors) /\ Len(errors) = Len(source)
      /\ \A j \in 1 .. Len(work) : work[j][1] \in 1 .. Len(errors)
  BY DEF LongInv, LoopInv
<1>4. DOMAIN failed = DOMAIN errors[c] \cup {t}
  BY DEF Insert
<1> HIDE DEF failed
<1>5. \A j \in 1 .. Len(errors) :
        errors'[j] = IF j = c THEN failed ELSE errors[j]
  BY <1>1, <1>3 DEF SomeSeq
<1>6. \A j \in 1 .. Len(errors) : DOMAIN errors[j] \subseteq DOMAIN errors'[j]
  BY <1>4, <1>5
<1>7. t \in DOMAIN errors'[c]
  BY <1>3, <1>4, <1>5
<1>8. ErrorsInv'
  <2>1. \A b \in 1 .. Len(source) : \A u \in Targets :
          source[b] = NoLanguage => u \in DOMAIN errors'[b]
    BY <1>3, <1>6 DEF OutcomeInv, ErrorsInv
  <2>2. ASSUME NEW j \in 1 .. Len(work), j \notin translated \cup outstanding'
        PROVE  work[j][2] \in DOMAIN errors'[work[j][1]]
    <3>1. CASE j = k
      BY <1>7, <3>1
    <3>2. CASE j # k
      BY <1>1, <1>3, <1>6, <2>2, <3>2 DEF OutcomeInv, ErrorsInv
    <3>3. QED
      BY <3>1, <3>2
  <2>3. QED
    BY <1>1, <1>2, <2>1, <2>2 DEF ErrorsInv
<1>9. ItemsInv' /\ AsIsInv'
  BY <1>1, <1>2, ExpectedStays DEF OutcomeInv, ItemsInv, AsIsInv
<1>10. PlacedInv' /\ SoFarInv'
  BY <1>1 DEF PlacedInv, SoFarInv
<1>11. QED
  BY <1>8, <1>9, <1>10 DEF OutcomeInv

LEMMA BuildOutcome == ASSUME LongInv, OutcomeInv, Build PROVE OutcomeInv'
<1>1. /\ UNCHANGED <<jobVars, phase, replyVars, results>> /\ phase = "build"
      /\ at <= Len(pieces)
  BY DEF Build
<1>2. PICK src, same, errs :
        /\ source' = Append(source, src)
        /\ translations' = Append(translations, same)
        /\ errors' = Append(errors, errs)
        /\ DOMAIN same = IF src = NoLanguage THEN {} ELSE IF pieces[at].blank THEN Targets
                         ELSE Targets \cap {src}
        /\ DOMAIN errs = IF src # NoLanguage THEN {} ELSE Targets
        /\ work' = IF src # NoLanguage /\ ~pieces[at].blank THEN work \o ItemsOf(at, src)
                                                            ELSE work
  BY DEF Build
<1>3. /\ SomeSeq(source) /\ SomeSeq(errors) /\ SomeSeq(translations) /\ SomeSeq(work)
      /\ Len(errors) = Len(source) /\ Len(translations) = Len(source)
      /\ Len(source) = at - 1 /\ at \in Nat \ {0} /\ Len(source) \in Nat
      /\ job \in Jobs /\ translated' = {}
  BY <1>1, AppendSeq DEF replyVars, LongInv, LoopInv, PiecesInv, OutcomeInv, AsIsInv
<1>4. /\ Len(source') = at /\ source'[at] = src
      /\ \A c \in 1 .. at - 1 : source'[c] = source[c]
  BY <1>2, <1>3, AppendSeq
<1>5. errors'[at] = errs /\ \A c \in 1 .. at - 1 : errors'[c] = errors[c]
  BY <1>2, <1>3, AppendSeq
<1>6. /\ Len(translations') = at /\ translations'[at] = same
      /\ \A c \in 1 .. at - 1 : translations'[c] = translations[c]
  BY <1>2, <1>3, AppendSeq
<1>7. pieces' = pieces /\ Targets' = Targets
  BY <1>1 DEF jobVars, Targets
<1> DEFINE Needs(c, t) == ~pieces[c].blank /\ source'[c] # t
<1>8. /\ \A c \in 1 .. at - 1 : \A t \in Targets : Needs(c, t) <=> Foreign(c, t)
      /\ \A t \in Targets : Needs(at, t) <=> (~pieces[at].blank /\ src # t)
      /\ \A c \in 1 .. at : c = at \/ c \in 1 .. at - 1
  <2>1. \A c \in 1 .. at : c = at \/ c \in 1 .. at - 1
    BY <1>3
  <2>2. QED
    BY <1>4, <2>1 DEF Foreign
<1>9. /\ Len(work) \in Nat /\ Len(work') \in Nat /\ Len(work) <= Len(work')
      /\ \A k \in 1 .. Len(work) :
           /\ k \in 1 .. Len(work') /\ work'[k] = work[k]
           /\ work[k] = <<work[k][1], work[k][2]>> /\ work[k][1] \in 1 .. at - 1
      /\ \A k \in 1 .. Len(work') : k \notin 1 .. Len(work) =>
           \E t \in Targets : work'[k] = <<at, t>> /\ ~pieces[at].blank /\ t # src
      /\ src # NoLanguage /\ ~pieces[at].blank =>
           \A t \in Targets : t # src => \E k \in 1 .. Len(work') : work'[k] = <<at, t>>
  <2>1. Len(work) \in Nat /\ \A k \in 1 .. Len(work) :
          work[k] = <<work[k][1], work[k][2]>> /\ work[k][1] \in 1 .. at - 1
    BY <1>3, AppendSeq DEF LongInv, LoopInv
  <2>2. CASE ~(src # NoLanguage /\ ~pieces[at].blank)
    BY <1>2, <2>1, <2>2
  <2>3. CASE src # NoLanguage /\ ~pieces[at].blank
    <3> DEFINE items == ItemsOf(at, src)
    <3>1. /\ SomeSeq(items)
          /\ \A a \in 1 .. Len(items) : \E t \in Targets : t # src /\ items[a] = <<at, t>>
          /\ \A t \in Targets : t # src => \E a \in 1 .. Len(items) : items[a] = <<at, t>>
      BY <1>3, ItemsShape
    <3>2. work' = work \o items
      BY <1>2, <2>3
    <3> HIDE DEF items
    <3>3. /\ Len(items) \in Nat /\ Len(work') = Len(work) + Len(items)
          /\ \A k \in 1 .. Len(work) : work'[k] = work[k]
          /\ \A k \in Len(work) + 1 .. Len(work) + Len(items) :
               work'[k] = items[k - Len(work)]
      BY <1>3, <3>1, <3>2, ConcatSeq
    <3>4. ASSUME NEW k \in 1 .. Len(work'), k \notin 1 .. Len(work)
          PROVE  \E t \in Targets : work'[k] = <<at, t>> /\ t # src
      <4>1. k \in Len(work) + 1 .. Len(work) + Len(items) /\ k - Len(work) \in 1 .. Len(items)
        BY <2>1, <3>3, <3>4
      <4>2. QED
        BY <3>1, <3>3, <4>1
    <3>5. ASSUME NEW t \in Targets, t # src
          PROVE  \E k \in 1 .. Len(work') : work'[k] = <<at, t>>
      <4>1. PICK a \in 1 .. Len(items) : items[a] = <<at, t>>
        BY <3>1, <3>5
      <4>2. /\ Len(work) + a \in Len(work) + 1 .. Len(work) + Len(items)
            /\ Len(work) + a \in 1 .. Len(work') /\ Len(work) + a - Len(work) = a
        BY <2>1, <3>3
      <4>3. QED
        BY <3>3, <4>1, <4>2
    <3>6. \A k \in 1 .. Len(work) : k \in 1 .. Len(work')
      BY <2>1, <3>3
    <3>7. Len(work') \in Nat /\ Len(work) <= Len(work')
      BY <2>1, <3>3
    <3>8. QED
      BY <2>1, <2>3, <3>3, <3>4, <3>5, <3>6, <3>7
  <2>4. QED
    BY <2>2, <2>3
<1>10. ItemsInv'
  <2>1. ASSUME NEW k \in 1 .. Len(work')
        PROVE  Needs(work'[k][1], work'[k][2])
    <3>1. CASE k \in 1 .. Len(work)
      <4>1. work'[k] = work[k] /\ work[k][1] \in 1 .. at - 1
        BY <1>9, <3>1
      <4>2. Foreign(work[k][1], work[k][2])
        BY <3>1 DEF OutcomeInv, ItemsInv
      <4>3. QED
        BY <1>4, <4>1, <4>2 DEF Foreign
    <3>2. CASE k \notin 1 .. Len(work)
      <4>1. PICK t \in Targets : work'[k] = <<at, t>> /\ ~pieces[at].blank /\ t # src
        BY <1>9, <3>2
      <4>2. work'[k][1] = at /\ work'[k][2] = t
        BY <4>1
      <4>3. QED
        BY <1>8, <4>1, <4>2
    <3>3. QED
      BY <3>1, <3>2
  <2>2. ASSUME NEW c \in 1 .. at, NEW t \in Targets,
               source'[c] # NoLanguage, Needs(c, t)
        PROVE  \E k \in 1 .. Len(work') : work'[k] = <<c, t>>
    <3>1. CASE c = at
      BY <1>4, <1>8, <1>9, <2>2, <3>1
    <3>2. CASE c \in 1 .. at - 1
      <4>1. source[c] # NoLanguage /\ Foreign(c, t) /\ c \in 1 .. Len(source)
        BY <1>3, <1>4, <1>8, <2>2, <3>2
      <4>2. PICK k \in 1 .. Len(work) : work[k] = <<c, t>>
        BY <4>1 DEF OutcomeInv, ItemsInv
      <4>3. QED
        BY <1>9, <4>2
    <3>3. QED
      BY <1>8, <3>1, <3>2
  <2>3. QED
    BY <1>3, <1>4, <1>7, <2>1, <2>2 DEF ItemsInv, Foreign
<1>11. ErrorsInv'
  <2>1. ASSUME NEW c \in 1 .. at, NEW t \in Targets, source'[c] = NoLanguage
        PROVE  t \in DOMAIN errors'[c]
    <3>1. CASE c = at
      BY <1>2, <1>4, <1>5, <2>1, <3>1
    <3>2. CASE c \in 1 .. at - 1
      BY <1>3, <1>4, <1>5, <2>1, <3>2 DEF OutcomeInv, ErrorsInv
    <3>3. QED
      BY <1>8, <3>1, <3>2
  <2>2. QED
    BY <1>1, <1>4, <1>7, <2>1 DEF ErrorsInv
<1>12. AsIsInv'
  <2>1. ASSUME NEW c \in 1 .. at, NEW t \in Targets,
               source'[c] # NoLanguage, ~Needs(c, t)
        PROVE  t \in DOMAIN translations'[c]
    <3>1. CASE c = at
      BY <1>2, <1>4, <1>6, <1>8, <2>1, <3>1
    <3>2. CASE c \in 1 .. at - 1
      <4>1. source[c] # NoLanguage /\ ~Foreign(c, t) /\ c \in 1 .. Len(source)
        BY <1>3, <1>4, <1>8, <2>1, <3>2
      <4>2. QED
        BY <1>1, <1>6, <3>2, <4>1 DEF OutcomeInv, AsIsInv
    <3>3. QED
      BY <1>8, <3>1, <3>2
  <2>2. QED
    BY <1>4, <1>6, <1>7, <2>1 DEF AsIsInv, Foreign
<1>13. PlacedInv' /\ SoFarInv'
  BY <1>1 DEF PlacedInv, SoFarInv
<1>14. QED
  BY <1>10, <1>11, <1>12, <1>13 DEF OutcomeInv

LEMMA PlaceOutcome == ASSUME LongInv, OutcomeInv, Place PROVE OutcomeInv'
<1> DEFINE done(c) == {work[k][2] : k \in {j \in translated : work[j][1] = c}}
           own(c) == {source[c]} \ {NoLanguage}
           placed(c) == [l \in DOMAIN translations[c] \cup done(c) \cup own(c) |->
                           IF l \in done(c) THEN <<<<c, l>>>> ELSE <<<<c, AsIs>>>>]
<1>1. /\ UNCHANGED <<jobVars, buildVars, replyVars, errors, results>>
      /\ phase = "receive" /\ outstanding = {} /\ phase' = "merge" /\ at' = 1
      /\ translations' = [c \in 1 .. Len(pieces) |-> placed(c)]
  BY DEF Place
<1>2. UNCHANGED <<pieces, source, work>> /\ Targets' = Targets
  BY <1>1 DEF jobVars, buildVars, Targets
<1>3. /\ Len(source) = Len(pieces) /\ Len(translations) = Len(source)
      /\ translated \subseteq 1 .. Len(work) /\ results = <<>>
  BY <1>1 DEF LongInv, LoopInv, MergeInv, OutcomeInv, AsIsInv, ItemsInv
<1>4. ASSUME NEW c \in 1 .. Len(pieces), NEW t \in Targets \ DOMAIN errors[c]
      PROVE  t \in DOMAIN translations'[c] /\ translations'[c][t] = <<TargetOf(c, t)>>
  <2>1. translations'[c] = placed(c)
    BY <1>1
  <2>2. source[c] # NoLanguage
    BY <1>3 DEF OutcomeInv, ErrorsInv
  <2>3. CASE Foreign(c, t)
    <3>1. PICK k \in 1 .. Len(work) : work[k] = <<c, t>>
      BY <1>3, <2>2, <2>3 DEF OutcomeInv, ItemsInv
    <3>2. k \in translated
      BY <1>1, <3>1 DEF OutcomeInv, ErrorsInv
    <3>3. t \in done(c)
      BY <3>1, <3>2
    <3> HIDE DEF done, own
    <3>4. t \in DOMAIN placed(c) /\ placed(c)[t] = <<<<c, t>>>>
      BY <3>3
    <3>5. TargetOf(c, t) = <<c, t>>
      BY <2>3 DEF Foreign, TargetOf
    <3>6. QED
      BY <2>1, <3>4, <3>5
  <2>4. CASE ~Foreign(c, t)
    <3>1. t \in DOMAIN translations[c]
      BY <1>1, <1>3, <2>2, <2>4 DEF OutcomeInv, AsIsInv
    <3>2. t \notin done(c)
      <4>1. SUFFICES ASSUME NEW k \in translated, work[k][1] = c, work[k][2] = t
                     PROVE  FALSE
        OBVIOUS
      <4>2. Foreign(work[k][1], work[k][2])
        BY <1>3 DEF OutcomeInv, ItemsInv
      <4>3. QED
        BY <2>4, <4>1, <4>2
    <3> HIDE DEF done, own
    <3>3. t \in DOMAIN placed(c) /\ placed(c)[t] = <<<<c, AsIs>>>>
      BY <3>1, <3>2
    <3>4. TargetOf(c, t) = <<c, AsIs>>
      BY <2>4 DEF Foreign, TargetOf
    <3>5. QED
      BY <2>1, <3>3, <3>4
  <2>5. QED
    BY <2>3, <2>4
<1> HIDE DEF done, own, placed
<1>5. PlacedInv'
  BY <1>1, <1>2, <1>4, ExpectedStays DEF PlacedInv
<1>6. SoFarInv'
  <2>1. results' = <<>> /\ at' - 1 = 0
    BY <1>1, <1>3
  <2>2. \A i, t : ExpectedUpTo(i, t, 0)' = <<>>
    BY <1>2, ExpectedNone, ExpectedStays
  <2>3. QED
    BY <2>1, <2>2 DEF SoFarInv
<1>7. ItemsInv' /\ ErrorsInv'
  BY <1>1, <1>2, ExpectedStays DEF OutcomeInv, ItemsInv, ErrorsInv, replyVars
<1>8. AsIsInv'
  BY <1>1 DEF AsIsInv
<1>9. QED
  BY <1>5, <1>6, <1>7, <1>8 DEF OutcomeInv

\* How a chunk changes what is expected of a text.
LEMMA ExpectedCases ==
  ASSUME LongInv, NEW n \in 1 .. Len(pieces), NEW i, NEW t
  PROVE  /\ pieces[n].text # i => ExpectedUpTo(i, t, n) = ExpectedUpTo(i, t, n - 1)
         /\ pieces[n].text = i /\ pieces[n].first /\ ExpectedUpTo(i, t, n - 1) = <<>> =>
              ExpectedUpTo(i, t, n) = <<TargetOf(n, t)>>
         /\ pieces[n].text = i /\ ~pieces[n].first =>
              ExpectedUpTo(i, t, n)
                = JoinWith(pieces[n].join, ExpectedUpTo(i, t, n - 1), <<TargetOf(n, t)>>)
<1> DEFINE sofar == ExpectedUpTo(i, t, n - 1)
           here == <<TargetOf(n, t)>>
<1>1. SomeSeq(sofar)
  <2> DEFINE p == [c \in 1 .. n - 1 |-> Share(i, t, c)]
  <2>1. Len(pieces) \in Nat /\ n - 1 \in Nat /\ \A c \in 1 .. n - 1 : c \in 1 .. Len(pieces)
    BY AppendSeq DEF LongInv, PiecesInv
  <2>2. \A c \in 1 .. n - 1 : SomeSeq(p[c])
    BY <2>1, ShareIsSeq DEF LongInv, PiecesInv
  <2>3. sofar = FlattenSeq([c \in 1 .. n - 1 |-> p[c]])
    BY DEF ExpectedUpTo
  <2> HIDE DEF p, sofar
  <2>4. QED
    BY <2>1, <2>2, <2>3, FlattenGathers DEF Gathers
<1>2. /\ SomeSeq(here) /\ SomeSeq(pieces[n].join) /\ pieces[n].first \in BOOLEAN
      /\ SomeSeq(Share(i, t, n))
  <2>1. <<Separator>> \in Seq({Separator}) /\ here \in Seq({TargetOf(n, t)})
    OBVIOUS
  <2>2. pieces[n].join \in {<<>>, <<Separator>>} /\ pieces[n].first \in BOOLEAN
    BY DEF LongInv, PiecesInv
  <2>3. SomeSeq(<<Separator>>) /\ SomeSeq(here)
    BY <2>1 DEF SomeSeq
  <2> HIDE DEF here
  <2>4. QED
    BY <2>2, <2>3, EmptyIsSeq, ShareIsSeq
<1>3. ExpectedUpTo(i, t, n) = sofar \o Share(i, t, n)
  BY ExpectedStep
<1> HIDE DEF sofar, here
<1>4. CASE pieces[n].text # i
  <2>1. Share(i, t, n) = <<>>
    BY <1>4 DEF Share
  <2>2. QED
    BY <1>1, <1>3, <1>4, <2>1, EmptyConcat DEF sofar
<1>5. CASE pieces[n].text = i /\ pieces[n].first
  <2>1. Share(i, t, n) = here
    BY <1>2, <1>5, EmptyConcat DEF Share, here
  <2>2. sofar = <<>> => ExpectedUpTo(i, t, n) = here
    BY <1>2, <1>3, <2>1, EmptyConcat
  <2>3. QED
    BY <1>5, <2>2 DEF sofar, here
<1>6. CASE pieces[n].text = i /\ ~pieces[n].first
  <2>1. Share(i, t, n) = pieces[n].join \o here
    BY <1>6 DEF Share, here
  <2>2. ExpectedUpTo(i, t, n) = JoinWith(pieces[n].join, sofar, here)
    <3> DEFINE join == pieces[n].join
    <3>1. SomeSeq(join)
      BY <1>2
    <3>2. JoinWith(join, sofar, here) = (sofar \o join) \o here
      BY DEF JoinWith
    <3>3. ExpectedUpTo(i, t, n) = sofar \o (join \o here)
      BY <1>3, <2>1
    <3> HIDE DEF join
    <3>4. sofar \o (join \o here) = (sofar \o join) \o here
      BY <1>1, <1>2, <3>1, ConcatAssoc
    <3>5. QED
      BY <3>2, <3>3, <3>4 DEF join
  <2>3. QED
    BY <1>6, <2>2 DEF sofar, here
<1>7. QED
  BY <1>2, <1>4, <1>5, <1>6

\* What holds at every chunk that the merge looks at.
LEMMA MergeOutcome ==
  ASSUME LongInv, OutcomeInv, phase = "merge", phase' = "merge", at <= Len(pieces),
         at' = at + 1,
         UNCHANGED <<jobVars, buildVars, replyVars, translations, errors>>
  PROVE  /\ ItemsInv' /\ ErrorsInv' /\ AsIsInv' /\ PlacedInv'
         /\ UNCHANGED <<pieces, source>> /\ Targets' = Targets
         /\ at \in 1 .. Len(pieces) /\ at' - 1 = at /\ FollowsText(at)
         /\ SomeSeq(results) /\ Len(results) \in Nat /\ Len(results) = TextsUpTo(at - 1)
         /\ TextsUpTo(at) = pieces[at].text
         /\ \A i \in 1 .. Len(results) : \A t \in Targets \ DOMAIN results[i].errors :
              /\ t \in DOMAIN results[i].translations
              /\ results[i].translations[t] = ExpectedUpTo(i, t, at - 1)
         /\ \A i \in Nat : \A t \in Targets :
              i > TextsUpTo(at - 1) => ExpectedUpTo(i, t, at - 1) = <<>>
         /\ \A t \in Targets \ DOMAIN errors[at] :
              t \in DOMAIN translations[at] /\ translations[at][t] = <<TargetOf(at, t)>>
<1>1. UNCHANGED <<pieces, source, work>> /\ Targets' = Targets
  BY DEF jobVars, buildVars, Targets
<1>2. at \in Nat \ {0} /\ Len(pieces) \in Nat /\ at \in 1 .. Len(pieces) /\ at' - 1 = at
  BY AppendSeq DEF LongInv, PiecesInv
<1>3. FollowsText(at) /\ TextsUpTo(at) = pieces[at].text
  BY <1>2 DEF LongInv, PiecesInv, TextsUpTo
<1>4. SomeSeq(results) /\ Len(results) \in Nat /\ Len(results) = TextsUpTo(at - 1)
  BY AppendSeq DEF LongInv, MergeInv
<1>5. ItemsInv' /\ ErrorsInv'
  BY <1>1, ExpectedStays DEF OutcomeInv, ItemsInv, ErrorsInv, replyVars
<1>6. AsIsInv'
  BY DEF AsIsInv
<1>7. PlacedInv'
  BY <1>1, ExpectedStays DEF OutcomeInv, PlacedInv
<1>8. /\ \A i \in 1 .. Len(results) : \A t \in Targets \ DOMAIN results[i].errors :
           /\ t \in DOMAIN results[i].translations
           /\ results[i].translations[t] = ExpectedUpTo(i, t, at - 1)
      /\ \A i \in Nat : \A t \in Targets :
           i > TextsUpTo(at - 1) => ExpectedUpTo(i, t, at - 1) = <<>>
  BY DEF OutcomeInv, SoFarInv
<1>9. \A t \in Targets \ DOMAIN errors[at] :
        t \in DOMAIN translations[at] /\ translations[at][t] = <<TargetOf(at, t)>>
  BY <1>2 DEF OutcomeInv, PlacedInv
<1>10. QED
  BY <1>1, <1>2, <1>3, <1>4, <1>5, <1>6, <1>7, <1>8, <1>9

\* The results of the merge so far, seen from the next state.
LEMMA SoFarNext ==
  ASSUME LongInv, UNCHANGED <<pieces, source>>, Targets' = Targets, at' - 1 = at,
         \A i \in 1 .. Len(results') : \A t \in Targets \ DOMAIN results'[i].errors :
           /\ t \in DOMAIN results'[i].translations
           /\ results'[i].translations[t] = ExpectedUpTo(i, t, at),
         \A i \in Nat : \A t \in Targets :
           i > TextsUpTo(at) => ExpectedUpTo(i, t, at) = <<>>
  PROVE  SoFarInv'
<1>1. \A i, t : ExpectedUpTo(i, t, at - 1)' = ExpectedUpTo(i, t, at)
  BY DEF ExpectedUpTo, Share, TargetOf
<1>2. TextsUpTo(at - 1)' = TextsUpTo(at)
  BY DEF TextsUpTo
<1>3. QED
  BY <1>1, <1>2 DEF SoFarInv

LEMMA MergeFirstOutcome == ASSUME LongInv, OutcomeInv, MergeFirst PROVE OutcomeInv'
<1> DEFINE new == [detected |-> source[at], translations |-> translations[at],
                   errors |-> errors[at]]
           i == Len(results) + 1
<1>1. /\ UNCHANGED <<jobVars, buildVars, replyVars, translations, errors>>
      /\ phase = "merge" /\ phase' = "merge" /\ at <= Len(pieces) /\ at' = at + 1
      /\ pieces[at].first /\ results' = Append(results, new)
  BY DEF MergeFirst
<1>2. /\ ItemsInv' /\ ErrorsInv' /\ AsIsInv' /\ PlacedInv'
      /\ UNCHANGED <<pieces, source>> /\ Targets' = Targets
      /\ at \in 1 .. Len(pieces) /\ at' - 1 = at /\ FollowsText(at)
      /\ SomeSeq(results) /\ Len(results) \in Nat /\ Len(results) = TextsUpTo(at - 1)
      /\ TextsUpTo(at) = pieces[at].text
  BY <1>1, MergeOutcome
<1>3. i = pieces[at].text
  <2>1. CASE at = 1
    BY <1>1, <1>2, <2>1 DEF FollowsText, TextsUpTo
  <2>2. CASE at # 1
    BY <1>1, <1>2, <2>2 DEF FollowsText, TextsUpTo
  <2>3. QED
    BY <2>1, <2>2
<1> HIDE DEF new, i
<1>4. /\ Len(results') = i /\ results'[i] = new
      /\ \A j \in 1 .. Len(results) : results'[j] = results[j]
      /\ \A j \in 1 .. i : j = i \/ j \in 1 .. Len(results)
      /\ i \in Nat /\ i > Len(results)
  BY <1>1, <1>2, AppendSeq DEF i
<1>5. new.translations = translations[at] /\ new.errors = errors[at]
  BY DEF new
<1>6. ASSUME NEW t \in Targets
      PROVE  /\ ExpectedUpTo(i, t, at) = <<TargetOf(at, t)>>
             /\ \A j : j # i => ExpectedUpTo(j, t, at) = ExpectedUpTo(j, t, at - 1)
  <2>1. ExpectedUpTo(i, t, at - 1) = <<>>
    <3>1. \A j \in Nat : j > TextsUpTo(at - 1) => ExpectedUpTo(j, t, at - 1) = <<>>
      BY <1>1, MergeOutcome
    <3>2. QED
      BY <1>2, <1>4, <3>1
  <2>2. ASSUME NEW j
        PROVE  /\ pieces[at].text # j =>
                    ExpectedUpTo(j, t, at) = ExpectedUpTo(j, t, at - 1)
               /\ pieces[at].text = j /\ pieces[at].first
                    /\ ExpectedUpTo(j, t, at - 1) = <<>> =>
                  ExpectedUpTo(j, t, at) = <<TargetOf(at, t)>>
    <3>1. at \in 1 .. Len(pieces)
      BY <1>2
    <3>2. QED
      BY <3>1, ExpectedCases, Zenon
  <2>3. pieces[at].text = i /\ pieces[at].first
    BY <1>1, <1>2, <1>3
  <2>4. QED
    BY <2>1, <2>2, <2>3
<1>7. ASSUME NEW j \in 1 .. i, NEW t \in Targets \ DOMAIN results'[j].errors
      PROVE  /\ t \in DOMAIN results'[j].translations
             /\ results'[j].translations[t] = ExpectedUpTo(j, t, at)
  <2>1. CASE j = i
    <3>1. t \notin DOMAIN errors[at]
      BY <1>4, <1>5, <1>7, <2>1
    <3>2. t \in DOMAIN translations[at] /\ translations[at][t] = <<TargetOf(at, t)>>
      BY <1>1, <3>1, MergeOutcome
    <3>3. QED
      BY <1>4, <1>5, <1>6, <2>1, <3>2
  <2>2. CASE j # i
    <3>1. j \in 1 .. Len(results) /\ results'[j] = results[j]
      BY <1>4, <2>2
    <3>2. t \in DOMAIN results[j].translations
          /\ results[j].translations[t] = ExpectedUpTo(j, t, at - 1)
      BY <1>1, <1>7, <3>1, MergeOutcome
    <3>3. QED
      BY <1>6, <2>2, <3>1, <3>2
  <2>3. QED
    BY <2>1, <2>2
<1>8. ASSUME NEW j \in Nat, NEW t \in Targets, j > TextsUpTo(at)
      PROVE  ExpectedUpTo(j, t, at) = <<>>
  <2>1. j # i /\ j > TextsUpTo(at - 1)
    BY <1>2, <1>3, <1>4, <1>8
  <2>2. ExpectedUpTo(j, t, at - 1) = <<>>
    BY <1>1, <2>1, MergeOutcome
  <2>3. QED
    BY <1>6, <2>1, <2>2
<1>9. SoFarInv'
  BY <1>2, <1>4, <1>7, <1>8, SoFarNext
<1>10. QED
  BY <1>2, <1>9 DEF OutcomeInv

LEMMA MergeNextOutcome == ASSUME LongInv, OutcomeInv, MergeNext PROVE OutcomeInv'
<1> DEFINE i == Len(results)
           old == results[i].translations
           new == translations[at]
           texts == [l \in DOMAIN old \cup DOMAIN new |->
                       IF l \notin DOMAIN new THEN old[l]
                       ELSE IF l \notin DOMAIN old THEN new[l]
                       ELSE JoinWith(pieces[at].join, old[l], new[l])]
           errs == KeepFirst(results[i].errors, errors[at])
           merged == [[results[i] EXCEPT !.translations = texts] EXCEPT !.errors = errs]
<1>1. /\ UNCHANGED <<jobVars, buildVars, replyVars, translations, errors>>
      /\ phase = "merge" /\ phase' = "merge" /\ at <= Len(pieces) /\ at' = at + 1
      /\ ~pieces[at].first
  BY DEF MergeNext
<1>2. /\ ItemsInv' /\ ErrorsInv' /\ AsIsInv' /\ PlacedInv'
      /\ UNCHANGED <<pieces, source>> /\ Targets' = Targets
      /\ at \in 1 .. Len(pieces) /\ at' - 1 = at /\ FollowsText(at)
      /\ SomeSeq(results) /\ Len(results) \in Nat /\ Len(results) = TextsUpTo(at - 1)
      /\ TextsUpTo(at) = pieces[at].text
  BY <1>1, MergeOutcome
<1>3. i = pieces[at].text /\ i \in 1 .. Len(results)
  <2>1. at > 1 /\ at - 1 # 0
    BY <1>1, <1>2 DEF FollowsText
  <2>2. i = pieces[at].text
    BY <1>1, <1>2, <2>1 DEF FollowsText, TextsUpTo
  <2>3. pieces[at].text \in Nat \ {0}
    BY <1>2 DEF LongInv, PiecesInv
  <2>4. QED
    BY <1>2, <2>2, <2>3
<1>4. results' = [results EXCEPT ![i] = merged]
  <2>1. results' = [results EXCEPT ![i].translations = texts, ![i].errors = errs]
    BY DEF MergeNext
  <2>2. QED
    BY <2>1
<1>5. DOMAIN errs = DOMAIN results[i].errors \cup DOMAIN errors[at]
  BY DEF KeepFirst
<1>6. ASSUME NEW t \in DOMAIN old, t \in DOMAIN new
      PROVE  t \in DOMAIN texts /\ texts[t] = JoinWith(pieces[at].join, old[t], new[t])
  <2> HIDE DEF old, new
  <2>1. QED
    BY <1>6
<1>7. HasFields(results[i])
  BY <1>1, <1>3 DEF LongInv, MergeInv
<1> HIDE DEF texts, errs
<1>8. merged.translations = texts /\ merged.errors = errs
  BY <1>7 DEF HasFields
<1> HIDE DEF merged
<1>9. /\ Len(results') = Len(results)
      /\ \A j \in 1 .. Len(results) : results'[j] = IF j = i THEN merged ELSE results[j]
  BY <1>2, <1>3, <1>4 DEF SomeSeq
<1> HIDE DEF i
<1>10. ASSUME NEW t \in Targets
       PROVE  /\ ExpectedUpTo(i, t, at)
                   = JoinWith(pieces[at].join, ExpectedUpTo(i, t, at - 1), <<TargetOf(at, t)>>)
              /\ \A j : j # i => ExpectedUpTo(j, t, at) = ExpectedUpTo(j, t, at - 1)
  BY <1>1, <1>2, <1>3, ExpectedCases
<1>11. ASSUME NEW j \in 1 .. Len(results), NEW t \in Targets \ DOMAIN results'[j].errors
       PROVE  /\ t \in DOMAIN results'[j].translations
              /\ results'[j].translations[t] = ExpectedUpTo(j, t, at)
  <2>1. CASE j = i
    <3>1. t \notin DOMAIN errors[at] /\ t \notin DOMAIN results[i].errors
      BY <1>5, <1>8, <1>9, <1>11, <2>1
    <3>2. t \in DOMAIN new /\ new[t] = <<TargetOf(at, t)>>
      BY <1>1, <3>1, MergeOutcome
    <3>3. t \in DOMAIN old /\ old[t] = ExpectedUpTo(i, t, at - 1)
      BY <1>1, <1>3, <3>1, MergeOutcome
    <3> HIDE DEF old, new
    <3>4. t \in DOMAIN texts /\ texts[t] = ExpectedUpTo(i, t, at)
      BY <1>6, <1>10, <3>2, <3>3
    <3>5. QED
      BY <1>8, <1>9, <2>1, <3>4
  <2>2. CASE j # i
    <3>1. t \in DOMAIN results[j].translations
          /\ results[j].translations[t] = ExpectedUpTo(j, t, at - 1)
      BY <1>1, <1>9, <1>11, <2>2, MergeOutcome
    <3>2. QED
      BY <1>9, <1>10, <2>2, <3>1
  <2>3. QED
    BY <2>1, <2>2
<1>12. ASSUME NEW j \in Nat, NEW t \in Targets, j > TextsUpTo(at)
       PROVE  ExpectedUpTo(j, t, at) = <<>>
  <2>1. j # i /\ j > TextsUpTo(at - 1)
    BY <1>2, <1>3, <1>12 DEF i
  <2>2. ExpectedUpTo(j, t, at - 1) = <<>>
    BY <1>1, <2>1, MergeOutcome
  <2>3. QED
    BY <1>10, <2>1, <2>2
<1>13. SoFarInv'
  BY <1>2, <1>9, <1>11, <1>12, SoFarNext
<1>14. QED
  BY <1>2, <1>13 DEF OutcomeInv

LEMMA MergedOutcome == ASSUME LongInv, OutcomeInv, Merged PROVE OutcomeInv'
<1>1. /\ UNCHANGED <<jobVars, at, buildVars, replyVars, translations, errors, results>>
      /\ phase = "merge" /\ phase' = "done"
  BY DEF Merged
<1>2. UNCHANGED <<pieces, source, work>> /\ Targets' = Targets
  BY <1>1 DEF jobVars, buildVars, Targets
<1>3. ItemsInv' /\ ErrorsInv'
  BY <1>1, <1>2, ExpectedStays DEF OutcomeInv, ItemsInv, ErrorsInv, replyVars
<1>4. AsIsInv'
  BY <1>1 DEF AsIsInv
<1>5. PlacedInv'
  BY <1>1, <1>2, ExpectedStays DEF OutcomeInv, PlacedInv
<1>6. SoFarInv'
  BY <1>1, <1>2, ExpectedStays DEF OutcomeInv, SoFarInv
<1>7. QED
  BY <1>3, <1>4, <1>5, <1>6 DEF OutcomeInv

LEMMA NextOutcome ==
  LongInv /\ OutcomeInv /\ [LongNext]_<<vars, cutVars>> => OutcomeInv'
<1> SUFFICES ASSUME LongInv, OutcomeInv, [LongNext]_<<vars, cutVars>> PROVE OutcomeInv'
  OBVIOUS
<1>1. CASE UNCHANGED <<vars, cutVars>> \/ CutText
  BY <1>1, OutcomeStutter DEF CutText
<1>2. CASE Collect
  BY <1>2, ChunkOutcome
<1>3. CASE Rest
  BY <1>3, ChunkOutcome, BuildOutcome, DispatchOutcome, PlaceOutcome, MergeFirstOutcome,
     MergeNextOutcome, MergedOutcome, OutcomeStutter, ReplyOkOutcome, ReplyErrorOutcome
     DEF Rest, AfterChunking, Terminated
<1>4. QED
  BY <1>1, <1>2, <1>3 DEF LongNext

LEMMA AlwaysOutcome == LongSpec => []OutcomeInv
  BY AlwaysLong, InitOutcome, NextOutcome, PTL DEF LongSpec

LEMMA MergedComplete == LongInv /\ OutcomeInv => CompleteUnlessError
<1> SUFFICES ASSUME LongInv, OutcomeInv, phase = "done" PROVE CompleteUnlessError
  BY DEF CompleteUnlessError
<1>1. at - 1 = Len(pieces)
  BY AppendSeq DEF LongInv, LoopInv, PiecesInv
<1>2. QED
  BY <1>1 DEF OutcomeInv, SoFarInv, CompleteUnlessError, Complete

\* A translation without an error is complete: it has every chunk of its text,
\* translated or rightly left as it is, in order and with the separators, for
\* every batch, every way of cutting it, every reply that fails and every order
\* of the replies (the merge: engine.rs:269-305).
THEOREM CompleteOrError == LongSpec => []CompleteUnlessError
  BY AlwaysLong, AlwaysOutcome, MergedComplete, PTL

-----------------------------------------------------------------------------
(* The cutting of a text *)

\* The tokens of the text.
Sentences == {t \in Nat \X Nat : t[1] \in 1 .. Len(text) /\ t[2] \in 1 .. Len(text[t[1]])}
AllTokens == {Cut!Break} \cup Sentences

Prefix(p, n) == [k \in 1 .. n |-> <<p, k>>]

LEMMA TextShape ==
  ASSUME text \in Texts
  PROVE  /\ Len(text) \in Nat \ {0}
         /\ \A p \in 1 .. Len(text) :
              /\ Len(text[p]) \in Nat
              /\ \A k \in 1 .. Len(text[p]) :
                   text[p][k].len \in Nat /\ text[p][k].words \in BOOLEAN
<1> DEFINE Sentence == [len : Nat, words : BOOLEAN]
<1>1. text \in Seq(Seq(Sentence)) /\ text # <<>>
  BY TextsAreParagraphs
<1>2. \A x \in Sentence : x.len \in Nat /\ x.words \in BOOLEAN
  OBVIOUS
<1> HIDE DEF Sentence
<1>3. \A p \in 1 .. Len(text) : text[p] \in Seq(Sentence)
  BY <1>1
<1>4. QED
  BY <1>1, <1>2, <1>3

LEMMA BytesAreNatural ==
  ASSUME text \in Texts, NEW t \in AllTokens
  PROVE  Cut!Bytes(text, t) \in Nat
<1>1. CASE t = Cut!Break
  BY <1>1 DEF Cut!Bytes
<1>2. CASE t # Cut!Break
  <2>1. t[1] \in 1 .. Len(text) /\ t[2] \in 1 .. Len(text[t[1]])
    BY <1>2 DEF AllTokens, Sentences
  <2>2. QED
    BY <1>2, <2>1, TextShape DEF Cut!Bytes
<1>3. QED
  BY <1>1, <1>2

\* f adds up the first n values of b, as the function in Size does.
Adds(f, b, n) == f = [k \in 0 .. n |-> IF k = 0 THEN 0 ELSE f[k - 1] + b[k]]

LEMMA AddsAt ==
  ASSUME NEW n \in Nat, NEW b, NEW f, Adds(f, b, n), NEW k \in 0 .. n
  PROVE  f[k] = IF k = 0 THEN 0 ELSE f[k - 1] + b[k]
<1> DEFINE body == [j \in 0 .. n |-> IF j = 0 THEN 0 ELSE f[j - 1] + b[j]]
<1>1. body[k] = IF k = 0 THEN 0 ELSE f[k - 1] + b[k]
  OBVIOUS
<1>2. f = body
  BY DEF Adds
<1> HIDE DEF body
<1>3. QED
  BY <1>1, <1>2

LEMMA AddsExists == ASSUME NEW n \in Nat, NEW b PROVE \E f : Adds(f, b, n)
<1> DEFINE T == {m \in Nat : ~ \E f : Adds(f, b, m)}
<1>1. SUFFICES ASSUME T # {} PROVE FALSE
  OBVIOUS
<1>2. PICK m \in T : \A y \in T : m <= y
  BY <1>1, HasLeast
<1>3. m # 0
  <2> DEFINE g == [k \in 0 .. 0 |-> 0]
  <2>1. g = [k \in 0 .. 0 |-> IF k = 0 THEN 0 ELSE g[k - 1] + b[k]]
    OBVIOUS
  <2> HIDE DEF g
  <2>2. Adds(g, b, 0)
    BY <2>1 DEF Adds
  <2>3. QED
    BY <2>2
<1>4. m - 1 \in Nat /\ m - 1 \notin T
  BY <1>2, <1>3
<1>5. PICK f : Adds(f, b, m - 1)
  BY <1>4
<1> DEFINE g == [k \in 0 .. m |-> IF k = 0 THEN 0 ELSE f[k - 1] + b[k]]
<1>6. ASSUME NEW k \in 0 .. m - 1 PROVE g[k] = f[k]
  <2>1. f[k] = IF k = 0 THEN 0 ELSE f[k - 1] + b[k]
    BY <1>4, <1>5, AddsAt
  <2>2. k \in 0 .. m
    BY <1>3
  <2>3. QED
    BY <2>1, <2>2
<1>7. ASSUME NEW k \in 0 .. m, k # 0 PROVE g[k - 1] = f[k - 1]
  <2>1. k - 1 \in 0 .. m - 1
    BY <1>2, <1>7
  <2> HIDE DEF g
  <2>2. QED
    BY <1>6, <2>1
<1>8. \A k \in 0 .. m : (IF k = 0 THEN 0 ELSE f[k - 1] + b[k])
                       = (IF k = 0 THEN 0 ELSE g[k - 1] + b[k])
  BY <1>7
<1>9. Adds(g, b, m)
  <2>1. g = [k \in 0 .. m |-> IF k = 0 THEN 0 ELSE g[k - 1] + b[k]]
    BY <1>8, Zenon
  <2> HIDE DEF g
  <2>2. QED
    BY <2>1 DEF Adds
<1>10. QED
  BY <1>2, <1>9

\* f adds up the bytes of s.
Measures(f, s) ==
  /\ Cut!Size(s) = f[Len(s)] /\ f[0] = 0
  /\ \A k \in 1 .. Len(s) : f[k] = f[k - 1] + Cut!Bytes(text, s[k])
  /\ \A k \in 0 .. Len(s) : f[k] \in Nat

LEMMA SizeMeasured ==
  ASSUME text \in Texts, NEW s \in Seq(AllTokens)
  PROVE  \E f : Measures(f, s)
<1> DEFINE n == Len(s)
           b == [k \in 1 .. n |-> Cut!Bytes(text, s[k])]
           f == CHOOSE f : f = [k \in 0 .. n |-> IF k = 0 THEN 0
                                                 ELSE f[k - 1] + Cut!Bytes(text, s[k])]
<1>1. n \in Nat /\ \A k \in 1 .. n : b[k] = Cut!Bytes(text, s[k]) /\ b[k] \in Nat
  BY BytesAreNatural
<1>2. Cut!Size(s) = f[n]
  BY DEF Cut!Size, Cut!SizeIn
<1>3. ASSUME NEW g
      PROVE  g = [k \in 0 .. n |-> IF k = 0 THEN 0 ELSE g[k - 1] + Cut!Bytes(text, s[k])]
               <=> Adds(g, b, n)
  <2>1. [k \in 0 .. n |-> IF k = 0 THEN 0 ELSE g[k - 1] + Cut!Bytes(text, s[k])]
          = [k \in 0 .. n |-> IF k = 0 THEN 0 ELSE g[k - 1] + b[k]]
    BY <1>1
  <2>2. QED
    BY <2>1 DEF Adds
<1>4. Adds(f, b, n)
  <2> HIDE DEF b
  <2>1. \E g : Adds(g, b, n)
    BY <1>1, AddsExists
  <2>2. QED
    BY <1>3, <2>1
<1> HIDE DEF f, b
<1>5. f[0] = 0 /\ \A k \in 1 .. n : f[k] = f[k - 1] + b[k]
  BY <1>1, <1>4, AddsAt
<1>6. \A k \in 0 .. n : f[k] \in Nat
  <2> DEFINE T == {k \in 0 .. n : f[k] \notin Nat}
  <2>1. SUFFICES ASSUME T # {} PROVE FALSE
    OBVIOUS
  <2>2. PICK k \in T : \A y \in T : k <= y
    <3>1. T \subseteq Nat
      BY <1>1
    <3>2. QED
      BY <2>1, <3>1, HasLeast
  <2>3. k \in 1 .. n /\ k - 1 \in 0 .. n /\ k - 1 \notin T
    BY <1>1, <1>5, <2>2
  <2>4. QED
    BY <1>1, <1>5, <2>2, <2>3
<1>7. QED
  BY <1>1, <1>2, <1>5, <1>6 DEF Measures

\* The size of two sequences together is the sum of their sizes.
LEMMA SizeOfConcat ==
  ASSUME text \in Texts, NEW s \in Seq(AllTokens), NEW u \in Seq(AllTokens)
  PROVE  /\ s \o u \in Seq(AllTokens)
         /\ Cut!Size(s) \in Nat /\ Cut!Size(u) \in Nat
         /\ Cut!Size(s \o u) = Cut!Size(s) + Cut!Size(u)
<1> DEFINE all == s \o u
           m == Len(s)
           n == Len(u)
<1>1. /\ m \in Nat /\ n \in Nat /\ all \in Seq(AllTokens) /\ Len(all) = m + n
      /\ \A k \in 1 .. m : all[k] = s[k]
      /\ \A k \in 1 .. n : all[m + k] = u[k]
  OBVIOUS
<1> HIDE DEF all
<1>2. PICK f : Measures(f, s)
  BY SizeMeasured
<1>3. PICK g : Measures(g, u)
  BY SizeMeasured
<1>4. PICK h : Measures(h, all)
  BY <1>1, SizeMeasured
<1>5. /\ \A k \in 1 .. m : f[k] = f[k - 1] + Cut!Bytes(text, s[k])
      /\ \A k \in 1 .. n : g[k] = g[k - 1] + Cut!Bytes(text, u[k])
      /\ \A k \in 1 .. m + n : h[k] = h[k - 1] + Cut!Bytes(text, all[k])
      /\ f[0] = 0 /\ g[0] = 0 /\ h[0] = 0
      /\ \A k \in 0 .. m : f[k] \in Nat
      /\ \A k \in 0 .. n : g[k] \in Nat
      /\ \A k \in 0 .. m + n : h[k] \in Nat
      /\ Cut!Size(s) = f[m] /\ Cut!Size(u) = g[n] /\ Cut!Size(all) = h[m + n]
  BY <1>1, <1>2, <1>3, <1>4 DEF Measures
<1> HIDE DEF m, n
<1>6. \A k \in 0 .. m : h[k] = f[k]
  <2> DEFINE T == {k \in 0 .. m : h[k] # f[k]}
  <2>1. SUFFICES ASSUME T # {} PROVE FALSE
    OBVIOUS
  <2>2. PICK k \in T : \A y \in T : k <= y
    <3>1. T \subseteq Nat
      BY <1>1
    <3>2. QED
      BY <2>1, <3>1, HasLeast
  <2>3. k \in 1 .. m /\ k \in 1 .. m + n /\ k - 1 \in 0 .. m /\ k - 1 \notin T
    BY <1>1, <1>5, <2>2
  <2>4. QED
    BY <1>1, <1>5, <2>2, <2>3
<1>7. \A k \in 0 .. n : h[m + k] = f[m] + g[k]
  <2> DEFINE T == {k \in 0 .. n : h[m + k] # f[m] + g[k]}
  <2>1. SUFFICES ASSUME T # {} PROVE FALSE
    OBVIOUS
  <2>2. PICK k \in T : \A y \in T : k <= y
    <3>1. T \subseteq Nat
      BY <1>1
    <3>2. QED
      BY <2>1, <3>1, HasLeast
  <2>3. k # 0
    <3>1. h[m + 0] = f[m] + g[0]
      BY <1>1, <1>5, <1>6
    <3>2. QED
      BY <2>2, <3>1
  <2>4. k \in 1 .. n /\ m + k \in 1 .. m + n /\ k - 1 \in 0 .. n /\ k - 1 \notin T
        /\ m + k - 1 = m + (k - 1)
    BY <1>1, <2>2, <2>3
  <2>5. h[m + (k - 1)] = f[m] + g[k - 1]
    BY <2>4
  <2>6. /\ h[m + k] = h[m + (k - 1)] + Cut!Bytes(text, u[k])
        /\ g[k] = g[k - 1] + Cut!Bytes(text, u[k])
    <3>1. all[m + k] = u[k]
      BY <1>1, <2>4
    <3> DEFINE j == m + k
    <3>2. j \in 1 .. m + n
      BY <2>4
    <3> HIDE DEF j
    <3>3. h[j] = h[j - 1] + Cut!Bytes(text, all[j])
      BY <1>5, <3>2
    <3>4. j - 1 = m + (k - 1) /\ j = m + k
      BY <1>1, <2>4 DEF j
    <3>5. h[m + k] = h[m + (k - 1)] + Cut!Bytes(text, u[k])
      BY <3>1, <3>3, <3>4
    <3>6. g[k] = g[k - 1] + Cut!Bytes(text, u[k])
      BY <1>5, <2>4
    <3>7. QED
      BY <3>5, <3>6
  <2>7. f[m] \in Nat /\ g[k - 1] \in Nat /\ g[k] \in Nat /\ h[m + k] \in Nat
        /\ Cut!Bytes(text, u[k]) \in Nat
    <3>1. m \in 0 .. m /\ m + k \in 0 .. m + n /\ k \in 0 .. n
      BY <1>1, <2>4
    <3>2. u[k] \in AllTokens
      BY <2>4 DEF n
    <3>3. QED
      BY <1>5, <2>4, <3>1, <3>2, BytesAreNatural
  <2>8. h[m + k] = f[m] + g[k]
    BY <2>5, <2>6, <2>7
  <2>9. QED
    BY <2>2, <2>8
<1>8. m \in 0 .. m /\ n \in 0 .. n
  BY <1>1
<1>9. QED
  BY <1>1, <1>5, <1>7, <1>8 DEF all

LEMMA SizeOfOne ==
  ASSUME text \in Texts, NEW t \in AllTokens
  PROVE  /\ <<t>> \in Seq(AllTokens) /\ Cut!Size(<<t>>) = Cut!Bytes(text, t)
         /\ Cut!Size(<<>>) = 0 /\ <<>> \in Seq(AllTokens)
<1>1. <<t>> \in Seq(AllTokens) /\ Len(<<t>>) = 1 /\ <<t>>[1] = t
      /\ <<>> \in Seq(AllTokens) /\ Len(<<>>) = 0
  OBVIOUS
<1>2. PICK f : Measures(f, <<t>>)
  BY <1>1, SizeMeasured
<1>3. PICK g : Measures(g, <<>>)
  BY <1>1, SizeMeasured
<1>4. Cut!Bytes(text, t) \in Nat
  BY BytesAreNatural
<1>5. QED
  BY <1>1, <1>2, <1>3, <1>4 DEF Measures

-----------------------------------------------------------------------------

\* The types of what a text is cut with; without a text nothing is cut.
CutTyping ==
  IF job.texts = <<>> THEN step = "start" /\ chunks = <<>>
  ELSE /\ step \in {"start", "paragraphs", "sentences", "done"}
       /\ text \in Texts
       /\ para \in 1 .. Len(text) + 1 /\ sentence \in Nat /\ before \in Nat
       /\ chunks \in Seq([text : Seq(AllTokens), join : {<<>>, <<Cut!Break>>}])
       /\ current \in Seq(AllTokens) /\ currentSep \in {<<>>, <<Cut!Break>>}
       /\ step = "start" => chunks = <<>> /\ current = <<>> /\ para = 1
       /\ step = "sentences" => para <= Len(text) /\ sentence \in 1 .. Len(text[para]) + 1

\* A chunk within one of the limits, or of a single sentence.
Small(tokens) ==
  \/ Cut!Size(tokens) <= MaxChars \/ Cut!Size(tokens) <= ParagraphTarget
  \/ Len(tokens) = 1

\* The text has no words up to where the cutting is.
NoWordsYet ==
  /\ \A p \in 1 .. para - 1 : \A k \in 1 .. Len(text[p]) : ~text[p][k].words
  /\ step = "sentences" => \A k \in 1 .. sentence - 1 : ~text[para][k].words

Wordless == \A t \in Cut!ToSet(Cut!Whole) : ~Cut!HasWords(t)

\* Every chunk is small unless the text has no words, and so is what is to be the
\* next chunk; as long as there is neither, there were no words.
SizesInv ==
  job.texts # <<>> =>
    /\ \A c \in 1 .. Len(chunks) : Small(chunks[c].text) \/ Wordless
    /\ Small(current)
    /\ step # "done" /\ chunks = <<>> /\ current = <<>> => NoWordsYet

\* No paragraph is empty and every sentence has words.
AllWords ==
  \A p \in 1 .. Len(text) : text[p] # <<>> /\ \A k \in 1 .. Len(text[p]) : text[p][k].words

\* The chunks cs followed by what is to be the next one, with its separator.
Glue(cs, sep, cur) == Cut!Joined(cs) \o (IF cur = <<>> THEN <<>> ELSE sep \o cur)

\* Before paragraph p the chunks hold the paragraphs before it.
AtParagraph(cs, sep, cur, p) ==
  /\ Glue(cs, sep, cur) = Cut!Original(p - 1)
  /\ IF p = 1 THEN cs = <<>> /\ cur = <<>> ELSE cur # <<>>

\* Before sentence n of paragraph p they hold its sentences so far as well; there
\* were b chunks when the paragraph began.
Boundary(b) == IF b = 0 THEN <<>> ELSE <<Cut!Break>>

InParagraph(cs, b, cur, p, n) ==
  /\ Glue(cs, IF Len(cs) = b THEN Boundary(b) ELSE <<>>, cur)
       = Cut!Original(p - 1) \o (IF n = 1 THEN <<>> ELSE Boundary(b) \o Prefix(p, n - 1))
  /\ IF n = 1 THEN Len(cs) = b /\ cur = <<>> ELSE Len(cs) >= b /\ cur # <<>>
  /\ b = 0 <=> p = 1

JoinInv ==
  job.texts # <<>> /\ AllWords =>
    /\ step = "paragraphs" => AtParagraph(chunks, currentSep, current, para)
    /\ step = "sentences" => InParagraph(chunks, before, current, para, sentence)
    /\ step = "done" => Cut!Joined(chunks) = Cut!Whole

-----------------------------------------------------------------------------

LEMMA BatchHasTexts ==
  ASSUME LongInv, at <= Len(job.texts)
  PROVE  job.texts # <<>> /\ \A k \in 1 .. Len(job.texts) : job.texts[k] \in Texts
<1>1. job.texts \in Seq(Texts) /\ at \in Nat \ {0}
  BY JobsAreBatches DEF LongInv, PiecesInv
<1>2. QED
  BY <1>1

LEMMA ParagraphTokens ==
  ASSUME text \in Texts, NEW p \in 1 .. Len(text)
  PROVE  /\ Cut!Paragraph(p) \in Seq(AllTokens) /\ Len(Cut!Paragraph(p)) = Len(text[p])
         /\ Cut!Paragraph(p) = Prefix(p, Len(text[p]))
         /\ \A k \in 1 .. Len(text[p]) :
              /\ Cut!Paragraph(p)[k] = <<p, k>> /\ <<p, k>> \in AllTokens
              /\ <<p, k>> # Cut!Break /\ Cut!Bytes(text, <<p, k>>) = text[p][k].len
              /\ Cut!HasWords(<<p, k>>) <=> text[p][k].words
         /\ ~ Cut!HasWords(Cut!Break) /\ Cut!Bytes(text, Cut!Break) = 2
         /\ Cut!Break \in AllTokens
<1>1. Len(text[p]) \in Nat /\ Len(text) \in Nat
  BY TextShape
<1>2. ASSUME NEW k \in 1 .. Len(text[p])
      PROVE  /\ <<p, k>> \in AllTokens /\ <<p, k>> # Cut!Break
             /\ Cut!Bytes(text, <<p, k>>) = text[p][k].len
             /\ Cut!HasWords(<<p, k>>) <=> text[p][k].words
  <2>1. <<p, k>> \in Nat \X Nat /\ <<p, k>>[1] = p /\ <<p, k>>[2] = k
    BY <1>1
  <2>2. <<p, k>> # <<0, 0>>
    BY <1>1
  <2>3. text[p][k].words \in BOOLEAN
    BY TextShape
  <2>4. QED
    BY <2>1, <2>2, <2>3
       DEF AllTokens, Sentences, Cut!Break, Cut!Bytes, Cut!HasWords
<1>3. Cut!Paragraph(p) = [k \in 1 .. Len(text[p]) |-> <<p, k>>]
  BY DEF Cut!Paragraph, Cut!ParagraphOf
<1>4. Cut!Paragraph(p) \in Seq(AllTokens) /\ Len(Cut!Paragraph(p)) = Len(text[p])
  BY <1>1, <1>2, <1>3
<1>5. ~ Cut!HasWords(Cut!Break) /\ Cut!Bytes(text, Cut!Break) = 2 /\ Cut!Break \in AllTokens
  BY DEF Cut!HasWords, Cut!Bytes, AllTokens
<1>6. QED
  BY <1>2, <1>3, <1>4, <1>5 DEF Prefix

LEMMA SameFlatten == \A q : Cut!FlattenSeq(q) = FlattenSeq(q)
  BY DEF Cut!FlattenSeq, FlattenSeq

\* The tokens of the text rest on the text alone.
LEMMA OriginalStays ==
  ASSUME UNCHANGED text
  PROVE  (\A n : Cut!Original(n)' = Cut!Original(n)) /\ Cut!Whole' = Cut!Whole
<1>1. ASSUME NEW n PROVE Cut!Original(n)' = Cut!Original(n)
  BY SMTT(30) DEF Cut!Original, Cut!Paragraph, Cut!ParagraphOf, Cut!Break, Cut!FlattenSeq
<1>2. Cut!Whole' = Cut!Whole
  BY SMTT(30)
     DEF Cut!Whole, Cut!Original, Cut!Paragraph, Cut!ParagraphOf, Cut!Break, Cut!FlattenSeq
<1>3. QED
  BY <1>1, <1>2

\* What paragraph p adds to the text.
Added(p) == IF p = 1 THEN Cut!Paragraph(p) ELSE <<Cut!Break>> \o Cut!Paragraph(p)

LEMMA AddedTokens ==
  ASSUME text \in Texts, NEW p \in 1 .. Len(text)
  PROVE  /\ Added(p) \in Seq(AllTokens)
         /\ \A a \in 1 .. Len(Added(p)) :
              \/ Added(p)[a] = Cut!Break
              \/ \E k \in 1 .. Len(text[p]) : Added(p)[a] = <<p, k>>
<1>1. /\ Cut!Paragraph(p) \in Seq(AllTokens) /\ Len(Cut!Paragraph(p)) = Len(text[p])
      /\ \A k \in 1 .. Len(text[p]) : Cut!Paragraph(p)[k] = <<p, k>>
      /\ <<Cut!Break>> \in Seq(AllTokens)
  <2>1. Cut!Break \in AllTokens
    BY DEF AllTokens
  <2>2. <<Cut!Break>> \in Seq(AllTokens)
    BY <2>1
  <2>3. QED
    BY <2>2, ParagraphTokens
<1>2. CASE p = 1
  BY <1>1, <1>2 DEF Added
<1>3. CASE p # 1
  <2> DEFINE q == Cut!Paragraph(p)
             b == <<Cut!Break>>
  <2>1. Len(b) = 1 /\ b[1] = Cut!Break
    OBVIOUS
  <2>2. Added(p) = b \o q
    BY <1>3 DEF Added
  <2> HIDE DEF b, q
  <2>3. q \in Seq(AllTokens) /\ b \in Seq(AllTokens)
    BY <1>1 DEF b, q
  <2>4. /\ b \o q \in Seq(AllTokens) /\ Len(b \o q) = 1 + Len(q) /\ Len(q) \in Nat
        /\ (b \o q)[1] = Cut!Break
        /\ \A a \in 1 .. Len(b \o q) : a # 1 => (b \o q)[a] = q[a - 1]
    <3>1. SomeSeq(b) /\ SomeSeq(q)
      BY <2>3 DEF SomeSeq
    <3>2. /\ Len(q) \in Nat /\ Len(b \o q) = 1 + Len(q)
          /\ \A a \in 1 .. 1 : (b \o q)[a] = b[a]
          /\ \A a \in 2 .. 1 + Len(q) : (b \o q)[a] = q[a - 1]
      <4>1. /\ Len(q) \in Nat /\ Len(b \o q) = Len(b) + Len(q)
            /\ \A a \in 1 .. Len(b) : (b \o q)[a] = b[a]
            /\ \A a \in Len(b) + 1 .. Len(b) + Len(q) : (b \o q)[a] = q[a - Len(b)]
        BY <3>1, ConcatSeq
      <4>2. QED
        BY <2>1, <4>1
    <3>3. \A a \in 1 .. Len(b \o q) : a # 1 => a \in 2 .. 1 + Len(q)
      BY <3>2
    <3>4. b \o q \in Seq(AllTokens)
      BY <2>3
    <3>5. QED
      BY <2>1, <3>2, <3>3, <3>4
  <2>5. ASSUME NEW a \in 1 .. Len(b \o q), a # 1
        PROVE  \E k \in 1 .. Len(text[p]) : (b \o q)[a] = <<p, k>>
    <3>1. a - 1 \in 1 .. Len(q)
      BY <2>4, <2>5
    <3>2. QED
      BY <1>1, <2>4, <2>5, <3>1 DEF q
  <2>6. QED
    BY <2>2, <2>4, <2>5
<1>4. QED
  BY <1>2, <1>3

LEMMA OriginalStep ==
  ASSUME text \in Texts
  PROVE  /\ Cut!Original(0) = <<>>
         /\ \A n \in 1 .. Len(text) : Cut!Original(n) = Cut!Original(n - 1) \o Added(n)
<1> DEFINE p == [k \in 1 .. Len(text) |-> Added(k)]
<1>1. Len(text) \in Nat
  BY TextShape
<1>2. ASSUME NEW n \in 0 .. Len(text)
      PROVE  Cut!Original(n) = FlattenSeq([k \in 1 .. n |-> p[k]])
  <2>1. Cut!Original(n) = FlattenSeq([k \in 1 .. n |-> Added(k)])
    BY SameFlatten DEF Cut!Original, Added
  <2>2. [k \in 1 .. n |-> Added(k)] = [k \in 1 .. n |-> p[k]]
    BY <1>1
  <2>3. QED
    BY <2>1, <2>2
<1>3. Cut!Original(0) = <<>>
  <2> HIDE DEF p
  <2>1. 0 \in 0 .. Len(text)
    BY <1>1
  <2>2. QED
    BY <1>2, <2>1, FlattenNone
<1>4. ASSUME NEW n \in 1 .. Len(text)
      PROVE  Cut!Original(n) = Cut!Original(n - 1) \o Added(n)
  <2>1. n - 1 \in Nat /\ n - 1 + 1 = n /\ n \in 0 .. Len(text) /\ n - 1 \in 0 .. Len(text)
    BY <1>1
  <2>2. p[n] = Added(n) /\ SomeSeq(p[n])
    BY AddedTokens DEF SomeSeq
  <2> HIDE DEF p
  <2>3. FlattenSeq([k \in 1 .. n |-> p[k]]) = FlattenSeq([k \in 1 .. n - 1 |-> p[k]]) \o p[n]
    BY <2>1, <2>2, FlattenStep
  <2>4. QED
    BY <1>2, <2>1, <2>2, <2>3
<1>5. QED
  BY <1>3, <1>4

LEMMA OriginalTokens ==
  ASSUME text \in Texts, NEW n \in 0 .. Len(text)
  PROVE  /\ Cut!Original(n) \in Seq(AllTokens)
         /\ \A a \in 1 .. Len(Cut!Original(n)) :
              \/ Cut!Original(n)[a] = Cut!Break
              \/ \E p \in 1 .. n : \E k \in 1 .. Len(text[p]) : Cut!Original(n)[a] = <<p, k>>
<1> DEFINE f == [k \in 1 .. n |-> Added(k)]
           all == Cut!Original(n)
<1>1. Len(text) \in Nat /\ n \in Nat /\ \A p \in 1 .. n : p \in 1 .. Len(text)
  BY TextShape
<1>2. all = FlattenSeq([k \in 1 .. n |-> f[k]])
  BY SameFlatten DEF Cut!Original, Added
<1>3. \A k \in 1 .. n : f[k] = Added(k) /\ SomeSeq(f[k])
  BY <1>1, AddedTokens DEF SomeSeq
<1> HIDE DEF f, all
<1>4. Gathers(all, f, n)
  BY <1>1, <1>2, <1>3, FlattenGathers
<1>5. ASSUME NEW a \in 1 .. Len(all)
      PROVE  \/ all[a] = Cut!Break
             \/ \E p \in 1 .. n : \E k \in 1 .. Len(text[p]) : all[a] = <<p, k>>
  <2>1. PICK p \in 1 .. n : \E b \in 1 .. Len(f[p]) : all[a] = f[p][b]
    BY <1>4 DEF Gathers
  <2>2. PICK b \in 1 .. Len(f[p]) : all[a] = f[p][b]
    BY <2>1
  <2>3. f[p] = Added(p) /\ p \in 1 .. Len(text)
    BY <1>1, <1>3
  <2>4. \/ Added(p)[b] = Cut!Break
        \/ \E k \in 1 .. Len(text[p]) : Added(p)[b] = <<p, k>>
    BY <2>2, <2>3, AddedTokens
  <2>5. QED
    BY <2>2, <2>3, <2>4
<1>6. \A a \in 1 .. Len(all) : all[a] \in AllTokens
  <2>1. ASSUME NEW a \in 1 .. Len(all) PROVE all[a] \in AllTokens
    <3>1. CASE all[a] = Cut!Break
      BY <3>1 DEF AllTokens
    <3>2. CASE \E p \in 1 .. n : \E k \in 1 .. Len(text[p]) : all[a] = <<p, k>>
      BY <1>1, <3>2, ParagraphTokens
    <3>3. QED
      BY <1>5, <3>1, <3>2
  <2>2. QED
    BY <2>1
<1>7. all \in Seq(AllTokens)
  <2>1. PICK S : all \in Seq(S)
    BY <1>4 DEF Gathers, SomeSeq
  <2>2. QED
    BY <1>6, <2>1
<1>8. QED
  BY <1>5, <1>7 DEF all

\* What a step of the cutting starts from.
LEMMA CutContext ==
  ASSUME LongInv, CutTyping, CutText
  PROVE  /\ job.texts # <<>> /\ UNCHANGED <<job, text>> /\ AllTokens' = AllTokens
         /\ text \in Texts /\ Len(text) \in Nat \ {0}
         /\ para \in 1 .. Len(text) + 1 /\ sentence \in Nat /\ before \in Nat
         /\ chunks \in Seq([text : Seq(AllTokens), join : {<<>>, <<Cut!Break>>}])
         /\ current \in Seq(AllTokens) /\ currentSep \in {<<>>, <<Cut!Break>>}
         /\ step = "start" => chunks = <<>> /\ current = <<>> /\ para = 1
         /\ step = "sentences" =>
              /\ para <= Len(text) /\ sentence \in 1 .. Len(text[para]) + 1
              /\ Len(text[para]) \in Nat
         /\ Len(chunks) \in Nat
<1>1. job.texts # <<>>
  BY BatchHasTexts DEF CutText
<1>2. UNCHANGED <<job, text>>
  BY DEF CutText, vars, jobVars, Cut!Next, Cut!Begin, Cut!Pack, Cut!Flush, Cut!NextSentence,
         Cut!SentencesDone, Cut!Finish
<1>3. AllTokens' = AllTokens
  BY <1>2 DEF AllTokens, Sentences, Cut!Break
<1>4. text \in Texts
  BY <1>1 DEF CutTyping
<1>5. Len(text) \in Nat \ {0} /\ \A p \in 1 .. Len(text) : Len(text[p]) \in Nat
  BY <1>4, TextShape
<1>6. step = "sentences" => para \in 1 .. Len(text)
  BY <1>1, <1>5 DEF CutTyping
<1>7. QED
  BY <1>1, <1>2, <1>3, <1>4, <1>5, <1>6 DEF CutTyping

LEMMA TypingNext ==
  ASSUME UNCHANGED <<job, text>>, job.texts # <<>>, text \in Texts,
         step' \in {"paragraphs", "sentences", "done"},
         para' \in 1 .. Len(text) + 1, sentence' \in Nat, before' \in Nat,
         chunks' \in Seq([text : Seq(AllTokens), join : {<<>>, <<Cut!Break>>}]),
         current' \in Seq(AllTokens), currentSep' \in {<<>>, <<Cut!Break>>},
         step' = "sentences" => para' <= Len(text) /\ sentence' \in 1 .. Len(text[para']) + 1
  PROVE  CutTyping'
<1>1. AllTokens' = AllTokens /\ Cut!Break' = Cut!Break
  BY DEF AllTokens, Sentences, Cut!Break
<1>2. QED
  BY <1>1 DEF CutTyping

LEMMA ChunkTypes ==
  ASSUME NEW tokens \in Seq(AllTokens), NEW join \in {<<>>, <<Cut!Break>>}
  PROVE  /\ Cut!Chunk(tokens, join) \in [text : Seq(AllTokens), join : {<<>>, <<Cut!Break>>}]
         /\ Cut!Chunk(tokens, join).text = tokens /\ Cut!Chunk(tokens, join).join = join
  BY DEF Cut!Chunk

LEMMA SeparatorTypes ==
  /\ \A cs : Cut!SepAfter(cs) \in {<<>>, <<Cut!Break>>}
  /\ Cut!ParaSep \in {<<>>, <<Cut!Break>>}
  /\ Cut!SentenceSep \in {<<>>, <<Cut!Break>>}
  BY DEF Cut!SepAfter, Cut!ParaSep, Cut!SentenceSep

LEMMA WholeTokens ==
  ASSUME text \in Texts
  PROVE  /\ Cut!Whole \in Seq(AllTokens) /\ Cut!Whole = Cut!Original(Len(text))
         /\ \A a \in 1 .. Len(Cut!Whole) :
              \/ Cut!Whole[a] = Cut!Break
              \/ \E p \in 1 .. Len(text) : \E k \in 1 .. Len(text[p]) : Cut!Whole[a] = <<p, k>>
<1>1. Len(text) \in 0 .. Len(text)
  BY TextShape
<1>2. QED
  BY <1>1, OriginalTokens DEF Cut!Whole

LEMMA CutTypingKeeps == ASSUME LongInv, CutTyping, CutText PROVE CutTyping'
<1> DEFINE ChunkSet == [text : Seq(AllTokens), join : {<<>>, <<Cut!Break>>}]
<1>1. /\ job.texts # <<>> /\ UNCHANGED <<job, text>>
      /\ text \in Texts /\ Len(text) \in Nat \ {0}
      /\ para \in 1 .. Len(text) + 1 /\ sentence \in Nat /\ before \in Nat
      /\ chunks \in Seq(ChunkSet)
      /\ current \in Seq(AllTokens) /\ currentSep \in {<<>>, <<Cut!Break>>}
      /\ Len(chunks) \in Nat
  BY CutContext
<1>2. step = "sentences" =>
        /\ para <= Len(text) /\ sentence \in 1 .. Len(text[para]) + 1
        /\ Len(text[para]) \in Nat
  BY CutContext
<1>3. \A tokens \in Seq(AllTokens), join \in {<<>>, <<Cut!Break>>} :
        Cut!Chunk(tokens, join) \in ChunkSet
  BY ChunkTypes
<1>4. <<Cut!Chunk(Cut!Whole, <<>>)>> \in Seq(ChunkSet)
  <2>1. Cut!Chunk(Cut!Whole, <<>>) \in ChunkSet
    BY <1>1, <1>3, WholeTokens
  <2> HIDE DEF ChunkSet
  <2>2. QED
    BY <2>1
<1> HIDE DEF ChunkSet
<1>5. \A c \in ChunkSet : Append(chunks, c) \in Seq(ChunkSet)
  BY <1>1
<1>6. CASE Cut!Begin
  <2>1. chunks' \in Seq(ChunkSet)
    BY <1>1, <1>4, <1>6 DEF Cut!Begin
  <2>2. QED
    BY <1>1, <1>6, <2>1, TypingNext DEF Cut!Begin, ChunkSet
<1>7. CASE Cut!Pack
  <2>1. para \in 1 .. Len(text) /\ para + 1 \in 1 .. Len(text) + 1
    BY <1>1, <1>7 DEF Cut!Pack
  <2>2. current' \in Seq(AllTokens)
    <3>1. Cut!Paragraph(para) \in Seq(AllTokens) /\ Cut!Break \in AllTokens
      BY <1>1, <2>1, ParagraphTokens DEF AllTokens
    <3>2. <<Cut!Break>> \in Seq(AllTokens)
      BY <3>1
    <3>3. current' = current \o <<Cut!Break>> \o Cut!Paragraph(para)
      BY <1>7 DEF Cut!Pack, Cut!Extended
    <3>4. QED
      BY <1>1, <3>1, <3>2, <3>3
  <2>3. QED
    BY <1>1, <1>7, <2>1, <2>2, TypingNext DEF Cut!Pack, ChunkSet
<1>8. CASE Cut!Flush
  <2>1. para \in 1 .. Len(text) /\ para + 1 \in 1 .. Len(text) + 1
    BY <1>1, <1>8 DEF Cut!Flush
  <2>2. Cut!Paragraph(para) \in Seq(AllTokens) /\ <<>> \in Seq(AllTokens)
    BY <1>1, <2>1, ParagraphTokens
  <2>3. chunks' \in Seq(ChunkSet) /\ Len(chunks') \in Nat
    BY <1>1, <1>3, <1>5, <1>8 DEF Cut!Flush
  <2>4. current' \in Seq(AllTokens)
    BY <1>8, <2>2 DEF Cut!Flush
  <2>5. currentSep' \in {<<>>, <<Cut!Break>>}
    BY <1>1, <1>8, SeparatorTypes DEF Cut!Flush
  <2>6. Len(text[para]) \in Nat
    BY <1>1, <2>1, TextShape
  <2>7. CASE Cut!Oversized
    BY <1>1, <1>8, <2>1, <2>3, <2>4, <2>5, <2>6, <2>7, TypingNext DEF Cut!Flush, ChunkSet
  <2>8. CASE ~Cut!Oversized
    BY <1>1, <1>8, <2>1, <2>3, <2>4, <2>5, <2>8, TypingNext DEF Cut!Flush, ChunkSet
  <2>9. QED
    BY <2>7, <2>8
<1>9. CASE Cut!NextSentence
  <2>1. /\ para \in 1 .. Len(text) /\ sentence \in 1 .. Len(text[para])
        /\ sentence + 1 \in 1 .. Len(text[para]) + 1
    BY <1>1, <1>2, <1>9 DEF Cut!NextSentence
  <2>2. <<para, sentence>> \in AllTokens
    BY <1>1, <2>1, ParagraphTokens
  <2>3. <<<<para, sentence>>>> \in Seq(AllTokens)
        /\ Append(current, <<para, sentence>>) \in Seq(AllTokens)
    BY <1>1, <2>2
  <2>4. chunks' \in Seq(ChunkSet)
    BY <1>1, <1>3, <1>5, <1>9, SeparatorTypes DEF Cut!NextSentence
  <2>5. current' \in Seq(AllTokens)
    BY <1>1, <1>9, <2>3 DEF Cut!NextSentence
  <2>6. QED
    BY <1>1, <1>9, <2>1, <2>4, <2>5, TypingNext DEF Cut!NextSentence, ChunkSet
<1>10. CASE Cut!SentencesDone
  <2>1. para + 1 \in 1 .. Len(text) + 1
    BY <1>1, <1>2, <1>10 DEF Cut!SentencesDone
  <2>2. currentSep' \in {<<>>, <<Cut!Break>>}
    BY <1>1, <1>10, SeparatorTypes DEF Cut!SentencesDone
  <2>3. QED
    BY <1>1, <1>10, <2>1, <2>2, TypingNext DEF Cut!SentencesDone, ChunkSet
<1>11. CASE Cut!Finish
  <2>1. chunks' \in Seq(ChunkSet)
    BY <1>1, <1>3, <1>4, <1>5, <1>11 DEF Cut!Finish
  <2>2. QED
    BY <1>1, <1>11, <2>1, TypingNext DEF Cut!Finish, ChunkSet
<1>12. QED
  BY <1>6, <1>7, <1>8, <1>9, <1>10, <1>11 DEF CutText, Cut!Next

-----------------------------------------------------------------------------

LEMMA SizesNext ==
  ASSUME UNCHANGED <<job, text>>,
         \A c \in 1 .. Len(chunks') : Small(chunks'[c].text) \/ Wordless,
         Small(current'),
         step' # "done" /\ chunks' = <<>> /\ current' = <<>> =>
           /\ \A p \in 1 .. para' - 1 : \A k \in 1 .. Len(text[p]) : ~text[p][k].words
           /\ step' = "sentences" => \A k \in 1 .. sentence' - 1 : ~text[para'][k].words
  PROVE  SizesInv'
<1>1. \A q : Small(q)' = Small(q)
  BY DEF Small, Cut!Size, Cut!SizeIn, Cut!Bytes, Cut!Break
<1>2. Wordless' = Wordless
  <2>1. Cut!Whole' = Cut!Whole
    BY OriginalStays
  <2>2. \A t : Cut!HasWords(t)' = Cut!HasWords(t)
    BY DEF Cut!HasWords, Cut!Break
  <2>3. QED
    BY <2>1, <2>2 DEF Wordless, Cut!ToSet
<1>3. Small(current)'
  BY DEF Small, Cut!Size, Cut!SizeIn, Cut!Bytes, Cut!Break
<1>4. ASSUME NEW c \in 1 .. Len(chunks')
      PROVE  Small(chunks[c].text)' \/ Wordless'
  <2>1. CASE Small(chunks'[c].text)
    <3>1. Small(chunks[c].text)'
      BY <2>1 DEF Small, Cut!Size, Cut!SizeIn, Cut!Bytes, Cut!Break
    <3>2. QED
      BY <3>1
  <2>2. CASE Wordless
    BY <1>2, <2>2
  <2>3. QED
    BY <2>1, <2>2
<1>5. QED
  BY <1>3, <1>4 DEF SizesInv, NoWordsYet

LEMMA NoWordsAtAll ==
  ASSUME text \in Texts,
         \A p \in 1 .. Len(text) : \A k \in 1 .. Len(text[p]) : ~text[p][k].words
  PROVE  Wordless
<1>1. /\ Cut!Whole \in Seq(AllTokens)
      /\ \A a \in 1 .. Len(Cut!Whole) :
           \/ Cut!Whole[a] = Cut!Break
           \/ \E p \in 1 .. Len(text) : \E k \in 1 .. Len(text[p]) : Cut!Whole[a] = <<p, k>>
  BY WholeTokens
<1>2. ASSUME NEW t \in Cut!ToSet(Cut!Whole) PROVE ~Cut!HasWords(t)
  <2>1. PICK a \in 1 .. Len(Cut!Whole) : Cut!Whole[a] = t
    BY <1>1 DEF Cut!ToSet
  <2>2. t = Cut!Break \/ \E p \in 1 .. Len(text) : \E k \in 1 .. Len(text[p]) : t = <<p, k>>
    BY <1>1, <2>1
  <2>3. QED
    BY <2>2, ParagraphTokens DEF Cut!HasWords
<1>3. QED
  BY <1>2 DEF Wordless

LEMMA EmptyIsSmall == text \in Texts => Small(<<>>)
<1> SUFFICES ASSUME text \in Texts PROVE Small(<<>>)
  OBVIOUS
<1>1. Cut!Break \in AllTokens
  BY DEF AllTokens
<1>2. Cut!Size(<<>>) = 0
  BY <1>1, SizeOfOne
<1>3. QED
  BY <1>2, LimitsAreNatural DEF Small

LEMMA SizesKeep == ASSUME LongInv, CutTyping, SizesInv, CutText PROVE SizesInv'
<1>1. /\ job.texts # <<>> /\ UNCHANGED <<job, text>>
      /\ text \in Texts /\ Len(text) \in Nat \ {0}
      /\ para \in 1 .. Len(text) + 1
      /\ chunks \in Seq([text : Seq(AllTokens), join : {<<>>, <<Cut!Break>>}])
      /\ current \in Seq(AllTokens) /\ currentSep \in {<<>>, <<Cut!Break>>}
      /\ Len(chunks) \in Nat
  BY CutContext
<1>2. step = "sentences" =>
        /\ para \in 1 .. Len(text) /\ sentence \in 1 .. Len(text[para]) + 1
        /\ Len(text[para]) \in Nat
  BY <1>1, CutContext
<1>3. step = "start" => chunks = <<>> /\ current = <<>> /\ para = 1
  BY CutContext
<1>4. /\ \A c \in 1 .. Len(chunks) : Small(chunks[c].text) \/ Wordless
      /\ Small(current)
      /\ step # "done" /\ chunks = <<>> /\ current = <<>> => NoWordsYet
  BY <1>1 DEF SizesInv
<1>5. ASSUME NEW tokens, NEW join, Small(tokens) \/ Wordless,
             chunks' = Append(chunks, Cut!Chunk(tokens, join))
      PROVE  chunks' # <<>> /\ \A c \in 1 .. Len(chunks') : Small(chunks'[c].text) \/ Wordless
  <2>1. SomeSeq(chunks) /\ Cut!Chunk(tokens, join).text = tokens
    BY <1>1 DEF SomeSeq, Cut!Chunk
  <2>2. /\ Len(chunks') = Len(chunks) + 1 /\ SomeSeq(chunks')
        /\ \A c \in 1 .. Len(chunks) : chunks'[c] = chunks[c]
        /\ chunks'[Len(chunks) + 1].text = tokens
    BY <1>5, <2>1, AppendSeq
  <2>3. \A c \in 1 .. Len(chunks) + 1 : c \in 1 .. Len(chunks) \/ c = Len(chunks) + 1
    BY <1>1
  <2>4. Len(chunks') # 0
    BY <1>1, <2>2
  <2>5. QED
    BY <1>4, <1>5, <2>2, <2>3, <2>4
<1>6. CASE Cut!Begin
  <2>1. CASE Cut!Size(Cut!Whole) <= MaxChars
    <3>1. chunks' = <<Cut!Chunk(Cut!Whole, <<>>)>> /\ UNCHANGED current /\ step' = "done"
      BY <1>6, <2>1 DEF Cut!Begin
    <3>2. Small(Cut!Whole) /\ Cut!Chunk(Cut!Whole, <<>>).text = Cut!Whole
      BY <2>1 DEF Small, Cut!Chunk
    <3>3. \A c \in 1 .. Len(chunks') : Small(chunks'[c].text)
      BY <3>1, <3>2
    <3>4. QED
      BY <1>1, <1>4, <3>1, <3>3, SizesNext
  <2>2. CASE ~(Cut!Size(Cut!Whole) <= MaxChars)
    <3>1. UNCHANGED <<chunks, current, para>> /\ step' = "paragraphs" /\ para = 1
      BY <1>3, <1>6, <2>2 DEF Cut!Begin
    <3>2. QED
      BY <1>1, <1>4, <3>1, SizesNext
  <2>3. QED
    BY <2>1, <2>2
<1>7. CASE Cut!Pack
  <2>1. /\ para \in 1 .. Len(text) /\ current # <<>> /\ ~Cut!TooMuch
        /\ current' = current \o <<Cut!Break>> \o Cut!Paragraph(para)
        /\ UNCHANGED chunks
    BY <1>1, <1>7 DEF Cut!Pack, Cut!Extended
  <2>2. /\ Cut!Paragraph(para) \in Seq(AllTokens) /\ Cut!Break \in AllTokens
        /\ Cut!Bytes(text, Cut!Break) = 2
    BY <1>1, <2>1, ParagraphTokens
  <2>3. <<Cut!Break>> \in Seq(AllTokens) /\ Cut!Size(<<Cut!Break>>) = 2
    BY <1>1, <2>2, SizeOfOne
  <2>4. current \o <<Cut!Break>> \in Seq(AllTokens)
        /\ Cut!Size(current \o <<Cut!Break>>) = Cut!Size(current) + 2
    BY <1>1, <2>3, SizeOfConcat
  <2>5. Cut!Size(current') = Cut!Size(current) + 2 + Cut!Size(Cut!Paragraph(para))
    BY <1>1, <2>1, <2>2, <2>4, SizeOfConcat
  <2>6. /\ Cut!Size(current) \in Nat /\ Cut!Size(Cut!Paragraph(para)) \in Nat
    BY <1>1, <2>2, SizeOfConcat
  <2>7. Small(current')
    BY <2>1, <2>5, <2>6, LimitsAreNatural DEF Small, Cut!TooMuch
  <2>8. current' # <<>>
    <3>1. Len(current') = Len(current) + 1 + Len(Cut!Paragraph(para))
      BY <1>1, <2>1, <2>2
    <3>2. QED
      BY <1>1, <2>2, <3>1
  <2>9. QED
    BY <1>1, <1>4, <2>1, <2>7, <2>8, SizesNext
<1>8. CASE Cut!Flush
  <2>1. /\ para \in 1 .. Len(text) /\ (Cut!TooMuch \/ current = <<>>) /\ step = "paragraphs"
        /\ chunks' = IF Cut!TooMuch THEN Append(chunks, Cut!Chunk(current, currentSep))
                                    ELSE chunks
    BY <1>1, <1>8 DEF Cut!Flush
  <2>2. (\A c \in 1 .. Len(chunks') : Small(chunks'[c].text) \/ Wordless)
        /\ (chunks' = <<>> => chunks = <<>> /\ current = <<>>)
    <3>1. CASE Cut!TooMuch
      BY <1>4, <1>5, <2>1, <3>1
    <3>2. CASE ~Cut!TooMuch
      BY <1>4, <2>1, <3>2
    <3>3. QED
      BY <3>1, <3>2
  <2>3. chunks' = <<>> =>
          \A p \in 1 .. para - 1 : \A k \in 1 .. Len(text[p]) : ~text[p][k].words
    BY <1>4, <2>1, <2>2 DEF NoWordsYet
  <2>4. CASE Cut!Oversized
    <3>1. step' = "sentences" /\ sentence' = 1 /\ current' = <<>> /\ UNCHANGED para
      BY <1>8, <2>4 DEF Cut!Flush
    <3>2. Small(current')
      BY <1>1, <3>1, EmptyIsSmall
    <3>3. \A k \in 1 .. sentence' - 1 : FALSE
      BY <3>1
    <3>4. QED
      BY <1>1, <2>2, <2>3, <3>1, <3>2, <3>3, SizesNext
  <2>5. CASE ~Cut!Oversized
    <3>1. step' = "paragraphs" /\ current' = Cut!Paragraph(para) /\ para' = para + 1
      BY <1>8, <2>1, <2>5 DEF Cut!Flush
    <3>2. Cut!Paragraph(para) \in Seq(AllTokens)
          /\ Len(Cut!Paragraph(para)) = Len(text[para])
      BY <1>1, <2>1, ParagraphTokens
    <3>3. Cut!Size(Cut!Paragraph(para)) \in Nat
      BY <1>1, <3>2, SizeOfConcat
    <3>4. Small(current')
      BY <2>5, <3>1, <3>3, LimitsAreNatural
         DEF Small, Cut!Oversized, Cut!TooLong, Cut!Size, Cut!Paragraph
    <3>5. current' = <<>> => \A k \in 1 .. Len(text[para]) : FALSE
      BY <3>1, <3>2
    <3>6. \A p \in 1 .. para' - 1 : p \in 1 .. para - 1 \/ p = para
      BY <1>1, <3>1
    <3>7. QED
      BY <1>1, <2>2, <2>3, <3>1, <3>4, <3>5, <3>6, SizesNext
  <2>6. QED
    BY <2>4, <2>5
<1>9. CASE Cut!NextSentence
  <2> DEFINE s == text[para][sentence]
             token == <<para, sentence>>
  <2>1. /\ para \in 1 .. Len(text) /\ sentence \in 1 .. Len(text[para])
        /\ step = "sentences" /\ UNCHANGED <<step, para>> /\ sentence' = sentence + 1
    BY <1>1, <1>2, <1>9 DEF Cut!NextSentence
  <2>2. s.words \in BOOLEAN /\ s.len \in Nat
    BY <1>1, <2>1, TextShape
  <2>3. token \in AllTokens /\ Cut!Bytes(text, token) = s.len
    BY <1>1, <2>1, ParagraphTokens
  <2>4. CASE ~s.words
    <3>1. UNCHANGED <<chunks, current>>
      BY <1>9, <2>4 DEF Cut!NextSentence
    <3>2. \A k \in 1 .. sentence' - 1 : k \in 1 .. sentence - 1 \/ k = sentence
      BY <2>1
    <3>3. chunks' = <<>> /\ current' = <<>> =>
            /\ \A p \in 1 .. para' - 1 : \A k \in 1 .. Len(text[p]) : ~text[p][k].words
            /\ \A k \in 1 .. sentence' - 1 : ~text[para'][k].words
      BY <1>4, <2>1, <2>4, <3>1, <3>2 DEF NoWordsYet
    <3>4. QED
      BY <1>1, <1>4, <2>1, <3>1, <3>3, SizesNext
  <2>5. CASE s.words /\ Cut!SentenceFull(s)
    <3>1. chunks' = Append(chunks, Cut!Chunk(current, Cut!SentenceSep)) /\ current' = <<token>>
      BY <1>9, <2>5 DEF Cut!NextSentence
    <3> HIDE DEF token, s
    <3>2. Small(current') /\ current' # <<>>
      BY <3>1 DEF Small
    <3>3. QED
      BY <1>1, <1>4, <1>5, <3>1, <3>2, SizesNext
  <2>6. CASE s.words /\ ~Cut!SentenceFull(s)
    <3>1. UNCHANGED chunks /\ current' = Append(current, token)
      BY <1>9, <2>6 DEF Cut!NextSentence
    <3> HIDE DEF token
    <3>2. Len(current') = Len(current) + 1 /\ Len(current) \in Nat
          /\ Append(current, token) = current \o <<token>>
      <4>1. current \in Seq(AllTokens) /\ token \in AllTokens
        BY <1>1, <2>3
      <4>2. Len(Append(current, token)) = Len(current) + 1 /\ Len(current) \in Nat
            /\ Append(current, token) = current \o <<token>>
        BY <4>1
      <4>3. QED
        BY <3>1, <4>2
    <3>3. CASE current = <<>>
      BY <1>1, <1>4, <3>1, <3>2, <3>3, SizesNext DEF Small
    <3>4. CASE current # <<>>
      <4>1. <<token>> \in Seq(AllTokens) /\ Cut!Size(<<token>>) = s.len
        BY <1>1, <2>3, SizeOfOne
      <4>2. Cut!Size(current') = Cut!Size(current) + s.len /\ Cut!Size(current) \in Nat
        BY <1>1, <3>1, <3>2, <4>1, SizeOfConcat
      <4>3. Small(current')
        BY <2>2, <2>6, <3>4, <4>2, LimitsAreNatural DEF Small, Cut!SentenceFull
      <4>4. current' # <<>>
        BY <3>2
      <4>5. QED
        BY <1>1, <1>4, <3>1, <4>3, <4>4, SizesNext
    <3>5. QED
      BY <3>3, <3>4
  <2>7. QED
    BY <2>2, <2>4, <2>5, <2>6
<1>10. CASE Cut!SentencesDone
  <2>1. /\ para \in 1 .. Len(text) /\ sentence = Len(text[para]) + 1
        /\ step = "sentences" /\ step' = "paragraphs" /\ para' = para + 1
        /\ UNCHANGED <<chunks, current>>
    <3>1. step = "sentences" /\ sentence > Len(text[para])
      BY <1>10 DEF Cut!SentencesDone
    <3>2. para \in 1 .. Len(text) /\ sentence = Len(text[para]) + 1
      BY <1>2, <3>1
    <3>3. QED
      BY <1>10, <3>1, <3>2 DEF Cut!SentencesDone
  <2>2. /\ \A k \in 1 .. Len(text[para]) : k \in 1 .. sentence - 1
        /\ \A p \in 1 .. para' - 1 : p \in 1 .. para - 1 \/ p = para
    BY <1>1, <1>2, <2>1
  <2>3. chunks' = <<>> /\ current' = <<>> =>
          \A p \in 1 .. para' - 1 : \A k \in 1 .. Len(text[p]) : ~text[p][k].words
    BY <1>4, <2>1, <2>2 DEF NoWordsYet
  <2>4. QED
    BY <1>1, <1>4, <2>1, <2>3, SizesNext
<1>11. CASE Cut!Finish
  <2>1. step' = "done" /\ UNCHANGED current /\ step = "paragraphs" /\ para > Len(text)
    BY <1>11 DEF Cut!Finish
  <2>2. CASE current # <<>>
    <3>1. chunks' = Append(chunks, Cut!Chunk(current, currentSep))
      BY <1>11, <2>2 DEF Cut!Finish
    <3>2. QED
      BY <1>1, <1>4, <1>5, <2>1, <3>1, SizesNext
  <2>3. CASE current = <<>> /\ chunks = <<>>
    <3>1. chunks' = <<Cut!Chunk(Cut!Whole, <<>>)>>
      BY <1>11, <2>3 DEF Cut!Finish
    <3>2. \A p \in 1 .. Len(text) : p \in 1 .. para - 1
      BY <1>1, <2>1
    <3>3. Wordless
      BY <1>1, <1>4, <2>1, <2>3, <3>2, NoWordsAtAll DEF NoWordsYet
    <3>4. QED
      BY <1>1, <1>4, <2>1, <3>1, <3>3, SizesNext
  <2>4. CASE current = <<>> /\ chunks # <<>>
    <3>1. UNCHANGED chunks
      BY <1>11, <2>4 DEF Cut!Finish
    <3>2. QED
      BY <1>1, <1>4, <2>1, <3>1, SizesNext
  <2>5. QED
    BY <2>2, <2>3, <2>4
<1>12. QED
  BY <1>6, <1>7, <1>8, <1>9, <1>10, <1>11 DEF CutText, Cut!Next

-----------------------------------------------------------------------------

LEMMA JoinNext ==
  ASSUME UNCHANGED <<job, text>>, step' # "start",
         AllWords =>
           /\ step' = "paragraphs" => AtParagraph(chunks', currentSep', current', para')
           /\ step' = "sentences" => InParagraph(chunks', before', current', para', sentence')
           /\ step' = "done" => Cut!Joined(chunks') = Cut!Whole
  PROVE  JoinInv'
<1>1. AllWords' = AllWords
  BY DEF AllWords
<1>2. Cut!Whole' = Cut!Whole
  BY OriginalStays
<1>3. Cut!Joined(chunks)' = Cut!Joined(chunks')
  BY DEF Cut!Joined, Cut!FlattenSeq
<1>4. Cut!Original(para - 1)' = Cut!Original(para' - 1)
  BY SMTT(30) DEF Cut!Original, Cut!Paragraph, Cut!ParagraphOf, Cut!Break, Cut!FlattenSeq
<1>5. Cut!Break' = Cut!Break
  BY DEF Cut!Break
<1>6. ASSUME AtParagraph(chunks', currentSep', current', para')
      PROVE  AtParagraph(chunks, currentSep, current, para)'
  BY <1>3, <1>4, <1>6 DEF AtParagraph, Glue
<1>7. ASSUME InParagraph(chunks', before', current', para', sentence')
      PROVE  InParagraph(chunks, before, current, para, sentence)'
  BY <1>3, <1>4, <1>5, <1>7 DEF InParagraph, Boundary, Prefix, Glue
<1>8. QED
  BY <1>1, <1>2, <1>3, <1>6, <1>7 DEF JoinInv

LEMMA TokensAreSeq == ASSUME NEW q \in Seq(AllTokens) PROVE SomeSeq(q)
  BY DEF SomeSeq

LEMMA BoundaryIsSeq ==
  /\ SomeSeq(<<>>) /\ SomeSeq(<<Cut!Break>>)
  /\ \A sep \in {<<>>, <<Cut!Break>>} : SomeSeq(sep)
<1>1. <<Cut!Break>> \in Seq({Cut!Break})
  OBVIOUS
<1>2. SomeSeq(<<Cut!Break>>)
  BY <1>1 DEF SomeSeq
<1>3. QED
  BY <1>2, EmptyIsSeq

LEMMA JoinedNone == Cut!Joined(<<>>) = <<>>
<1> DEFINE p == [c \in 1 .. 0 |-> <<>>[c].join \o <<>>[c].text]
<1>1. Cut!Joined(<<>>) = FlattenSeq([c \in 1 .. 0 |-> p[c]])
  <2>1. Len(<<>>) = 0
    OBVIOUS
  <2>2. Cut!Joined(<<>>) = FlattenSeq([c \in 1 .. 0 |-> <<>>[c].join \o <<>>[c].text])
    BY <2>1, SameFlatten DEF Cut!Joined
  <2>3. [c \in 1 .. 0 |-> p[c]] = [c \in 1 .. 0 |-> <<>>[c].join \o <<>>[c].text]
    OBVIOUS
  <2>4. QED
    BY <2>2, <2>3
<1>2. QED
  BY <1>1, FlattenNone

LEMMA JoinedStep ==
  ASSUME NEW cs \in Seq([text : Seq(AllTokens), join : {<<>>, <<Cut!Break>>}]),
         NEW tokens \in Seq(AllTokens), NEW join \in {<<>>, <<Cut!Break>>}
  PROVE  /\ SomeSeq(Cut!Joined(cs)) /\ SomeSeq(join \o tokens)
         /\ Cut!Joined(Append(cs, Cut!Chunk(tokens, join))) = Cut!Joined(cs) \o (join \o tokens)
<1> DEFINE ChunkSet == [text : Seq(AllTokens), join : {<<>>, <<Cut!Break>>}]
           new == Append(cs, Cut!Chunk(tokens, join))
           n == Len(cs)
           p == [c \in 1 .. n + 1 |-> new[c].join \o new[c].text]
<1>1. /\ n \in Nat /\ Len(new) = n + 1 /\ new \in Seq(ChunkSet)
      /\ \A c \in 1 .. n : new[c] = cs[c]
      /\ new[n + 1] = Cut!Chunk(tokens, join)
  <2>1. Cut!Chunk(tokens, join) \in ChunkSet
    BY ChunkTypes
  <2> HIDE DEF ChunkSet
  <2>2. cs \in Seq(ChunkSet)
    BY DEF ChunkSet
  <2>3. QED
    BY <2>1, <2>2
<1>2. Cut!Chunk(tokens, join).text = tokens /\ Cut!Chunk(tokens, join).join = join
  BY ChunkTypes
<1> HIDE DEF new, n
<1>3. ASSUME NEW c \in 1 .. n + 1 PROVE p[c] = new[c].join \o new[c].text /\ SomeSeq(p[c])
  <2>1. p[c] = new[c].join \o new[c].text
    BY <1>3
  <2>2. new[c] \in ChunkSet
    <3> HIDE DEF ChunkSet, p
    <3>1. QED
      BY <1>1
  <2>3. new[c].text \in Seq(AllTokens) /\ new[c].join \in {<<>>, <<Cut!Break>>}
    BY <2>2
  <2>4. SomeSeq(new[c].text) /\ SomeSeq(new[c].join)
    BY <2>3, TokensAreSeq, BoundaryIsSeq
  <2>5. QED
    BY <2>1, <2>4, ConcatSeq
<1>4. Cut!Joined(new) = FlattenSeq([c \in 1 .. n + 1 |-> p[c]])
  <2>1. Cut!Joined(new) = FlattenSeq([c \in 1 .. n + 1 |-> new[c].join \o new[c].text])
    BY <1>1, SameFlatten DEF Cut!Joined
  <2>2. [c \in 1 .. n + 1 |-> p[c]] = [c \in 1 .. n + 1 |-> new[c].join \o new[c].text]
    BY <1>1
  <2>3. QED
    BY <2>1, <2>2
<1>5. Cut!Joined(cs) = FlattenSeq([c \in 1 .. n |-> p[c]])
  <2>1. Cut!Joined(cs) = FlattenSeq([c \in 1 .. n |-> cs[c].join \o cs[c].text])
    BY SameFlatten DEF Cut!Joined, n
  <2>2. ASSUME NEW c \in 1 .. n PROVE cs[c].join \o cs[c].text = p[c]
    <3>1. c \in 1 .. n + 1 /\ new[c] = cs[c]
      BY <1>1
    <3> HIDE DEF p
    <3>2. QED
      BY <1>3, <3>1
  <2>3. [c \in 1 .. n |-> p[c]] = [c \in 1 .. n |-> cs[c].join \o cs[c].text]
    BY <2>2
  <2>4. QED
    BY <2>1, <2>3
<1>6. p[n + 1] = join \o tokens /\ SomeSeq(p[n + 1])
  <2>1. n + 1 \in 1 .. n + 1
    BY <1>1
  <2> HIDE DEF p
  <2>2. QED
    BY <1>1, <1>2, <1>3, <2>1
<1> HIDE DEF p
<1>7. SomeSeq(Cut!Joined(cs))
  <2>1. \A c \in 1 .. n : c \in 1 .. n + 1
    BY <1>1
  <2>2. \A c \in 1 .. n : SomeSeq(p[c])
    BY <1>3, <2>1
  <2>3. QED
    BY <1>1, <1>5, <2>2, FlattenGathers DEF Gathers
<1>8. Cut!Joined(new) = Cut!Joined(cs) \o p[n + 1]
  BY <1>1, <1>4, <1>5, <1>6, FlattenStep
<1>9. QED
  BY <1>6, <1>7, <1>8 DEF new

LEMMA JoinedOne ==
  ASSUME NEW tokens \in Seq(AllTokens)
  PROVE  Cut!Joined(<<Cut!Chunk(tokens, <<>>)>>) = tokens
<1> DEFINE none == <<>>
<1>1. none \in Seq([text : Seq(AllTokens), join : {<<>>, <<Cut!Break>>}])
      /\ Append(none, Cut!Chunk(tokens, <<>>)) = <<Cut!Chunk(tokens, <<>>)>>
  OBVIOUS
<1>2. Cut!Joined(Append(none, Cut!Chunk(tokens, <<>>))) = Cut!Joined(none) \o (<<>> \o tokens)
  <2> HIDE DEF none
  <2>1. QED
    BY <1>1, JoinedStep
<1>3. Cut!Joined(none) = <<>> /\ <<>> \o tokens = tokens
  BY JoinedNone
<1>4. QED
  BY <1>1, <1>2, <1>3

\* What the chunks and the accumulator hold, taken apart.
LEMMA GlueParts ==
  ASSUME NEW cs \in Seq([text : Seq(AllTokens), join : {<<>>, <<Cut!Break>>}]),
         NEW sep \in {<<>>, <<Cut!Break>>}, NEW cur \in Seq(AllTokens)
  PROVE  /\ SomeSeq(Cut!Joined(cs)) /\ SomeSeq(sep) /\ SomeSeq(cur)
         /\ cur = <<>> => Glue(cs, sep, cur) = Cut!Joined(cs)
         /\ cur # <<>> => /\ Glue(cs, sep, cur) = Cut!Joined(cs) \o (sep \o cur)
                          /\ Cut!Joined(Append(cs, Cut!Chunk(cur, sep))) = Glue(cs, sep, cur)
<1>1. SomeSeq(Cut!Joined(cs))
      /\ Cut!Joined(Append(cs, Cut!Chunk(cur, sep))) = Cut!Joined(cs) \o (sep \o cur)
  BY JoinedStep
<1>2. SomeSeq(sep) /\ SomeSeq(cur)
  BY TokensAreSeq, BoundaryIsSeq
<1>3. Cut!Joined(cs) \o <<>> = Cut!Joined(cs)
  BY <1>1, EmptyConcat
<1>4. QED
  BY <1>1, <1>2, <1>3 DEF Glue

\* The text up to paragraph p, and what that paragraph adds.
LEMMA OriginalParts ==
  ASSUME text \in Texts, AllWords, NEW p \in 1 .. Len(text)
  PROVE  /\ SomeSeq(Cut!Original(p - 1)) /\ SomeSeq(Cut!Paragraph(p))
         /\ Cut!Paragraph(p) \in Seq(AllTokens) /\ Cut!Paragraph(p) # <<>>
         /\ Len(text[p]) \in Nat \ {0}
         /\ \A b : (b = 0 <=> p = 1) =>
              Cut!Original(p) = Cut!Original(p - 1) \o (Boundary(b) \o Cut!Paragraph(p))
<1>1. Len(text) \in Nat /\ Len(text[p]) \in Nat /\ p - 1 \in 0 .. Len(text)
  BY TextShape
<1>2. SomeSeq(Cut!Original(p - 1))
  BY <1>1, OriginalTokens, TokensAreSeq
<1>3. Cut!Paragraph(p) \in Seq(AllTokens) /\ Len(Cut!Paragraph(p)) = Len(text[p])
  BY ParagraphTokens
<1>4. Len(text[p]) # 0
  <2>1. text[p] # <<>>
    BY DEF AllWords
  <2>2. text[p] \in Seq([len : Nat, words : BOOLEAN])
    BY TextsAreParagraphs
  <2>3. QED
    BY <2>1, <2>2
<1>5. SomeSeq(Cut!Paragraph(p)) /\ Cut!Paragraph(p) # <<>>
  <2>1. Len(<<>>) = 0
    OBVIOUS
  <2>2. QED
    BY <1>3, <1>4, <2>1, TokensAreSeq
<1>6. ASSUME NEW b, b = 0 <=> p = 1
      PROVE  Cut!Original(p) = Cut!Original(p - 1) \o (Boundary(b) \o Cut!Paragraph(p))
  <2>1. Cut!Original(p) = Cut!Original(p - 1) \o Added(p)
    BY OriginalStep
  <2>2. <<>> \o Cut!Paragraph(p) = Cut!Paragraph(p)
    BY <1>5, EmptyConcat
  <2>3. Added(p) = Boundary(b) \o Cut!Paragraph(p)
    BY <1>6, <2>2 DEF Added, Boundary
  <2>4. QED
    BY <2>1, <2>3
<1>7. QED
  BY <1>1, <1>2, <1>3, <1>4, <1>5, <1>6

LEMMA Regroup ==
  ASSUME NEW a, NEW b, NEW c, NEW d, SomeSeq(a), SomeSeq(b), SomeSeq(c), SomeSeq(d)
  PROVE  a \o (b \o (c \o d)) = (a \o (b \o c)) \o d
<1>1. b \o (c \o d) = (b \o c) \o d
  BY ConcatAssoc
<1>2. SomeSeq(b \o c)
  BY ConcatSeq
<1>3. QED
  BY <1>1, <1>2, ConcatAssoc

LEMMA NotEmpty ==
  ASSUME NEW a, NEW b, SomeSeq(a), SomeSeq(b), b # <<>>
  PROVE  a \o b # <<>>
<1>1. Len(b) # 0
  BY DEF SomeSeq
<1>2. Len(a \o b) = Len(a) + Len(b) /\ Len(a) \in Nat /\ Len(b) \in Nat
  BY ConcatSeq
<1>3. Len(<<>>) = 0
  OBVIOUS
<1>4. QED
  BY <1>1, <1>2, <1>3

LEMMA PrefixGrows ==
  ASSUME NEW p \in Nat, NEW n \in Nat \ {0}
  PROVE  /\ SomeSeq(Prefix(p, n - 1)) /\ SomeSeq(Prefix(p, n)) /\ SomeSeq(<<<<p, n>>>>)
         /\ Prefix(p, n) = Prefix(p, n - 1) \o <<<<p, n>>>>
         /\ Prefix(p, 1) = <<<<p, 1>>>>
<1>1. /\ Prefix(p, n) \in Seq(Nat \X Nat) /\ Len(Prefix(p, n)) = n
      /\ Prefix(p, n - 1) \in Seq(Nat \X Nat) /\ Len(Prefix(p, n - 1)) = n - 1
      /\ <<<<p, n>>>> \in Seq(Nat \X Nat)
  BY DEF Prefix
<1>2. /\ \A k \in 1 .. n : Prefix(p, n)[k] = <<p, k>>
      /\ \A k \in 1 .. n - 1 : Prefix(p, n - 1)[k] = <<p, k>>
  BY DEF Prefix
<1> DEFINE q == Prefix(p, n - 1) \o <<<<p, n>>>>
<1>3. q \in Seq(Nat \X Nat) /\ Len(q) = n
  BY <1>1
<1>4. Prefix(p, n) = q
  <2>1. ASSUME NEW k \in 1 .. n PROVE q[k] = <<p, k>>
    <3>1. CASE k \in 1 .. n - 1
      BY <1>1, <1>2, <3>1
    <3>2. CASE k = n
      BY <1>1, <3>2
    <3> HIDE DEF q
    <3>3. k \in 1 .. n - 1 \/ k = n
      OBVIOUS
    <3>4. QED
      BY <3>1, <3>2, <3>3
  <2> HIDE DEF q
  <2>2. q = [k \in 1 .. n |-> q[k]]
    BY <1>3
  <2>3. Prefix(p, n) = [k \in 1 .. n |-> q[k]]
    BY <2>1 DEF Prefix
  <2>4. QED
    BY <2>2, <2>3
<1>5. Prefix(p, 1) = <<<<p, 1>>>>
  BY DEF Prefix
<1>6. QED
  BY <1>1, <1>4, <1>5 DEF SomeSeq

-----------------------------------------------------------------------------

LEMMA JoinBegin == ASSUME LongInv, CutTyping, JoinInv, CutText, Cut!Begin PROVE JoinInv'
<1>1. /\ UNCHANGED <<job, text>> /\ text \in Texts
      /\ chunks = <<>> /\ current = <<>> /\ para = 1
  BY CutContext DEF Cut!Begin
<1>2. CASE Cut!Size(Cut!Whole) <= MaxChars
  <2>1. step' = "done" /\ chunks' = <<Cut!Chunk(Cut!Whole, <<>>)>>
    BY <1>2 DEF Cut!Begin
  <2>2. Cut!Joined(chunks') = Cut!Whole
    BY <1>1, <2>1, WholeTokens, JoinedOne
  <2>3. QED
    BY <1>1, <2>1, <2>2, JoinNext
<1>3. CASE ~ (Cut!Size(Cut!Whole) <= MaxChars)
  <2>1. step' = "paragraphs" /\ UNCHANGED <<chunks, current, currentSep, para>>
    BY <1>3 DEF Cut!Begin
  <2>2. Glue(<<>>, currentSep, <<>>) = <<>>
    BY JoinedNone DEF Glue
  <2>3. para - 1 = 0 /\ Cut!Original(0) = <<>>
    BY <1>1, OriginalStep
  <2>4. AtParagraph(chunks', currentSep', current', para')
    BY <1>1, <2>1, <2>2, <2>3 DEF AtParagraph
  <2>5. QED
    BY <1>1, <2>1, <2>4, JoinNext
<1>4. QED
  BY <1>2, <1>3

LEMMA JoinPack == ASSUME LongInv, CutTyping, JoinInv, CutText, Cut!Pack PROVE JoinInv'
<1>1. /\ UNCHANGED <<job, text>> /\ text \in Texts /\ job.texts # <<>>
      /\ chunks \in Seq([text : Seq(AllTokens), join : {<<>>, <<Cut!Break>>}])
      /\ current \in Seq(AllTokens) /\ currentSep \in {<<>>, <<Cut!Break>>}
      /\ Len(text) \in Nat /\ para \in 1 .. Len(text) + 1
  BY CutContext
<1>2. /\ para \in 1 .. Len(text) /\ current # <<>> /\ step' = "paragraphs"
      /\ current' = (current \o <<Cut!Break>>) \o Cut!Paragraph(para)
      /\ para' = para + 1 /\ UNCHANGED <<chunks, currentSep>>
  BY <1>1 DEF Cut!Pack, Cut!Extended
<1>3. ASSUME AllWords
      PROVE  AtParagraph(chunks', currentSep', current', para')
  <2> DEFINE j == Cut!Joined(chunks)
             b == <<Cut!Break>>
             q == Cut!Paragraph(para)
             o == Cut!Original(para - 1)
  <2>1. AtParagraph(chunks, currentSep, current, para)
    BY <1>1, <1>3 DEF JoinInv, Cut!Pack
  <2>2. para # 1 /\ Glue(chunks, currentSep, current) = o
    BY <1>2, <2>1 DEF AtParagraph
  <2>3. /\ SomeSeq(q) /\ q # <<>> /\ q \in Seq(AllTokens)
        /\ Cut!Original(para) = o \o (b \o q)
    <3>1. 1 = 0 <=> para = 1
      BY <2>2
    <3>2. Boundary(1) = b
      BY DEF Boundary
    <3>3. Cut!Original(para) = o \o (Boundary(1) \o q)
      BY <1>1, <1>2, <1>3, <3>1, OriginalParts
    <3>4. QED
      BY <1>1, <1>2, <1>3, <3>2, <3>3, OriginalParts
  <2>4. /\ SomeSeq(j) /\ SomeSeq(currentSep) /\ SomeSeq(current)
        /\ o = j \o (currentSep \o current)
    BY <1>1, <1>2, <2>2, GlueParts
  <2>5. SomeSeq(b) /\ b \in Seq(AllTokens)
    <3>1. Cut!Break \in AllTokens
      BY DEF AllTokens
    <3>2. QED
      BY <3>1, BoundaryIsSeq
  <2> HIDE DEF j, b, q, o
  <2>6. current' = current \o (b \o q)
    BY <1>2, <2>3, <2>4, <2>5, ConcatAssoc DEF b, q
  <2>7. current' \in Seq(AllTokens) /\ current' # <<>>
    <3>1. SomeSeq(b \o q) /\ b \o q # <<>>
      BY <2>3, <2>5, NotEmpty, ConcatSeq
    <3>2. current' # <<>>
      BY <2>4, <2>6, <3>1, NotEmpty
    <3>3. b \o q \in Seq(AllTokens)
      BY <2>3, <2>5
    <3>4. QED
      BY <1>1, <2>6, <3>2, <3>3
  <2>8. Glue(chunks', currentSep', current') = j \o (currentSep \o (current \o (b \o q)))
    BY <1>1, <1>2, <2>6, <2>7, GlueParts DEF j
  <2>9. SomeSeq(b \o q)
    BY <2>3, <2>5, ConcatSeq
  <2>10. Glue(chunks', currentSep', current') = o \o (b \o q)
    <3>1. \A d : SomeSeq(d) =>
            j \o (currentSep \o (current \o d)) = (j \o (currentSep \o current)) \o d
      BY <2>4, Regroup, SMTT(20)
    <3>2. QED
      BY <2>4, <2>8, <2>9, <3>1
  <2>11. para' - 1 = para /\ para' # 1
    BY <1>1, <1>2
  <2>12. QED
    BY <2>3, <2>7, <2>10, <2>11 DEF AtParagraph
<1>4. QED
  BY <1>1, <1>2, <1>3, JoinNext

LEMMA JoinFlush == ASSUME LongInv, CutTyping, JoinInv, CutText, Cut!Flush PROVE JoinInv'
<1> DEFINE ChunkSet == [text : Seq(AllTokens), join : {<<>>, <<Cut!Break>>}]
           q == Cut!Paragraph(para)
           o == Cut!Original(para - 1)
           sep == Cut!SepAfter(chunks')
<1>1. /\ UNCHANGED <<job, text>> /\ text \in Texts /\ job.texts # <<>>
      /\ chunks \in Seq(ChunkSet)
      /\ current \in Seq(AllTokens) /\ currentSep \in {<<>>, <<Cut!Break>>}
      /\ Len(text) \in Nat /\ para \in 1 .. Len(text) + 1
  BY CutContext
<1>2. /\ para \in 1 .. Len(text) /\ step = "paragraphs"
      /\ chunks' = IF Cut!TooMuch
                   THEN Append(chunks, Cut!Chunk(current, currentSep)) ELSE chunks
      /\ Cut!TooMuch => current # <<>>
      /\ ~Cut!TooMuch => current = <<>>
  BY <1>1 DEF Cut!Flush, Cut!TooMuch
<1>3. /\ Cut!Oversized =>
           /\ step' = "sentences" /\ sentence' = 1 /\ before' = Len(chunks')
           /\ current' = <<>> /\ para' = para
      /\ ~Cut!Oversized =>
           /\ step' = step /\ current' = q /\ currentSep' = sep /\ para' = para + 1
  BY DEF Cut!Flush
<1>4. ASSUME AllWords
      PROVE  /\ chunks' \in Seq(ChunkSet) /\ Cut!Joined(chunks') = o
             /\ chunks' = <<>> <=> para = 1
  <2>1. AtParagraph(chunks, currentSep, current, para)
    BY <1>1, <1>2, <1>4 DEF JoinInv
  <2>2. CASE Cut!TooMuch
    <3>1. chunks' = Append(chunks, Cut!Chunk(current, currentSep)) /\ current # <<>>
      BY <1>2, <2>2
    <3>2. Cut!Joined(chunks') = Glue(chunks, currentSep, current)
      BY <1>1, <3>1, GlueParts
    <3>3. Cut!Chunk(current, currentSep) \in ChunkSet
      BY <1>1, ChunkTypes
    <3>4. chunks' \in Seq(ChunkSet) /\ chunks' # <<>>
      <4> HIDE DEF ChunkSet
      <4>1. QED
        BY <1>1, <3>1, <3>3
    <3>5. QED
      BY <2>1, <3>1, <3>2, <3>4 DEF AtParagraph
  <2>3. CASE ~Cut!TooMuch
    <3>1. chunks' = chunks /\ current = <<>>
      BY <1>2, <2>3
    <3>2. para = 1 /\ chunks = <<>>
      BY <2>1, <3>1 DEF AtParagraph
    <3>3. o = <<>> /\ Cut!Joined(<<>>) = <<>>
      BY <1>1, <3>2, OriginalStep, JoinedNone
    <3>4. QED
      BY <1>1, <3>1, <3>2, <3>3
  <2>4. QED
    BY <2>2, <2>3
<1>5. ASSUME AllWords, Cut!Oversized
      PROVE  InParagraph(chunks', before', current', para', sentence')
  <2>1. SomeSeq(o) /\ o \o <<>> = o
    BY <1>1, <1>2, <1>5, OriginalParts, EmptyConcat
  <2>2. Len(chunks') = 0 <=> chunks' = <<>>
    <3> HIDE DEF ChunkSet
    <3>1. chunks' \in Seq(ChunkSet)
      BY <1>4, <1>5
    <3>2. QED
      BY <3>1
  <2>3. before' = 0 <=> para = 1
    BY <1>3, <1>4, <1>5, <2>2
  <2>4. /\ sentence' = 1 /\ before' = Len(chunks') /\ current' = <<>> /\ para' = para
        /\ Cut!Joined(chunks') = o
    BY <1>3, <1>4, <1>5
  <2>5. \A b : Glue(chunks', b, <<>>) = o
    BY <2>1, <2>4 DEF Glue
  <2> HIDE DEF o
  <2>6. QED
    BY <2>1, <2>3, <2>4, <2>5 DEF InParagraph, o
<1>6. ASSUME AllWords, ~Cut!Oversized
      PROVE  AtParagraph(chunks', currentSep', current', para')
  <2>1. /\ q \in Seq(AllTokens) /\ q # <<>>
        /\ \A b : (b = 0 <=> para = 1) => Cut!Original(para) = o \o (Boundary(b) \o q)
    BY <1>1, <1>2, <1>6, OriginalParts
  <2>2. sep = Boundary(IF para = 1 THEN 0 ELSE 1)
    BY <1>4, <1>6 DEF Boundary, Cut!SepAfter
  <2>3. Cut!Original(para) = o \o (sep \o q)
    <3>1. (IF para = 1 THEN 0 ELSE 1) = 0 <=> para = 1
      OBVIOUS
    <3> HIDE DEF q, o, sep
    <3>2. QED
      BY <2>1, <2>2, <3>1
  <2>4. sep \in {<<>>, <<Cut!Break>>}
    BY SeparatorTypes
  <2>5. chunks' \in Seq(ChunkSet) /\ Cut!Joined(chunks') = o
    BY <1>4, <1>6
  <2>6. current' = q /\ currentSep' = sep /\ para' = para + 1
    BY <1>3, <1>6
  <2> HIDE DEF q, o, sep
  <2>7. Glue(chunks', sep, q) = Cut!Joined(chunks') \o (sep \o q)
    BY <2>1, <2>4, <2>5, GlueParts
  <2>8. para' - 1 = para /\ para' # 1
    BY <1>1, <1>2, <2>6
  <2>9. QED
    BY <2>1, <2>3, <2>5, <2>6, <2>7, <2>8 DEF AtParagraph
<1>7. QED
  BY <1>1, <1>2, <1>3, <1>5, <1>6, JoinNext

LEMMA JoinSentences ==
  ASSUME LongInv, CutTyping, JoinInv, CutText, Cut!NextSentence
  PROVE  JoinInv'
<1> DEFINE ChunkSet == [text : Seq(AllTokens), join : {<<>>, <<Cut!Break>>}]
           o == Cut!Original(para - 1)
           b == Boundary(before)
           sep == IF Len(chunks) = before THEN Boundary(before) ELSE <<>>
           shown == <<<<para, sentence>>>>
           done == Prefix(para, sentence - 1)
<1>1. /\ UNCHANGED <<job, text>> /\ text \in Texts /\ job.texts # <<>>
      /\ chunks \in Seq(ChunkSet)
      /\ current \in Seq(AllTokens) /\ Len(chunks) \in Nat /\ before \in Nat
      /\ Len(text) \in Nat /\ para \in 1 .. Len(text) + 1
  BY CutContext
<1>2. /\ step = "sentences" /\ step' = "sentences"
      /\ para \in 1 .. Len(text) /\ sentence \in 1 .. Len(text[para])
      /\ UNCHANGED <<para, before>> /\ sentence' = sentence + 1
      /\ sentence \in Nat \ {0} /\ para \in Nat
  BY CutContext DEF Cut!NextSentence
<1>3. ASSUME AllWords
      PROVE  InParagraph(chunks', before', current', para', sentence')
  <2>1. InParagraph(chunks, before, current, para, sentence)
    BY <1>1, <1>2, <1>3 DEF JoinInv
  <2>2. /\ Glue(chunks, sep, current) = o \o (IF sentence = 1 THEN <<>> ELSE b \o done)
        /\ IF sentence = 1 THEN Len(chunks) = before /\ current = <<>>
           ELSE Len(chunks) >= before /\ current # <<>>
        /\ before = 0 <=> para = 1
    BY <2>1 DEF InParagraph
  <2>3. text[para][sentence].words
    BY <1>2, <1>3 DEF AllWords
  <2>4. \/ /\ Cut!SentenceFull(text[para][sentence])
           /\ chunks' = Append(chunks, Cut!Chunk(current, Cut!SentenceSep))
           /\ current' = shown
        \/ /\ ~Cut!SentenceFull(text[para][sentence])
           /\ current' = Append(current, <<para, sentence>>) /\ chunks' = chunks
    BY <2>3 DEF Cut!NextSentence
  <2>5. Cut!SentenceSep = sep
    BY DEF Cut!SentenceSep, Cut!ParaSep, Boundary
  <2>6. sep \in {<<>>, <<Cut!Break>>} /\ b \in {<<>>, <<Cut!Break>>}
    BY DEF Boundary
  <2>7. SomeSeq(o)
    BY <1>1, <1>2, <1>3, OriginalParts
  <2>8. /\ SomeSeq(done) /\ SomeSeq(shown)
        /\ Prefix(para, sentence) = done \o shown
        /\ Prefix(para, 1) = <<<<para, 1>>>>
    BY <1>2, PrefixGrows
  <2>9. <<para, sentence>> \in AllTokens
    BY <1>1, <1>2, ParagraphTokens
  <2>10. SomeSeq(b) /\ SomeSeq(sep)
    BY <2>6, BoundaryIsSeq
  <2>11. shown \in Seq(AllTokens) /\ shown # <<>>
    BY <2>9
  <2>12. o \o (b \o Prefix(para, sentence)) = (o \o (b \o done)) \o shown
    <3> HIDE DEF o, b, done, shown
    <3>1. o \o (b \o (done \o shown)) = (o \o (b \o done)) \o shown
      <4>1. SomeSeq(o) /\ SomeSeq(b) /\ SomeSeq(done) /\ SomeSeq(shown)
        BY <2>7, <2>8, <2>10
      <4>2. b \o (done \o shown) = (b \o done) \o shown
        BY <4>1, ConcatAssoc
      <4>3. SomeSeq(b \o done)
        BY <4>1, ConcatSeq
      <4>4. o \o ((b \o done) \o shown) = (o \o (b \o done)) \o shown
        BY <4>1, <4>3, ConcatAssoc, SMTT(20)
      <4>5. QED
        BY <4>2, <4>4
    <3>2. QED
      BY <2>8, <3>1
  <2>13. current' # <<>> /\ Len(chunks') \in Nat /\ Len(chunks') >= before
         /\ Glue(chunks', IF Len(chunks') = before THEN b ELSE <<>>, current')
              = o \o (b \o Prefix(para, sentence))
    <3>1. CASE Cut!SentenceFull(text[para][sentence])
      <4>1. chunks' = Append(chunks, Cut!Chunk(current, sep)) /\ current' = shown
        BY <2>4, <2>5, <3>1
      <4>2. current # <<>> /\ sentence # 1 /\ Len(chunks) >= before
        BY <2>2, <3>1 DEF Cut!SentenceFull
      <4>3. Cut!Joined(chunks') = o \o (b \o done)
        BY <1>1, <2>2, <2>6, <4>1, <4>2, GlueParts
      <4>4. Cut!Chunk(current, sep) \in ChunkSet
        BY <1>1, <2>6, ChunkTypes
      <4> HIDE DEF ChunkSet, sep, shown, o, b, done
      <4>5. chunks' \in Seq(ChunkSet) /\ Len(chunks') = Len(chunks) + 1
        BY <1>1, <4>1, <4>4
      <4>6. Glue(chunks', <<>>, shown) = Cut!Joined(chunks') \o (<<>> \o shown)
        BY <2>11, <4>5, GlueParts DEF ChunkSet
      <4>7. <<>> \o shown = shown
        BY <2>8, EmptyConcat
      <4>8. Len(chunks') # before /\ Len(chunks') \in Nat /\ Len(chunks') >= before
        BY <1>1, <4>2, <4>5
      <4>9. QED
        BY <2>11, <2>12, <4>1, <4>3, <4>6, <4>7, <4>8
    <3>2. CASE ~Cut!SentenceFull(text[para][sentence])
      <4>1. chunks' = chunks /\ current' = Append(current, <<para, sentence>>)
        BY <2>4, <3>2
      <4>2. current' = current \o shown
        <5>1. \A x \in AllTokens : Append(current, x) = current \o <<x>>
          BY <1>1
        <5>2. QED
          BY <2>9, <4>1, <5>1
      <4>3. SomeSeq(current) /\ SomeSeq(Cut!Joined(chunks))
        BY <1>1, <2>6, GlueParts
      <4> HIDE DEF ChunkSet, sep, shown, o, b, done
      <4>4. current' \in Seq(AllTokens) /\ current' # <<>>
        <5>1. current' # <<>>
          BY <2>8, <2>11, <4>2, <4>3, NotEmpty
        <5>2. QED
          BY <1>1, <2>11, <4>2, <5>1
      <4>5. Glue(chunks', sep, current') = Cut!Joined(chunks) \o (sep \o (current \o shown))
        <5>1. current' # <<>>
                => Glue(chunks, sep, current') = Cut!Joined(chunks) \o (sep \o current')
          BY <1>1, <2>6, <4>4, GlueParts DEF ChunkSet
        <5>2. QED
          BY <4>1, <4>2, <4>4, <5>1
      <4>6. sep = IF Len(chunks') = before THEN b ELSE <<>>
        BY <4>1 DEF sep, b
      <4>7. Len(chunks') \in Nat /\ Len(chunks') >= before
        BY <1>1, <2>2, <4>1
      <4>8. Cut!Joined(chunks) \o (sep \o (current \o shown))
              = o \o (b \o Prefix(para, sentence))
        <5>1. CASE sentence = 1
          <6>1. current = <<>> /\ sep = b
            BY <2>2, <5>1 DEF sep, b
          <6>2. Cut!Joined(chunks) = o
            <7>1. SomeSeq(o) /\ o \o <<>> = o
              BY <2>7, EmptyConcat
            <7>2. Glue(chunks, sep, current) = Cut!Joined(chunks)
              BY <1>1, <2>6, <6>1, GlueParts DEF ChunkSet
            <7>3. QED
              BY <2>2, <5>1, <7>1, <7>2
          <6>3. current \o shown = shown /\ Prefix(para, sentence) = shown
            <7>1. <<>> \o shown = shown
              BY <2>8, EmptyConcat
            <7>2. Prefix(para, sentence) = shown
              BY <2>8, <5>1 DEF shown
            <7>3. QED
              BY <6>1, <7>1, <7>2
          <6>4. QED
            BY <6>1, <6>2, <6>3
        <5>2. CASE sentence # 1
          <6>1. Glue(chunks, sep, current) = Cut!Joined(chunks) \o (sep \o current)
            BY <1>1, <2>2, <2>6, <5>2, GlueParts DEF ChunkSet
          <6>2. Cut!Joined(chunks) \o (sep \o (current \o shown))
                  = (Cut!Joined(chunks) \o (sep \o current)) \o shown
            <7> DEFINE j == Cut!Joined(chunks)
            <7>1. SomeSeq(j) /\ SomeSeq(sep) /\ SomeSeq(current) /\ SomeSeq(shown)
              BY <2>8, <2>10, <4>3
            <7> HIDE DEF j
            <7>2. sep \o (current \o shown) = (sep \o current) \o shown
              BY <7>1, ConcatAssoc
            <7>3. SomeSeq(sep \o current)
              BY <7>1, ConcatSeq
            <7>4. j \o ((sep \o current) \o shown) = (j \o (sep \o current)) \o shown
              BY <7>1, <7>3, ConcatAssoc
            <7>5. QED
              BY <7>2, <7>4 DEF j
          <6>3. QED
            BY <2>2, <2>12, <5>2, <6>1, <6>2
        <5>3. QED
          BY <5>1, <5>2
      <4>9. QED
        BY <4>4, <4>5, <4>6, <4>7, <4>8
    <3>3. QED
      BY <3>1, <3>2
  <2>14. sentence' # 1 /\ sentence' - 1 = sentence
    BY <1>2
  <2>15. QED
    BY <1>2, <2>2, <2>13, <2>14 DEF InParagraph
<1>4. QED
  BY <1>1, <1>2, <1>3, JoinNext

LEMMA JoinDone ==
  ASSUME LongInv, CutTyping, JoinInv, CutText, Cut!SentencesDone
  PROVE  JoinInv'
<1>1. /\ UNCHANGED <<job, text>> /\ text \in Texts /\ job.texts # <<>>
      /\ step = "sentences" /\ step' = "paragraphs" /\ para \in 1 .. Len(text)
      /\ sentence \in 1 .. Len(text[para]) + 1 /\ Len(text[para]) \in Nat
      /\ sentence = Len(text[para]) + 1
      /\ para' = para + 1 /\ UNCHANGED <<chunks, current>>
      /\ currentSep' = IF current # <<>> THEN Cut!SentenceSep ELSE currentSep
  BY CutContext DEF Cut!SentencesDone
<1>2. ASSUME AllWords
      PROVE  AtParagraph(chunks', currentSep', current', para')
  <2> DEFINE o == Cut!Original(para - 1)
  <2>1. InParagraph(chunks, before, current, para, sentence)
    BY <1>1, <1>2 DEF JoinInv
  <2>2. /\ Len(text[para]) # 0
        /\ \A b : (b = 0 <=> para = 1) =>
             Cut!Original(para) = o \o (Boundary(b) \o Cut!Paragraph(para))
    BY <1>1, <1>2, OriginalParts
  <2>3. sentence # 1 /\ sentence - 1 = Len(text[para])
    BY <1>1, <2>2
  <2>4. Prefix(para, sentence - 1) = Cut!Paragraph(para)
    BY <1>1, <2>3, ParagraphTokens
  <2>5. /\ Glue(chunks, IF Len(chunks) = before THEN Boundary(before) ELSE <<>>, current)
             = o \o (Boundary(before) \o Cut!Paragraph(para))
        /\ current # <<>>
        /\ before = 0 <=> para = 1
    BY <2>1, <2>3, <2>4 DEF InParagraph
  <2>6. currentSep' = IF Len(chunks) = before THEN Boundary(before) ELSE <<>>
    BY <1>1, <2>5 DEF Cut!SentenceSep, Cut!ParaSep, Boundary
  <2>7. Cut!Original(para) = o \o (Boundary(before) \o Cut!Paragraph(para))
    BY <2>2, <2>5
  <2>8. para' - 1 = para /\ para' # 1
    BY <1>1
  <2> HIDE DEF o
  <2>9. QED
    BY <1>1, <2>5, <2>6, <2>7, <2>8 DEF AtParagraph
<1>3. QED
  BY <1>1, <1>2, JoinNext

LEMMA JoinFinish == ASSUME LongInv, CutTyping, JoinInv, CutText, Cut!Finish PROVE JoinInv'
<1>1. /\ UNCHANGED <<job, text>> /\ text \in Texts /\ job.texts # <<>>
      /\ chunks \in Seq([text : Seq(AllTokens), join : {<<>>, <<Cut!Break>>}])
      /\ current \in Seq(AllTokens) /\ currentSep \in {<<>>, <<Cut!Break>>}
      /\ Len(text) \in Nat \ {0} /\ para = Len(text) + 1
      /\ step = "paragraphs" /\ step' = "done"
      /\ current # <<>> => chunks' = Append(chunks, Cut!Chunk(current, currentSep))
  BY CutContext DEF Cut!Finish
<1>2. ASSUME AllWords
      PROVE  Cut!Joined(chunks') = Cut!Whole
  <2>1. AtParagraph(chunks, currentSep, current, para)
    BY <1>1, <1>2 DEF JoinInv
  <2>2. para # 1 /\ para - 1 = Len(text)
    BY <1>1
  <2>3. current # <<>> /\ Glue(chunks, currentSep, current) = Cut!Original(Len(text))
    BY <2>1, <2>2 DEF AtParagraph
  <2>4. Cut!Joined(chunks') = Glue(chunks, currentSep, current)
    <3>1. chunks' = Append(chunks, Cut!Chunk(current, currentSep)) /\ current # <<>>
      BY <1>1, <2>3
    <3>2. Cut!Joined(Append(chunks, Cut!Chunk(current, currentSep)))
            = Glue(chunks, currentSep, current)
      BY <1>1, <3>1, GlueParts
    <3>3. QED
      BY <3>1, <3>2
  <2>5. QED
    BY <1>1, <2>3, <2>4, WholeTokens
<1>3. QED
  BY <1>1, <1>2, JoinNext

LEMMA JoinKeeps == ASSUME LongInv, CutTyping, JoinInv, CutText PROVE JoinInv'
  BY JoinBegin, JoinPack, JoinFlush, JoinSentences, JoinDone, JoinFinish DEF CutText, Cut!Next

-----------------------------------------------------------------------------

CuttingInv == CutTyping /\ SizesInv /\ JoinInv

\* A text of a batch that is not cut yet.
FreshText == text \in Texts /\ Cut!Start /\ job.texts # <<>>

LEMMA CutStarts == FreshText => CuttingInv
<1> SUFFICES ASSUME text \in Texts, Cut!Start, job.texts # <<>> PROVE CuttingInv
  BY DEF FreshText
<1>1. /\ step = "start" /\ para = 1 /\ sentence = 0 /\ before = 0
      /\ chunks = <<>> /\ current = <<>> /\ currentSep = <<>>
  BY DEF Cut!Start
<1>2. CutTyping
  <2>1. Len(text) \in Nat \ {0}
    BY TextShape
  <2>2. chunks \in Seq([text : Seq(AllTokens), join : {<<>>, <<Cut!Break>>}])
        /\ current \in Seq(AllTokens)
    BY <1>1
  <2>3. para \in 1 .. Len(text) + 1
    BY <1>1, <2>1
  <2>4. QED
    BY <1>1, <2>2, <2>3 DEF CutTyping
<1>3. SizesInv
  <2>1. \A c \in 1 .. Len(chunks) : FALSE
    BY <1>1
  <2>2. Small(current)
    BY <1>1, EmptyIsSmall
  <2>3. NoWordsYet
    BY <1>1 DEF NoWordsYet
  <2>4. QED
    BY <2>1, <2>2, <2>3 DEF SizesInv
<1>4. JoinInv
  BY <1>1 DEF JoinInv
<1>5. QED
  BY <1>2, <1>3, <1>4 DEF CuttingInv

LEMMA InitCutting == LongInit => CuttingInv
<1> SUFFICES ASSUME LongInit PROVE CuttingInv
  OBVIOUS
<1>1. job.texts \in Seq(Texts) /\ text = job.texts[1] /\ Cut!Start
  BY JobsAreBatches DEF LongInit, BatchInit, Init
<1>2. CASE job.texts = <<>>
  BY <1>1, <1>2 DEF CuttingInv, CutTyping, SizesInv, JoinInv, Cut!Start
<1>3. CASE job.texts # <<>>
  <2>1. text \in Texts
    BY <1>1, <1>3
  <2>2. QED
    BY <1>1, <1>3, <2>1, CutStarts DEF FreshText
<1>4. QED
  BY <1>2, <1>3

LEMMA CuttingStays ==
  ASSUME CuttingInv, UNCHANGED <<job, cutVars>>
  PROVE  CuttingInv'
<1> USE DEF cutVars
<1>1. AllTokens' = AllTokens /\ Cut!Break' = Cut!Break
  BY DEF AllTokens, Sentences, Cut!Break
<1>2. CutTyping'
  BY <1>1 DEF CuttingInv, CutTyping
<1>3. SizesInv'
  <2>1. \A q : Small(q)' = Small(q)
    BY DEF Small, Cut!Size, Cut!SizeIn, Cut!Bytes, Cut!Break
  <2>2. Wordless' = Wordless
    <3>1. Cut!Whole' = Cut!Whole
      BY OriginalStays
    <3>2. \A t : Cut!HasWords(t)' = Cut!HasWords(t)
      BY DEF Cut!HasWords, Cut!Break
    <3>3. QED
      BY <3>1, <3>2 DEF Wordless, Cut!ToSet
  <2>3. Small(current)' = Small(current)
    BY DEF Small, Cut!Size, Cut!SizeIn, Cut!Bytes, Cut!Break
  <2>4. ASSUME NEW c \in 1 .. Len(chunks)
        PROVE  Small(chunks[c].text)' = Small(chunks[c].text)
    BY DEF Small, Cut!Size, Cut!SizeIn, Cut!Bytes, Cut!Break
  <2>5. NoWordsYet' = NoWordsYet
    BY DEF NoWordsYet
  <2>6. QED
    BY <2>2, <2>3, <2>4, <2>5 DEF CuttingInv, SizesInv
<1>4. JoinInv'
  <2>1. AllWords' = AllWords
    BY DEF AllWords
  <2>2. Cut!Original(para - 1)' = Cut!Original(para - 1) /\ Cut!Whole' = Cut!Whole
    BY DEF Cut!Original, Cut!Whole, Cut!Paragraph, Cut!ParagraphOf, Cut!Break, Cut!FlattenSeq
  <2>3. Cut!Joined(chunks)' = Cut!Joined(chunks)
    BY DEF Cut!Joined, Cut!FlattenSeq
  <2>4. AtParagraph(chunks, currentSep, current, para)'
          = AtParagraph(chunks, currentSep, current, para)
    BY <2>2, <2>3 DEF AtParagraph, Glue
  <2>5. InParagraph(chunks, before, current, para, sentence)'
          = InParagraph(chunks, before, current, para, sentence)
    <3>1. Glue(chunks, IF Len(chunks) = before THEN Boundary(before) ELSE <<>>, current)'
            = Glue(chunks, IF Len(chunks) = before THEN Boundary(before) ELSE <<>>, current)
      BY <1>1, <2>3 DEF Boundary, Glue
    <3>2. (Boundary(before) \o Prefix(para, sentence - 1))'
            = Boundary(before) \o Prefix(para, sentence - 1)
      BY <1>1 DEF Boundary, Prefix
    <3>3. QED
      BY <2>2, <3>1, <3>2 DEF InParagraph
  <2>6. QED
    BY <2>1, <2>2, <2>3, <2>4, <2>5 DEF CuttingInv, JoinInv
<1>5. QED
  BY <1>2, <1>3, <1>4 DEF CuttingInv

\* The step that collects the chunks of a text starts with the next one.
LEMMA CollectCutting ==
  LongInv /\ Collect => UNCHANGED <<job, cutVars>> \/ FreshText'
<1> SUFFICES ASSUME LongInv, Collect, ~ UNCHANGED <<job, cutVars>> PROVE FreshText'
  OBVIOUS
<1>1. job' = job
  BY DEF Collect, AddText
<1>2. at < Len(job.texts)
  BY <1>1 DEF Collect
<1>3. job.texts \in Seq(Texts) /\ at \in Nat \ {0}
  BY JobsAreBatches DEF LongInv, PiecesInv
<1>4. at <= Len(job.texts) /\ at + 1 \in 1 .. Len(job.texts)
  BY <1>2, <1>3
<1>5. job.texts # <<>> /\ job.texts[at + 1] \in Texts
  BY <1>3, <1>4, BatchHasTexts
<1>6. QED
  BY <1>1, <1>2, <1>5 DEF Collect, FreshText, Cut!Start

LEMMA NextCutting ==
  LongInv /\ CuttingInv /\ [LongNext]_<<vars, cutVars>> => CuttingInv' \/ FreshText'
<1> SUFFICES ASSUME LongInv, CuttingInv, [LongNext]_<<vars, cutVars>>, ~FreshText'
             PROVE  CuttingInv'
  OBVIOUS
<1>1. CASE UNCHANGED <<vars, cutVars>>
  BY <1>1, CuttingStays DEF vars, jobVars
<1>2. CASE CutText
  BY <1>2, CutTypingKeeps, SizesKeep, JoinKeeps DEF CuttingInv
<1>3. CASE Collect
  BY <1>3, CollectCutting, CuttingStays
<1>4. CASE Rest
  <2>1. UNCHANGED job
    BY <1>4 DEF Rest, AfterChunking, Build, Dispatch, ReplyOk, ReplyError, Place, MergeFirst,
                MergeNext, Merged, Terminated, vars, jobVars, Chunked
  <2>2. QED
    BY <1>4, <2>1, CuttingStays DEF Rest
<1>5. QED
  BY <1>1, <1>2, <1>3, <1>4 DEF LongNext

LEMMA AlwaysCutting == LongSpec => []CuttingInv
<1>1. LongInv /\ CuttingInv /\ [LongNext]_<<vars, cutVars>> => CuttingInv'
  BY NextCutting, CutStarts, PTL
<1>2. QED
  BY <1>1, AlwaysLong, InitCutting, PTL DEF LongSpec

\* A chunk exceeds both limits only if it is a single sentence, or the whole text
\* has no words: a paragraph joins the accumulator, and a sentence the chunk, only
\* as long as the limit holds, for every text and all limits (chunking.rs:43 and 89).
THEOREM ChunksWithinLimits == LongSpec => []ChunksBounded
<1>1. CuttingInv => ChunksBounded
  <2> SUFFICES ASSUME CuttingInv PROVE ChunksBounded
    OBVIOUS
  <2>1. CASE job.texts = <<>>
    <3>1. chunks = <<>>
      BY <2>1 DEF CuttingInv, CutTyping
    <3>2. QED
      BY <3>1 DEF ChunksBounded, Cut!ChunksBounded
  <2>2. CASE job.texts # <<>>
    BY <2>2 DEF CuttingInv, SizesInv, Small, Wordless, ChunksBounded, Cut!ChunksBounded
  <2>3. QED
    BY <2>1, <2>2
<1>2. QED
  BY <1>1, AlwaysCutting, PTL

\* The chunks of a text, joined with their separators, are the text: nothing is
\* lost, doubled or moved, and every paragraph break is where it was, if no
\* paragraph is empty and every sentence has words, for every text and all limits
\* (the separators: chunking.rs:44-60 and 90-92).
THEOREM NothingLost == LongSpec => []JoinedExactly
<1>1. CuttingInv => JoinedExactly
  <2> SUFFICES ASSUME CuttingInv PROVE JoinedExactly
    OBVIOUS
  <2>1. CASE job.texts = <<>>
    BY <2>1 DEF CuttingInv, CutTyping, JoinedExactly, Cut!JoinedExactly
  <2>2. CASE job.texts # <<>>
    BY <2>2 DEF CuttingInv, JoinInv, AllWords, JoinedExactly, Cut!JoinedExactly
  <2>3. QED
    BY <2>1, <2>2
<1>2. QED
  BY <1>1, AlwaysCutting, PTL

-----------------------------------------------------------------------------

LEMMA MergedInPlace == LongInv => PartsInPlace
<1> SUFFICES ASSUME LongInv, phase = "done" PROVE PartsInPlace
  BY DEF PartsInPlace
<1>1. at = Len(pieces) + 1 /\ Len(pieces) \in Nat
  BY AppendSeq DEF LongInv, LoopInv, PiecesInv
<1>2. Len(results) = Len(job.texts)
  BY <1>1 DEF LongInv, MergeInv, PiecesInv
<1>3. \A i \in 1 .. Len(results) : \A l \in DOMAIN results[i].translations :
        InPlace(i, results[i].translations[l])
  BY DEF LongInv, MergeInv, PartsSoFar
<1>4. QED
  BY <1>2, <1>3 DEF PartsInPlace

\* Every text of a batch has its own result, made of its own chunks in order,
\* however the texts are cut and in whatever order the replies arrive
\* (chunk_map, work_indices and the reply's index: engine.rs:262, 431 and 478).
THEOREM PartsHold == LongSpec => []PartsInPlace
  BY AlwaysLong, MergedInPlace, PTL

LEMMA ErrorsExplained == LongInv => ErrorsHaveCauses
<1> SUFFICES ASSUME LongInv, phase = "done" PROVE ErrorsHaveCauses
  BY DEF ErrorsHaveCauses
<1>1. \A i \in 1 .. Len(results) : Explained(i, results[i].errors)
  BY DEF LongInv, MergeInv
<1>2. QED
  BY <1>1 DEF Explained, Failed, ErrorsHaveCauses

\* A text of a batch has an error in a language only if one of its own chunks
\* failed in that language, or its own language is unknown ("other texts in the
\* same batch are unaffected", ENGINE.md:79).
THEOREM ErrorsAreLocal == LongSpec => []ErrorsHaveCauses
  BY AlwaysLong, ErrorsExplained, PTL

-----------------------------------------------------------------------------
(* Reading tokens *)

\* f reads the first n tokens of q, as the function in Reading does.
Reads(f, x, s, q, n) ==
  f = [k \in 0 .. n |-> IF k = 0 THEN s ELSE ReadToken(x, f[k - 1], q[k])]

LEMMA ReadsAt ==
  ASSUME NEW n \in Nat, NEW x, NEW s, NEW q, NEW f, Reads(f, x, s, q, n), NEW k \in 0 .. n
  PROVE  f[k] = IF k = 0 THEN s ELSE ReadToken(x, f[k - 1], q[k])
<1> DEFINE body == [j \in 0 .. n |-> IF j = 0 THEN s ELSE ReadToken(x, f[j - 1], q[j])]
<1>1. body[k] = IF k = 0 THEN s ELSE ReadToken(x, f[k - 1], q[k])
  OBVIOUS
<1>2. f = body
  BY DEF Reads
<1> HIDE DEF body
<1>3. QED
  BY <1>1, <1>2

LEMMA ReadsExists ==
  ASSUME NEW n \in Nat, NEW x, NEW s, NEW q
  PROVE  \E f : Reads(f, x, s, q, n)
<1> DEFINE T == {m \in Nat : ~ \E f : Reads(f, x, s, q, m)}
<1>1. SUFFICES ASSUME T # {} PROVE FALSE
  OBVIOUS
<1>2. PICK m \in T : \A y \in T : m <= y
  BY <1>1, HasLeast
<1>3. m # 0
  <2> DEFINE g == [k \in 0 .. 0 |-> s]
  <2>1. g = [k \in 0 .. 0 |-> IF k = 0 THEN s ELSE ReadToken(x, g[k - 1], q[k])]
    OBVIOUS
  <2> HIDE DEF g
  <2>2. Reads(g, x, s, q, 0)
    BY <2>1 DEF Reads
  <2>3. QED
    BY <2>2
<1>4. m - 1 \in Nat /\ m - 1 \notin T
  BY <1>2, <1>3
<1>5. PICK f : Reads(f, x, s, q, m - 1)
  BY <1>4
<1> DEFINE g == [k \in 0 .. m |-> IF k = 0 THEN s ELSE ReadToken(x, f[k - 1], q[k])]
<1>6. ASSUME NEW k \in 0 .. m - 1 PROVE g[k] = f[k]
  <2>1. f[k] = IF k = 0 THEN s ELSE ReadToken(x, f[k - 1], q[k])
    BY <1>4, <1>5, ReadsAt
  <2>2. k \in 0 .. m
    BY <1>3
  <2>3. QED
    BY <2>1, <2>2
<1>7. ASSUME NEW k \in 0 .. m, k # 0 PROVE g[k - 1] = f[k - 1]
  <2>1. k - 1 \in 0 .. m - 1
    BY <1>2, <1>7
  <2> HIDE DEF g
  <2>2. QED
    BY <1>6, <2>1
<1>8. \A k \in 0 .. m : (IF k = 0 THEN s ELSE ReadToken(x, f[k - 1], q[k]))
                       = (IF k = 0 THEN s ELSE ReadToken(x, g[k - 1], q[k]))
  BY <1>7
<1>9. Reads(g, x, s, q, m)
  <2>1. g = [k \in 0 .. m |-> IF k = 0 THEN s ELSE ReadToken(x, g[k - 1], q[k])]
    BY <1>8, Zenon
  <2> HIDE DEF g
  <2>2. QED
    BY <2>1 DEF Reads
<1>10. QED
  BY <1>2, <1>9

\* f reads q from s on.
Follows(f, x, s, q) ==
  /\ Reading(x, s, q) = f[Len(q)] /\ f[0] = s
  /\ \A k \in 1 .. Len(q) : f[k] = ReadToken(x, f[k - 1], q[k])

LEMMA ReadingFollows ==
  ASSUME NEW x, NEW s, NEW q, SomeSeq(q)
  PROVE  Len(q) \in Nat /\ \E f : Follows(f, x, s, q)
<1> DEFINE n == Len(q)
           f == CHOOSE f : f = [k \in 0 .. n |-> IF k = 0 THEN s
                                                 ELSE ReadToken(x, f[k - 1], q[k])]
<1>1. n \in Nat
  BY DEF SomeSeq
<1>2. Reading(x, s, q) = f[n]
  BY DEF Reading
<1>3. Reads(f, x, s, q, n)
  <2>1. \E g : Reads(g, x, s, q, n)
    BY <1>1, ReadsExists
  <2>2. QED
    BY <2>1 DEF Reads
<1> HIDE DEF f
<1>4. f[0] = s /\ \A k \in 1 .. n : f[k] = ReadToken(x, f[k - 1], q[k])
  BY <1>1, <1>3, ReadsAt
<1>5. QED
  BY <1>1, <1>2, <1>4 DEF Follows

LEMMA ReadNone == ASSUME NEW x, NEW s PROVE Reading(x, s, <<>>) = s
<1>1. PICK f : Follows(f, x, s, <<>>)
  BY EmptyIsSeq, ReadingFollows
<1>2. Len(<<>>) = 0
  OBVIOUS
<1>3. QED
  BY <1>1, <1>2 DEF Follows

LEMMA ReadOne ==
  ASSUME NEW x, NEW s, NEW t
  PROVE  SomeSeq(<<t>>) /\ Reading(x, s, <<t>>) = ReadToken(x, s, t)
<1> DEFINE q == <<t>>
<1>1. q \in Seq({t}) /\ Len(q) = 1 /\ q[1] = t
  OBVIOUS
<1> HIDE DEF q
<1>2. SomeSeq(q)
  BY <1>1 DEF SomeSeq
<1>3. PICK f : Follows(f, x, s, q)
  BY <1>2, ReadingFollows
<1>4. f[1] = ReadToken(x, f[1 - 1], q[1])
  BY <1>1, <1>3 DEF Follows
<1>5. Reading(x, s, q) = ReadToken(x, s, t)
  BY <1>1, <1>3, <1>4 DEF Follows
<1>6. QED
  BY <1>2, <1>5 DEF q

\* Two sequences are read one after the other.
LEMMA ReadConcat ==
  ASSUME NEW x, NEW s, NEW p, NEW q, SomeSeq(p), SomeSeq(q)
  PROVE  Reading(x, s, p \o q) = Reading(x, Reading(x, s, p), q)
<1> DEFINE m == Len(p)
           n == Len(q)
           r == p \o q
<1>1. PICK f : Follows(f, x, s, p)
  BY ReadingFollows
<1>2. PICK g : Follows(g, x, Reading(x, s, p), q)
  BY ReadingFollows
<1>3. /\ SomeSeq(r) /\ m \in Nat /\ n \in Nat /\ Len(r) = m + n
      /\ \A k \in 1 .. m : r[k] = p[k]
      /\ \A k \in m + 1 .. m + n : r[k] = q[k - m]
  BY ConcatSeq
<1>4. PICK h : Follows(h, x, s, r)
  BY <1>3, ReadingFollows
<1> HIDE DEF r
<1>5. \A k \in 1 .. m : f[k] = ReadToken(x, f[k - 1], p[k])
  BY <1>1 DEF Follows
<1>6. \A k \in 1 .. n : g[k] = ReadToken(x, g[k - 1], q[k])
  BY <1>2 DEF Follows
<1>7. \A k \in 1 .. m + n : h[k] = ReadToken(x, h[k - 1], r[k])
  BY <1>3, <1>4 DEF Follows
<1>8. f[0] = s /\ h[0] = s /\ g[0] = f[m]
      /\ Reading(x, s, r) = h[m + n] /\ Reading(x, Reading(x, s, p), q) = g[n]
  BY <1>1, <1>2, <1>3, <1>4 DEF Follows
<1> HIDE DEF m, n
<1>9. \A k \in 0 .. m : h[k] = f[k]
  <2> DEFINE T == {k \in 0 .. m : h[k] # f[k]}
  <2>1. SUFFICES ASSUME T # {} PROVE FALSE
    OBVIOUS
  <2>2. PICK k \in T : \A y \in T : k <= y
    <3>1. T \subseteq Nat
      BY <1>3
    <3>2. QED
      BY <2>1, <3>1, HasLeast
  <2>3. k # 0 /\ k \in 1 .. m /\ k \in 1 .. m + n /\ k - 1 \in 0 .. m /\ k - 1 \notin T
    BY <1>3, <1>8, <2>2
  <2>4. h[k - 1] = f[k - 1]
    BY <2>3
  <2>5. h[k] = f[k]
    BY <1>3, <1>5, <1>7, <2>3, <2>4
  <2>6. QED
    BY <2>5
<1>10. \A k \in 0 .. n : h[m + k] = g[k]
  <2> DEFINE T == {k \in 0 .. n : h[m + k] # g[k]}
  <2>1. SUFFICES ASSUME T # {} PROVE FALSE
    OBVIOUS
  <2>2. PICK k \in T : \A y \in T : k <= y
    <3>1. T \subseteq Nat
      BY <1>3
    <3>2. QED
      BY <2>1, <3>1, HasLeast
  <2>3. k # 0
    <3>1. h[m] = f[m] /\ m + 0 = m
      BY <1>3, <1>9
    <3>2. h[m + 0] = g[0]
      BY <1>8, <3>1
    <3>3. QED
      BY <3>2
  <2>4. /\ k \in 1 .. n /\ m + k \in 1 .. m + n /\ m + k \in m + 1 .. m + n
        /\ k - 1 \in 0 .. n /\ k - 1 \notin T /\ m + k - 1 = m + (k - 1) /\ m + k - m = k
    BY <1>3, <2>2, <2>3
  <2>5. h[m + (k - 1)] = g[k - 1]
    BY <2>4
  <2>6. r[m + k] = q[k]
    BY <1>3, <2>4
  <2>7. h[m + k] = ReadToken(x, h[m + k - 1], r[m + k])
    BY <1>3, <1>7, <2>4
  <2>8. h[m + k] = g[k]
    BY <1>6, <2>4, <2>5, <2>6, <2>7
  <2>9. QED
    BY <2>8
<1>11. h[m + n] = g[n]
  BY <1>3, <1>10
<1>12. QED
  BY <1>8, <1>11 DEF r

-----------------------------------------------------------------------------
(* What is kept of the text while it is cut *)

Read(q) == Reading(text, Nothing, q)

\* After a break.
Apart(s) == [kept |-> s.kept, apart |-> s.kept # <<>>]

\* Before paragraph p the chunks and the accumulator keep what the paragraphs before
\* it do.
KeptBefore(cs, sep, cur, p) ==
  Read(Glue(cs, sep, cur)).kept = Read(Cut!Original(p - 1)).kept

\* Before sentence n of paragraph p, which is one to be cut, they are read as the
\* text up to there, or else there were no words in the paragraph yet.
KeptInside(cs, b, cur, p, n) ==
  LET old == Read(Cut!Original(p - 1))
      now == Reading(text, Apart(old), Prefix(p, n - 1))
  IN IF cur = <<>>
     THEN Len(cs) = b /\ Read(Cut!Joined(cs)).kept = old.kept /\ now = Apart(old)
     ELSE /\ Len(cs) >= b
          /\ Read(Glue(cs, IF Len(cs) = b THEN Boundary(b) ELSE <<>>, cur)) = now

KeepInv ==
  job.texts # <<>> =>
    /\ step = "paragraphs" => KeptBefore(chunks, currentSep, current, para)
    /\ step = "sentences" => /\ KeptInside(chunks, before, current, para, sentence)
                             /\ Cut!TooLong(text, para)
    /\ step = "done" => Read(Cut!Joined(chunks)).kept = Read(Cut!Whole).kept

LEMMA ApartFrom ==
  /\ Apart(Nothing) = Nothing /\ Nothing.kept = <<>>
  /\ \A s : Apart(s).kept = s.kept
  /\ \A s, r : s.kept = r.kept => Apart(s) = Apart(r)
  /\ \A s : s.kept = <<>> => Apart(s) = Nothing
  /\ \A s : ReadToken(text, s, Cut!Break) = Apart(s)
  BY DEF Apart, Nothing, ReadToken

LEMMA ReadParts ==
  ASSUME NEW p, NEW q, SomeSeq(p), SomeSeq(q)
  PROVE  /\ Read(<<>>) = Nothing
         /\ Read(p \o q) = Reading(text, Read(p), q)
         /\ Read(p \o (<<Cut!Break>> \o q)) = Reading(text, Apart(Read(p)), q)
         /\ Read(p \o <<Cut!Break>>) = Apart(Read(p))
<1> DEFINE b == <<Cut!Break>>
<1>1. SomeSeq(b) /\ \A s : Reading(text, s, b) = Apart(s)
  BY ReadOne, ApartFrom
<1> HIDE DEF b
<1>2. Read(<<>>) = Nothing
  BY ReadNone DEF Read
<1>3. Read(p \o q) = Reading(text, Read(p), q)
  BY ReadConcat DEF Read
<1>4. Read(p \o b) = Apart(Read(p))
  BY <1>1, ReadConcat DEF Read
<1>5. SomeSeq(p \o b)
  BY <1>1, ConcatSeq
<1>6. Read((p \o b) \o q) = Reading(text, Read(p \o b), q)
  BY <1>5, ReadConcat DEF Read
<1>7. p \o (b \o q) = (p \o b) \o q
  BY <1>1, ConcatAssoc
<1>8. QED
  BY <1>2, <1>3, <1>4, <1>6, <1>7 DEF b

\* A paragraph is read as if a break came before it, the first one too.
LEMMA OriginalRead ==
  ASSUME text \in Texts, NEW p \in 1 .. Len(text)
  PROVE  /\ SomeSeq(Cut!Original(p - 1)) /\ SomeSeq(Cut!Paragraph(p))
         /\ Cut!Paragraph(p) \in Seq(AllTokens)
         /\ Read(Cut!Original(p))
              = Reading(text, Apart(Read(Cut!Original(p - 1))), Cut!Paragraph(p))
<1> DEFINE o == Cut!Original(p - 1)
           q == Cut!Paragraph(p)
<1>1. Len(text) \in Nat /\ p - 1 \in 0 .. Len(text)
  BY TextShape
<1>2. SomeSeq(o)
  BY <1>1, OriginalTokens, TokensAreSeq
<1>3. q \in Seq(AllTokens)
  BY ParagraphTokens
<1>4. SomeSeq(q)
  BY <1>3, TokensAreSeq
<1>5. Cut!Original(p) = o \o Added(p)
  BY OriginalStep
<1>6. Read(Cut!Original(p)) = Reading(text, Apart(Read(o)), q)
  <2>1. CASE p = 1
    <3>1. o = <<>>
      BY <2>1, OriginalStep
    <3>2. Cut!Original(p) = o \o q
      BY <1>5, <2>1 DEF Added
    <3>3. Read(o) = Nothing /\ Apart(Nothing) = Nothing
      BY <3>1, ReadNone, ApartFrom DEF Read
    <3> HIDE DEF o, q
    <3>4. Read(o \o q) = Reading(text, Read(o), q)
      BY <1>2, <1>4, ReadParts
    <3>5. QED
      BY <3>2, <3>3, <3>4
  <2>2. CASE p # 1
    <3>1. Cut!Original(p) = o \o (<<Cut!Break>> \o q)
      BY <1>5, <2>2 DEF Added
    <3> HIDE DEF o, q
    <3>2. QED
      BY <1>2, <1>4, <3>1, ReadParts
  <2>3. QED
    BY <2>1, <2>2
<1>7. QED
  BY <1>2, <1>3, <1>4, <1>6

LEMMA SentenceRead ==
  ASSUME text \in Texts, NEW p \in 1 .. Len(text), NEW n \in 1 .. Len(text[p]), NEW s
  PROVE  /\ Reading(text, s, Prefix(p, n))
              = ReadToken(text, Reading(text, s, Prefix(p, n - 1)), <<p, n>>)
         /\ LeftOut(text, <<p, n>>) => Reading(text, s, Prefix(p, n))
                                          = Reading(text, s, Prefix(p, n - 1))
<1> DEFINE done == Prefix(p, n - 1)
           shown == <<<<p, n>>>>
<1>1. Len(text[p]) \in Nat /\ Len(text) \in Nat
  BY TextShape
<1>2. p \in Nat /\ n \in Nat \ {0}
  BY <1>1
<1>3. SomeSeq(done) /\ SomeSeq(shown) /\ Prefix(p, n) = done \o shown
  BY <1>2, PrefixGrows
<1>4. \A r : Reading(text, r, shown) = ReadToken(text, r, <<p, n>>)
  BY ReadOne
<1>5. LeftOut(text, <<p, n>>) => \A r : ReadToken(text, r, <<p, n>>) = r
  <2>1. <<p, n>> # Cut!Break /\ <<p, n>>[1] = p /\ <<p, n>>[2] = n
    BY ParagraphTokens
  <2>2. QED
    BY <2>1 DEF ReadToken
<1> HIDE DEF done, shown
<1>6. Reading(text, s, done \o shown) = Reading(text, Reading(text, s, done), shown)
  BY <1>3, ReadConcat
<1>7. QED
  BY <1>3, <1>4, <1>5, <1>6 DEF done

\* How tokens are read does not depend on the state.
LEMMA ReadStays ==
  ASSUME UNCHANGED text
  PROVE  /\ \A x, s, q : Reading(x, s, q)' = Reading(x, s, q)
         /\ \A q : Read(q)' = Read(q)
<1>1. \A x, s, q : Reading(x, s, q)' = Reading(x, s, q)
  BY DEF Reading, ReadToken, LeftOut, Cut!TooLong,
     Cut!SizeIn, Cut!Bytes, Cut!ParagraphOf, Cut!Break
<1>2. Nothing' = Nothing
  BY DEF Nothing
<1>3. \A q : Read(q)' = Read(q)
  BY <1>1, <1>2 DEF Read
<1>4. QED
  BY <1>1, <1>3

LEMMA KeepNext ==
  ASSUME UNCHANGED <<job, text>>,
         step' = "paragraphs" => KeptBefore(chunks', currentSep', current', para'),
         step' = "sentences" => /\ KeptInside(chunks', before', current', para', sentence')
                                /\ Cut!TooLong(text, para'),
         step' = "done" => Read(Cut!Joined(chunks')).kept = Read(Cut!Whole).kept
  PROVE  KeepInv'
<1>1. Cut!Whole' = Cut!Whole
  BY OriginalStays
<1>2. Cut!Joined(chunks)' = Cut!Joined(chunks')
  BY DEF Cut!Joined, Cut!FlattenSeq
<1>3. Cut!Original(para - 1)' = Cut!Original(para' - 1)
  BY SMTT(30) DEF Cut!Original, Cut!Paragraph, Cut!ParagraphOf, Cut!Break, Cut!FlattenSeq
<1>4. Cut!Break' = Cut!Break
  BY DEF Cut!Break
<1>5. /\ \A x, s, q : Reading(x, s, q)' = Reading(x, s, q)
      /\ \A q : Read(q)' = Read(q)
  BY ReadStays
<1>6. Glue(chunks, currentSep, current)' = Glue(chunks', currentSep', current')
  BY <1>2 DEF Glue
<1>7. ASSUME KeptBefore(chunks', currentSep', current', para')
      PROVE  KeptBefore(chunks, currentSep, current, para)'
  BY <1>3, <1>5, <1>6, <1>7 DEF KeptBefore
<1>8. ASSUME KeptInside(chunks', before', current', para', sentence')
      PROVE  KeptInside(chunks, before, current, para, sentence)'
  <2> DEFINE sep == IF Len(chunks) = before THEN Boundary(before) ELSE <<>>
             old == Read(Cut!Original(para - 1))
  <2>1. Glue(chunks, sep, current)'
          = Glue(chunks', IF Len(chunks') = before' THEN Boundary(before') ELSE <<>>, current')
    BY <1>2, <1>4 DEF Glue, Boundary
  <2>2. QED
    BY <1>2, <1>3, <1>5, <1>8, <2>1 DEF KeptInside, Apart, Prefix
<1>9. Cut!TooLong(text, para)' = Cut!TooLong(text, para')
  <2>1. Cut!TooLong(text, para)' = Cut!TooLong(text', para')
    BY DEF Cut!TooLong, Cut!SizeIn, Cut!Bytes, Cut!ParagraphOf, Cut!Break
  <2>2. QED
    BY <2>1
<1>10. QED
  BY <1>1, <1>2, <1>5, <1>7, <1>8, <1>9 DEF KeepInv

-----------------------------------------------------------------------------

LEMMA KeepBegin == ASSUME LongInv, CutTyping, KeepInv, CutText, Cut!Begin PROVE KeepInv'
<1>1. /\ UNCHANGED <<job, text>> /\ text \in Texts
      /\ chunks = <<>> /\ current = <<>> /\ para = 1
  BY CutContext DEF Cut!Begin
<1>2. CASE Cut!Size(Cut!Whole) <= MaxChars
  <2>1. step' = "done" /\ chunks' = <<Cut!Chunk(Cut!Whole, <<>>)>>
    BY <1>2 DEF Cut!Begin
  <2>2. Cut!Joined(chunks') = Cut!Whole
    BY <1>1, <2>1, WholeTokens, JoinedOne
  <2>3. QED
    BY <1>1, <2>1, <2>2, KeepNext
<1>3. CASE ~ (Cut!Size(Cut!Whole) <= MaxChars)
  <2>1. step' = "paragraphs" /\ UNCHANGED <<chunks, current, currentSep, para>>
    BY <1>3 DEF Cut!Begin
  <2>2. Glue(<<>>, currentSep, <<>>) = <<>>
    BY JoinedNone DEF Glue
  <2>3. para - 1 = 0 /\ Cut!Original(0) = <<>>
    BY <1>1, OriginalStep
  <2>4. KeptBefore(chunks', currentSep', current', para')
    BY <1>1, <2>1, <2>2, <2>3 DEF KeptBefore
  <2>5. QED
    BY <1>1, <2>1, <2>4, KeepNext
<1>4. QED
  BY <1>2, <1>3

LEMMA KeepPack == ASSUME LongInv, CutTyping, KeepInv, CutText, Cut!Pack PROVE KeepInv'
<1> DEFINE j == Cut!Joined(chunks)
           b == <<Cut!Break>>
           q == Cut!Paragraph(para)
           o == Cut!Original(para - 1)
           g == Glue(chunks, currentSep, current)
<1>1. /\ UNCHANGED <<job, text>> /\ text \in Texts /\ job.texts # <<>>
      /\ chunks \in Seq([text : Seq(AllTokens), join : {<<>>, <<Cut!Break>>}])
      /\ current \in Seq(AllTokens) /\ currentSep \in {<<>>, <<Cut!Break>>}
      /\ Len(text) \in Nat /\ para \in 1 .. Len(text) + 1
  BY CutContext
<1>2. /\ para \in 1 .. Len(text) /\ current # <<>> /\ step = "paragraphs"
      /\ step' = "paragraphs" /\ current' = (current \o b) \o q
      /\ para' = para + 1 /\ UNCHANGED <<chunks, currentSep>>
  BY <1>1 DEF Cut!Pack, Cut!Extended
<1>3. Read(g).kept = Read(o).kept
  BY <1>1, <1>2 DEF KeepInv, KeptBefore
<1>4. /\ SomeSeq(q) /\ q \in Seq(AllTokens)
      /\ Read(Cut!Original(para)) = Reading(text, Apart(Read(o)), q)
  BY <1>1, <1>2, OriginalRead
<1>5. SomeSeq(j) /\ SomeSeq(currentSep) /\ SomeSeq(current) /\ g = j \o (currentSep \o current)
  BY <1>1, <1>2, GlueParts
<1>6. SomeSeq(b) /\ b \in Seq(AllTokens) /\ b # <<>>
  <2>1. Cut!Break \in AllTokens
    BY DEF AllTokens
  <2>2. QED
    BY <2>1, BoundaryIsSeq
<1>7. SomeSeq(g)
  <2> HIDE DEF j, g
  <2>1. SomeSeq(currentSep \o current)
    BY <1>5, ConcatSeq
  <2>2. QED
    BY <1>5, <2>1, ConcatSeq
<1> HIDE DEF j, b, q, o, g
<1>8. SomeSeq(b \o q) /\ current' = current \o (b \o q)
  <2>1. SomeSeq(b \o q)
    BY <1>4, <1>6, ConcatSeq
  <2>2. current \o (b \o q) = (current \o b) \o q
    BY <1>4, <1>5, <1>6, ConcatAssoc
  <2>3. QED
    BY <1>2, <2>1, <2>2
<1>9. current' \in Seq(AllTokens) /\ current' # <<>>
  <2>1. b \o q # <<>>
    <3>1. Len(b) # 0 /\ Len(b) \in Nat
      BY <1>6
    <3>2. Len(b \o q) = Len(b) + Len(q) /\ Len(q) \in Nat
      BY <1>4, <1>6, ConcatSeq
    <3>3. Len(<<>>) = 0
      OBVIOUS
    <3>4. QED
      BY <3>1, <3>2, <3>3
  <2>2. current' # <<>>
    BY <1>5, <1>8, <2>1, NotEmpty
  <2>3. b \o q \in Seq(AllTokens)
    BY <1>4, <1>6
  <2>4. QED
    BY <1>1, <1>8, <2>2, <2>3
<1>10. Glue(chunks', currentSep', current') = g \o (b \o q)
  <2>1. Glue(chunks', currentSep', current') = j \o (currentSep \o current')
    BY <1>1, <1>2, <1>9, GlueParts DEF j
  <2>2. ASSUME NEW d, SomeSeq(d)
        PROVE  j \o (currentSep \o (current \o d)) = (j \o (currentSep \o current)) \o d
    <3>1. currentSep \o (current \o d) = (currentSep \o current) \o d
      BY <1>5, <2>2, ConcatAssoc
    <3>2. SomeSeq(currentSep \o current)
      BY <1>5, ConcatSeq
    <3>3. QED
      BY <1>5, <2>2, <3>1, <3>2, ConcatAssoc
  <2>3. QED
    BY <1>5, <1>8, <2>1, <2>2
<1>11. Read(g \o (b \o q)) = Reading(text, Apart(Read(g)), q)
  BY <1>4, <1>7, ReadParts DEF b
<1>12. Apart(Read(g)) = Apart(Read(o)) /\ para' - 1 = para
  BY <1>1, <1>2, <1>3, ApartFrom
<1>13. KeptBefore(chunks', currentSep', current', para')
  BY <1>4, <1>10, <1>11, <1>12 DEF KeptBefore
<1>14. QED
  BY <1>1, <1>2, <1>13, KeepNext

LEMMA KeepFlush == ASSUME LongInv, CutTyping, KeepInv, CutText, Cut!Flush PROVE KeepInv'
<1> DEFINE ChunkSet == [text : Seq(AllTokens), join : {<<>>, <<Cut!Break>>}]
           q == Cut!Paragraph(para)
           o == Cut!Original(para - 1)
           j == Cut!Joined(chunks')
           sep == Cut!SepAfter(chunks')
<1>1. /\ UNCHANGED <<job, text>> /\ text \in Texts /\ job.texts # <<>>
      /\ chunks \in Seq(ChunkSet)
      /\ current \in Seq(AllTokens) /\ currentSep \in {<<>>, <<Cut!Break>>}
      /\ Len(text) \in Nat /\ para \in 1 .. Len(text) + 1
  BY CutContext
<1>2. /\ para \in 1 .. Len(text) /\ step = "paragraphs"
      /\ chunks' = IF Cut!TooMuch
                   THEN Append(chunks, Cut!Chunk(current, currentSep)) ELSE chunks
      /\ Cut!TooMuch => current # <<>>
      /\ ~Cut!TooMuch => current = <<>>
  BY <1>1 DEF Cut!Flush, Cut!TooMuch
<1>3. /\ Cut!Oversized =>
           /\ step' = "sentences" /\ sentence' = 1 /\ before' = Len(chunks')
           /\ current' = <<>> /\ para' = para
      /\ ~Cut!Oversized =>
           /\ step' = step /\ current' = q /\ currentSep' = sep /\ para' = para + 1
  BY DEF Cut!Flush
<1>4. chunks' \in Seq(ChunkSet) /\ j = Glue(chunks, currentSep, current)
  <2>1. CASE Cut!TooMuch
    <3>1. chunks' = Append(chunks, Cut!Chunk(current, currentSep)) /\ current # <<>>
      BY <1>2, <2>1
    <3>2. j = Glue(chunks, currentSep, current)
      BY <1>1, <3>1, GlueParts
    <3>3. Cut!Chunk(current, currentSep) \in ChunkSet
      BY <1>1, ChunkTypes
    <3>4. chunks' \in Seq(ChunkSet)
      <4> HIDE DEF ChunkSet
      <4>1. QED
        BY <1>1, <3>1, <3>3
    <3>5. QED
      BY <3>2, <3>4
  <2>2. CASE ~Cut!TooMuch
    BY <1>1, <1>2, <2>2, GlueParts
  <2>3. QED
    BY <2>1, <2>2
<1>5. Read(j).kept = Read(o).kept /\ SomeSeq(j)
  <2>1. Read(j).kept = Read(o).kept
    BY <1>1, <1>2, <1>4 DEF KeepInv, KeptBefore
  <2>2. SomeSeq(j)
    BY <1>1, <1>4, GlueParts
  <2>3. QED
    BY <2>1, <2>2
<1>6. /\ SomeSeq(q) /\ q \in Seq(AllTokens)
      /\ Read(Cut!Original(para)) = Reading(text, Apart(Read(o)), q)
  BY <1>1, <1>2, OriginalRead
<1>7. ASSUME Cut!Oversized
      PROVE  /\ KeptInside(chunks', before', current', para', sentence')
             /\ Cut!TooLong(text, para')
  <2>1. Prefix(para, 0) = <<>>
    BY DEF Prefix
  <2>2. sentence' - 1 = 0 /\ before' = Len(chunks') /\ current' = <<>> /\ para' = para
    BY <1>3, <1>7
  <2>3. Reading(text, Apart(Read(o)), Prefix(para, 0)) = Apart(Read(o))
    BY <2>1, ReadNone
  <2>4. Cut!TooLong(text, para')
    BY <1>7, <2>2 DEF Cut!Oversized
  <2> HIDE DEF o, j
  <2>5. QED
    BY <1>5, <2>2, <2>3, <2>4 DEF KeptInside, o, j
<1>8. ASSUME ~Cut!Oversized
      PROVE  KeptBefore(chunks', currentSep', current', para')
  <2>1. /\ current' = q /\ currentSep' = sep /\ para' = para + 1 /\ para' - 1 = para
        /\ sep \in {<<>>, <<Cut!Break>>}
    BY <1>1, <1>3, <1>8, SeparatorTypes
  <2> DEFINE glued == Glue(chunks', sep, q)
  <2>2. CASE q = <<>>
    <3>1. glued = j
      BY <1>4, <1>6, <2>1, <2>2, GlueParts
    <3>2. Read(Cut!Original(para)) = Apart(Read(o))
      BY <1>6, <2>2, ReadNone
    <3>3. Read(Cut!Original(para)).kept = Read(o).kept
      BY <3>2, ApartFrom
    <3>4. QED
      BY <1>5, <2>1, <3>1, <3>3 DEF KeptBefore
  <2>3. CASE q # <<>>
    <3>1. glued = j \o (sep \o q)
      BY <1>4, <1>6, <2>1, <2>3, GlueParts
    <3>2. Read(glued) = Reading(text, Apart(Read(j)), q)
      <4>1. CASE chunks' = <<>>
        <5>1. sep = <<>> /\ j = <<>>
          BY <4>1, JoinedNone DEF Cut!SepAfter
        <5>2. <<>> \o (<<>> \o q) = q
          BY <1>6, EmptyConcat
        <5>3. Apart(Read(j)) = Nothing
          BY <5>1, ReadNone, ApartFrom DEF Read
        <5>4. QED
          BY <3>1, <5>1, <5>2, <5>3 DEF Read
      <4>2. CASE chunks' # <<>>
        <5>1. sep = <<Cut!Break>>
          BY <4>2 DEF Cut!SepAfter
        <5> HIDE DEF j, q, glued
        <5>2. QED
          BY <1>5, <1>6, <3>1, <5>1, ReadParts
      <4>3. QED
        BY <4>1, <4>2
    <3>3. Apart(Read(j)) = Apart(Read(o))
      BY <1>5, ApartFrom
    <3>4. QED
      BY <1>6, <2>1, <3>2, <3>3 DEF KeptBefore
  <2>4. QED
    BY <2>2, <2>3
<1>9. QED
  BY <1>1, <1>2, <1>3, <1>7, <1>8, KeepNext

LEMMA KeepSentences ==
  ASSUME LongInv, CutTyping, KeepInv, CutText, Cut!NextSentence
  PROVE  KeepInv'
<1> DEFINE ChunkSet == [text : Seq(AllTokens), join : {<<>>, <<Cut!Break>>}]
           old == Read(Cut!Original(para - 1))
           j == Cut!Joined(chunks)
           sep == IF Len(chunks) = before THEN Boundary(before) ELSE <<>>
           g == Glue(chunks, sep, current)
           token == <<para, sentence>>
           shown == <<token>>
           Now(n) == Reading(text, Apart(old), Prefix(para, n))
<1>1. /\ UNCHANGED <<job, text>> /\ text \in Texts /\ job.texts # <<>>
      /\ chunks \in Seq(ChunkSet)
      /\ current \in Seq(AllTokens) /\ Len(chunks) \in Nat /\ before \in Nat
      /\ Len(text) \in Nat /\ para \in 1 .. Len(text) + 1
  BY CutContext
<1>2. /\ step = "sentences" /\ step' = "sentences"
      /\ para \in 1 .. Len(text) /\ sentence \in 1 .. Len(text[para])
      /\ UNCHANGED <<para, before>> /\ sentence' = sentence + 1 /\ sentence' - 1 = sentence
      /\ sentence \in Nat \ {0} /\ para \in Nat
  BY CutContext DEF Cut!NextSentence
<1>3. /\ ~ text[para][sentence].words => UNCHANGED <<chunks, current>>
      /\ text[para][sentence].words /\ Cut!SentenceFull(text[para][sentence])
           => /\ chunks' = Append(chunks, Cut!Chunk(current, Cut!SentenceSep))
              /\ current' = shown
      /\ text[para][sentence].words /\ ~Cut!SentenceFull(text[para][sentence])
           => chunks' = chunks /\ current' = Append(current, token)
      /\ Cut!SentenceFull(text[para][sentence]) => current # <<>>
      /\ Cut!SentenceSep = sep
  BY DEF Cut!NextSentence, Cut!SentenceFull, Cut!SentenceSep, Cut!ParaSep, Boundary
<1>4. /\ current = <<>> => /\ Len(chunks) = before /\ Read(j).kept = old.kept
                           /\ Now(sentence - 1) = Apart(old)
      /\ current # <<>> => Len(chunks) >= before /\ Read(g) = Now(sentence - 1)
  BY <1>1, <1>2 DEF KeepInv, KeptInside
<1>5. /\ Now(sentence) = ReadToken(text, Now(sentence - 1), token)
      /\ ~ text[para][sentence].words => Now(sentence) = Now(sentence - 1)
  <2>1. Cut!TooLong(text, para)
    BY <1>1, <1>2 DEF KeepInv
  <2>2. ~ text[para][sentence].words => LeftOut(text, token)
    BY <2>1 DEF LeftOut
  <2>3. QED
    BY <1>1, <1>2, <2>2, SentenceRead
<1>6. token \in AllTokens /\ shown \in Seq(AllTokens) /\ shown # <<>> /\ SomeSeq(shown)
      /\ \A s : Reading(text, s, shown) = ReadToken(text, s, token)
  <2>1. token \in AllTokens
    BY <1>1, <1>2, ParagraphTokens
  <2>2. QED
    BY <2>1, ReadOne
<1>7. sep \in {<<>>, <<Cut!Break>>} /\ SomeSeq(sep)
  <2>1. sep \in {<<>>, <<Cut!Break>>}
    BY DEF Boundary
  <2> HIDE DEF sep
  <2>2. QED
    BY <2>1, BoundaryIsSeq
<1>8. SomeSeq(j) /\ SomeSeq(current) /\ (current # <<>> => g = j \o (sep \o current))
  BY <1>1, <1>7, GlueParts
<1>9. KeptInside(chunks', before', current', para', sentence')
  <2>1. CASE ~ text[para][sentence].words
    BY <1>2, <1>3, <1>4, <1>5, <2>1 DEF KeptInside
  <2>2. CASE text[para][sentence].words /\ Cut!SentenceFull(text[para][sentence])
    <3>1. chunks' = Append(chunks, Cut!Chunk(current, sep)) /\ current' = shown
          /\ current # <<>>
      BY <1>3, <2>2
    <3>2. Cut!Joined(chunks') = g
      BY <1>1, <1>7, <3>1, GlueParts
    <3>3. Cut!Chunk(current, sep) \in ChunkSet
      BY <1>1, <1>7, ChunkTypes
    <3>4. chunks' \in Seq(ChunkSet) /\ Len(chunks') = Len(chunks) + 1
      <4> HIDE DEF ChunkSet, sep
      <4>1. QED
        BY <1>1, <3>1, <3>3
    <3>5. SomeSeq(g) /\ <<>> \o shown = shown
      <4>1. SomeSeq(g)
        BY <3>2, <3>4, GlueParts, <1>6
      <4>2. QED
        BY <4>1, <1>6, EmptyConcat
    <3>6. Glue(chunks', <<>>, shown) = g \o shown
      BY <1>6, <3>2, <3>5 DEF Glue
    <3>7. Len(chunks') # before' /\ Len(chunks') >= before'
      BY <1>1, <1>2, <1>4, <3>1, <3>4
    <3> HIDE DEF g, shown, sep, token
    <3>8. Read(g \o shown) = Now(sentence)
      <4>1. Read(g \o shown) = Reading(text, Read(g), shown)
        BY <1>6, <3>5, ReadParts
      <4> HIDE DEF Now
      <4>2. QED
        BY <1>4, <1>5, <1>6, <3>1, <4>1
    <3>9. QED
      BY <1>2, <1>6, <3>1, <3>6, <3>7, <3>8 DEF KeptInside
  <2>3. CASE text[para][sentence].words /\ ~Cut!SentenceFull(text[para][sentence])
    <3>1. chunks' = chunks /\ current' = Append(current, token)
      BY <1>3, <2>3
    <3>2. current' = current \o shown /\ current' \in Seq(AllTokens) /\ current' # <<>>
      <4>1. current' = current \o shown /\ current' \in Seq(AllTokens)
        <5> HIDE DEF token
        <5>1. QED
          BY <1>1, <1>6, <3>1
      <4> HIDE DEF shown
      <4>2. current' # <<>>
        BY <1>6, <1>8, <4>1, NotEmpty
      <4>3. QED
        BY <4>1, <4>2
    <3>3. Glue(chunks', sep, current') = j \o (sep \o (current \o shown))
      <4> HIDE DEF sep, shown
      <4>1. current' # <<>> => Glue(chunks, sep, current') = j \o (sep \o current')
        BY <1>1, <1>7, <3>2, GlueParts
      <4>2. QED
        BY <3>1, <3>2, <4>1
    <3>4. Read(j \o (sep \o (current \o shown))) = Now(sentence)
      <4>1. CASE current # <<>>
        <5> HIDE DEF j, sep, shown, g, Now, old, token
        <5>1. g = j \o (sep \o current) /\ Read(g) = Now(sentence - 1)
          BY <1>4, <1>8, <4>1
        <5>2. SomeSeq(sep \o current)
          BY <1>7, <1>8, ConcatSeq
        <5>3. SomeSeq(g)
          BY <1>8, <5>1, <5>2, ConcatSeq
        <5>4. j \o (sep \o (current \o shown)) = g \o shown
          <6>1. sep \o (current \o shown) = (sep \o current) \o shown
            BY <1>6, <1>7, <1>8, ConcatAssoc
          <6>2. j \o ((sep \o current) \o shown) = (j \o (sep \o current)) \o shown
            BY <1>6, <1>8, <5>2, ConcatAssoc
          <6>3. QED
            BY <5>1, <6>1, <6>2
        <5>5. Read(g \o shown) = Reading(text, Read(g), shown)
          BY <1>6, <5>3, ReadParts
        <5>6. QED
          BY <1>5, <1>6, <5>1, <5>4, <5>5
      <4>2. CASE current = <<>>
        <5>1. Len(chunks) = before /\ Read(j).kept = old.kept
              /\ Now(sentence - 1) = Apart(old) /\ sep = Boundary(before)
          BY <1>4, <4>2 DEF sep
        <5>2. current \o shown = shown
          BY <1>6, <4>2, EmptyConcat
        <5>3. Read(j \o (sep \o shown)) = Reading(text, Apart(old), shown)
          <6>1. CASE before = 0
            <7>1. chunks = <<>>
              <8> HIDE DEF ChunkSet
              <8>1. QED
                BY <1>1, <5>1, <6>1
            <7>2. j = <<>> /\ sep = <<>>
              BY <5>1, <6>1, <7>1, JoinedNone DEF Boundary
            <7>3. <<>> \o (<<>> \o shown) = shown
              BY <1>6, EmptyConcat
            <7>4. Apart(old) = Nothing
              <8>1. Read(<<>>).kept = <<>>
                BY ReadNone, ApartFrom DEF Read
              <8> HIDE DEF old
              <8>2. QED
                BY <5>1, <7>2, <8>1, ApartFrom
            <7>5. QED
              BY <7>2, <7>3, <7>4 DEF Read
          <6>2. CASE before # 0
            <7>1. sep = <<Cut!Break>>
              BY <5>1, <6>2 DEF Boundary
            <7> HIDE DEF j, old, shown, sep
            <7>2. Apart(Read(j)) = Apart(old)
              BY <5>1, ApartFrom
            <7>3. QED
              BY <1>6, <1>8, <7>1, <7>2, ReadParts
          <6>3. QED
            BY <6>1, <6>2
        <5> HIDE DEF j, sep, shown, old, token
        <5>4. QED
          BY <1>5, <1>6, <5>1, <5>2, <5>3
      <4>3. QED
        BY <4>1, <4>2
    <3>5. Len(chunks') >= before'
      BY <1>1, <1>2, <1>4, <3>1
    <3>6. sep = IF Len(chunks') = before' THEN Boundary(before') ELSE <<>>
      BY <1>2, <3>1
    <3> HIDE DEF sep, shown, j
    <3>7. QED
      BY <1>2, <3>2, <3>3, <3>4, <3>5, <3>6 DEF KeptInside
  <2>4. QED
    BY <2>1, <2>2, <2>3
<1>10. Cut!TooLong(text, para')
  BY <1>1, <1>2 DEF KeepInv
<1>11. QED
  BY <1>1, <1>2, <1>9, <1>10, KeepNext

LEMMA KeepDone ==
  ASSUME LongInv, CutTyping, KeepInv, CutText, Cut!SentencesDone
  PROVE  KeepInv'
<1> DEFINE old == Read(Cut!Original(para - 1))
           q == Cut!Paragraph(para)
<1>1. /\ UNCHANGED <<job, text>> /\ text \in Texts /\ job.texts # <<>>
      /\ step = "sentences" /\ step' = "paragraphs" /\ para \in 1 .. Len(text)
      /\ sentence \in 1 .. Len(text[para]) + 1 /\ Len(text[para]) \in Nat
      /\ sentence > Len(text[para])
      /\ para' = para + 1 /\ UNCHANGED <<chunks, current>>
      /\ currentSep' = IF current # <<>> THEN Cut!SentenceSep ELSE currentSep
  BY CutContext DEF Cut!SentencesDone
<1>2. /\ chunks \in Seq([text : Seq(AllTokens), join : {<<>>, <<Cut!Break>>}])
      /\ current \in Seq(AllTokens) /\ currentSep \in {<<>>, <<Cut!Break>>}
  BY CutContext
<1>3. sentence - 1 = Len(text[para]) /\ para' - 1 = para
  BY <1>1, CutContext
<1>4. Prefix(para, sentence - 1) = q
  BY <1>1, <1>3, ParagraphTokens
<1>5. Read(Cut!Original(para)) = Reading(text, Apart(old), q)
  BY <1>1, OriginalRead
<1>6. KeptInside(chunks, before, current, para, sentence)
  BY <1>1 DEF KeepInv
<1>7. CASE current = <<>>
  <2>1. Read(Cut!Joined(chunks)).kept = old.kept /\ Reading(text, Apart(old), q) = Apart(old)
    BY <1>4, <1>6, <1>7 DEF KeptInside
  <2>2. Read(Cut!Original(para)).kept = old.kept
    BY <1>5, <2>1, ApartFrom
  <2>3. Glue(chunks, currentSep, current) = Cut!Joined(chunks)
    BY <1>2, <1>7, GlueParts
  <2>4. KeptBefore(chunks', currentSep', current', para')
    BY <1>1, <1>3, <1>7, <2>1, <2>2, <2>3 DEF KeptBefore
  <2>5. QED
    BY <1>1, <2>4, KeepNext
<1>8. CASE current # <<>>
  <2>1. currentSep' = IF Len(chunks) = before THEN Boundary(before) ELSE <<>>
    BY <1>1, <1>8 DEF Cut!SentenceSep, Cut!ParaSep, Boundary
  <2>2. Read(Glue(chunks, currentSep', current)) = Reading(text, Apart(old), q)
    BY <1>4, <1>6, <1>8, <2>1 DEF KeptInside
  <2>3. KeptBefore(chunks', currentSep', current', para')
    BY <1>1, <1>3, <1>5, <2>2 DEF KeptBefore
  <2>4. QED
    BY <1>1, <2>3, KeepNext
<1>9. QED
  BY <1>7, <1>8

LEMMA KeepFinish == ASSUME LongInv, CutTyping, KeepInv, CutText, Cut!Finish PROVE KeepInv'
<1>1. /\ UNCHANGED <<job, text>> /\ text \in Texts /\ job.texts # <<>>
      /\ chunks \in Seq([text : Seq(AllTokens), join : {<<>>, <<Cut!Break>>}])
      /\ current \in Seq(AllTokens) /\ currentSep \in {<<>>, <<Cut!Break>>}
      /\ Len(text) \in Nat \ {0} /\ para = Len(text) + 1 /\ para - 1 = Len(text)
      /\ step = "paragraphs" /\ step' = "done"
      /\ chunks' = IF current # <<>> THEN Append(chunks, Cut!Chunk(current, currentSep))
                   ELSE IF chunks = <<>> THEN <<Cut!Chunk(Cut!Whole, <<>>)>>
                   ELSE chunks
  BY CutContext DEF Cut!Finish
<1>2. Read(Glue(chunks, currentSep, current)).kept = Read(Cut!Whole).kept
  BY <1>1, WholeTokens DEF KeepInv, KeptBefore
<1>3. Read(Cut!Joined(chunks')).kept = Read(Cut!Whole).kept
  <2>1. CASE current # <<>>
    BY <1>1, <1>2, <2>1, GlueParts
  <2>2. CASE current = <<>> /\ chunks = <<>>
    BY <1>1, <2>2, WholeTokens, JoinedOne
  <2>3. CASE current = <<>> /\ chunks # <<>>
    BY <1>1, <1>2, <2>3, GlueParts
  <2>4. QED
    BY <2>1, <2>2, <2>3
<1>4. QED
  BY <1>1, <1>3, KeepNext

LEMMA KeepKeeps == ASSUME LongInv, CutTyping, KeepInv, CutText PROVE KeepInv'
  BY KeepBegin, KeepPack, KeepFlush, KeepSentences, KeepDone, KeepFinish DEF CutText, Cut!Next

-----------------------------------------------------------------------------
(* What the collected pieces hold of their texts *)

\* What piece c of ps holds of text i, with the break before it.
PieceTokens(ps, i, c) ==
  IF ps[c].text # i THEN <<>>
  ELSE (IF ps[c].first \/ ps[c].join = <<>> THEN <<>> ELSE <<Cut!Break>>) \o ps[c].content
Contents(ps, i, n) == FlattenSeq([c \in 1 .. n |-> PieceTokens(ps, i, c)])

\* The text that is being cut is the one that the batch is at.
TextInv == phase = "chunk" /\ at <= Len(job.texts) => text = job.texts[at]

\* Every text whose chunks have been collected is kept.
CollectedInv ==
  /\ \A c \in 1 .. Len(pieces) : SomeSeq(pieces[c].content)
  /\ phase = "chunk" => \A c \in 1 .. Len(pieces) : pieces[c].text < at
  /\ \A i \in 1 .. Len(job.texts) : (phase = "chunk" => i < at) =>
       Essence(job.texts[i], Contents(pieces, i, Len(pieces)))
         = Essence(job.texts[i], WholeOf(job.texts[i]))

SurvivalInv == TextInv /\ KeepInv /\ CollectedInv

LEMMA ContentsNone == ASSUME NEW ps, NEW i PROVE Contents(ps, i, 0) = <<>>
<1> DEFINE p == [c \in 1 .. 0 |-> PieceTokens(ps, i, c)]
<1>1. FlattenSeq([c \in 1 .. 0 |-> p[c]]) = <<>>
  BY FlattenNone
<1>2. [c \in 1 .. 0 |-> p[c]] = [c \in 1 .. 0 |-> PieceTokens(ps, i, c)]
  OBVIOUS
<1>3. QED
  BY <1>1, <1>2 DEF Contents

LEMMA PieceIsSeq ==
  ASSUME NEW ps, NEW i, NEW c, SomeSeq(ps[c].content)
  PROVE  SomeSeq(PieceTokens(ps, i, c))
  BY BoundaryIsSeq, ConcatSeq DEF PieceTokens

LEMMA ContentsStep ==
  ASSUME NEW ps, NEW i, NEW n \in Nat \ {0},
         \A c \in 1 .. n : SomeSeq(ps[c].content)
  PROVE  /\ Contents(ps, i, n) = Contents(ps, i, n - 1) \o PieceTokens(ps, i, n)
         /\ SomeSeq(PieceTokens(ps, i, n)) /\ SomeSeq(Contents(ps, i, n - 1))
<1> DEFINE p == [c \in 1 .. n |-> PieceTokens(ps, i, c)]
<1>1. n - 1 \in Nat /\ n - 1 + 1 = n
  OBVIOUS
<1>2. \A c \in 1 .. n : p[c] = PieceTokens(ps, i, c) /\ SomeSeq(p[c])
  BY PieceIsSeq
<1>3. SomeSeq(p[n - 1 + 1]) /\ p[n - 1 + 1] = PieceTokens(ps, i, n)
  BY <1>1, <1>2
<1>4. [c \in 1 .. n - 1 + 1 |-> p[c]] = [c \in 1 .. n |-> PieceTokens(ps, i, c)]
  BY <1>1
<1>5. [c \in 1 .. n - 1 |-> p[c]] = [c \in 1 .. n - 1 |-> PieceTokens(ps, i, c)]
  BY <1>1
<1> HIDE DEF p
<1>6. FlattenSeq([c \in 1 .. n - 1 + 1 |-> p[c]])
        = FlattenSeq([c \in 1 .. n - 1 |-> p[c]]) \o p[n - 1 + 1]
  BY <1>1, <1>3, FlattenStep
<1>7. SomeSeq(FlattenSeq([c \in 1 .. n - 1 |-> p[c]]))
  <2>1. \A c \in 1 .. n - 1 : SomeSeq(p[c])
    BY <1>2
  <2>2. QED
    BY <1>1, <2>1, FlattenGathers DEF Gathers
<1>8. QED
  BY <1>3, <1>4, <1>5, <1>6, <1>7 DEF Contents

LEMMA ContentsSame ==
  ASSUME NEW ps, NEW qs, NEW i, NEW n \in Nat, \A c \in 1 .. n : qs[c] = ps[c]
  PROVE  Contents(qs, i, n) = Contents(ps, i, n)
<1>1. \A c \in 1 .. n : PieceTokens(qs, i, c) = PieceTokens(ps, i, c)
  BY DEF PieceTokens
<1>2. [c \in 1 .. n |-> PieceTokens(qs, i, c)] = [c \in 1 .. n |-> PieceTokens(ps, i, c)]
  BY <1>1
<1>3. QED
  BY <1>2 DEF Contents

\* Pieces of other texts add nothing.
LEMMA OtherContents ==
  ASSUME NEW ps, NEW i, NEW m \in Nat, NEW n \in Nat, m <= n,
         \A c \in 1 .. n : SomeSeq(ps[c].content),
         \A c \in m + 1 .. n : ps[c].text # i
  PROVE  Contents(ps, i, n) = Contents(ps, i, m)
<1> DEFINE T == {k \in m .. n : Contents(ps, i, k) # Contents(ps, i, m)}
<1>1. SUFFICES ASSUME T # {} PROVE FALSE
  BY n \in m .. n
<1>2. PICK k \in T : \A y \in T : k <= y
  <2>1. T \subseteq Nat
    OBVIOUS
  <2>2. QED
    BY <1>1, <2>1, HasLeast
<1>3. k # m
  BY <1>2
<1>4. /\ k \in Nat \ {0} /\ k \in m + 1 .. n /\ k - 1 \in m .. n /\ k - 1 \notin T
      /\ \A c \in 1 .. k : SomeSeq(ps[c].content)
  BY <1>2, <1>3
<1>5. Contents(ps, i, k - 1) = Contents(ps, i, m)
  BY <1>4
<1>6. Contents(ps, i, k) = Contents(ps, i, k - 1) \o PieceTokens(ps, i, k)
      /\ SomeSeq(Contents(ps, i, k - 1))
  BY <1>4, ContentsStep
<1>7. PieceTokens(ps, i, k) = <<>>
  BY <1>4 DEF PieceTokens
<1>8. Contents(ps, i, k) = Contents(ps, i, m)
  BY <1>5, <1>6, <1>7, EmptyConcat
<1>9. QED
  BY <1>8

\* The first k chunks of cs, joined with their separators.
JoinedUpTo(cs, k) == FlattenSeq([c \in 1 .. k |-> cs[c].join \o cs[c].text])

LEMMA JoinedUpToStep ==
  ASSUME NEW cs, NEW n \in Nat,
         \A c \in 1 .. n : /\ SomeSeq(cs[c].text) /\ cs[c].join \in {<<>>, <<Cut!Break>>}
  PROVE  /\ JoinedUpTo(cs, 0) = <<>>
         /\ \A k \in 1 .. n :
              /\ SomeSeq(JoinedUpTo(cs, k - 1)) /\ SomeSeq(cs[k].join)
              /\ JoinedUpTo(cs, k) = JoinedUpTo(cs, k - 1) \o (cs[k].join \o cs[k].text)
<1> DEFINE p == [c \in 1 .. n |-> cs[c].join \o cs[c].text]
<1>1. \A c \in 1 .. n : /\ p[c] = cs[c].join \o cs[c].text
                        /\ SomeSeq(p[c]) /\ SomeSeq(cs[c].join)
  BY BoundaryIsSeq, ConcatSeq
<1> HIDE DEF p
<1>2. ASSUME NEW k \in 0 .. n PROVE JoinedUpTo(cs, k) = FlattenSeq([c \in 1 .. k |-> p[c]])
  <2>1. \A c \in 1 .. k : c \in 1 .. n
    OBVIOUS
  <2>2. \A c \in 1 .. k : p[c] = cs[c].join \o cs[c].text
    BY <1>1, <2>1
  <2>3. [c \in 1 .. k |-> p[c]] = [c \in 1 .. k |-> cs[c].join \o cs[c].text]
    BY <2>2
  <2>4. QED
    BY <2>3 DEF JoinedUpTo
<1>3. JoinedUpTo(cs, 0) = <<>>
  <2>1. 0 \in 0 .. n
    OBVIOUS
  <2>2. JoinedUpTo(cs, 0) = FlattenSeq([c \in 1 .. 0 |-> p[c]])
    BY <1>2, <2>1
  <2>3. QED
    BY <2>2, FlattenNone
<1>4. ASSUME NEW k \in 1 .. n
      PROVE  /\ SomeSeq(JoinedUpTo(cs, k - 1)) /\ SomeSeq(cs[k].join)
             /\ JoinedUpTo(cs, k) = JoinedUpTo(cs, k - 1) \o (cs[k].join \o cs[k].text)
  <2>1. k - 1 \in Nat /\ k - 1 + 1 = k /\ k - 1 \in 0 .. n /\ k \in 0 .. n
    OBVIOUS
  <2>2. SomeSeq(p[k - 1 + 1])
    BY <1>1, <2>1
  <2>3. FlattenSeq([c \in 1 .. k - 1 + 1 |-> p[c]])
          = FlattenSeq([c \in 1 .. k - 1 |-> p[c]]) \o p[k - 1 + 1]
    BY <2>1, <2>2, FlattenStep
  <2>4. FlattenSeq([c \in 1 .. k |-> p[c]]) = FlattenSeq([c \in 1 .. k - 1 |-> p[c]]) \o p[k]
    BY <2>1, <2>3
  <2>5. SomeSeq(FlattenSeq([c \in 1 .. k - 1 |-> p[c]]))
    <3>1. \A c \in 1 .. k - 1 : c \in 1 .. n
      OBVIOUS
    <3>2. \A c \in 1 .. k - 1 : SomeSeq(p[c])
      BY <1>1, <3>1
    <3>3. QED
      BY <2>1, <3>2, FlattenGathers DEF Gathers
  <2>6. QED
    BY <1>1, <1>2, <2>1, <2>4, <2>5
<1>5. QED
  BY <1>3, <1>4

\* The pieces made of the chunks of a text are read as these; a separator before the
\* first of them makes no difference.
LEMMA ContentsRead ==
  ASSUME NEW cs, NEW n \in Nat, NEW ps, NEW i, NEW m \in Nat,
         \A c \in 1 .. n : /\ SomeSeq(cs[c].text) /\ cs[c].join \in {<<>>, <<Cut!Break>>},
         \A c \in 1 .. m + n : SomeSeq(ps[c].content),
         Contents(ps, i, m) = <<>>,
         \A c \in 1 .. n :
           /\ ps[m + c].text = i /\ (ps[m + c].first <=> c = 1)
           /\ ps[m + c].content = cs[c].text /\ (ps[m + c].join = <<>> <=> cs[c].join = <<>>)
  PROVE  Read(Contents(ps, i, m + n)) = Read(JoinedUpTo(cs, n))
<1> DEFINE T == {k \in 0 .. n : Read(Contents(ps, i, m + k)) # Read(JoinedUpTo(cs, k))}
<1>1. SUFFICES ASSUME T # {} PROVE FALSE
  BY n \in 0 .. n
<1>2. PICK k \in T : \A y \in T : k <= y
  <2>1. T \subseteq Nat
    OBVIOUS
  <2>2. QED
    BY <1>1, <2>1, HasLeast
<1>3. k # 0
  <2>1. m + 0 = m
    OBVIOUS
  <2>2. JoinedUpTo(cs, 0) = <<>>
    BY JoinedUpToStep
  <2>3. QED
    BY <1>2, <2>1, <2>2
<1> DEFINE c == m + k
           old == Contents(ps, i, c - 1)
           was == JoinedUpTo(cs, k - 1)
           b == cs[k].join
           q == cs[k].text
<1>4. /\ k \in 1 .. n /\ c \in Nat \ {0} /\ c - 1 = m + (k - 1)
      /\ k - 1 \in 0 .. n /\ k - 1 \notin T /\ \A d \in 1 .. c : SomeSeq(ps[d].content)
  BY <1>2, <1>3
<1>5. Read(old) = Read(was)
  BY <1>4
<1>6. /\ SomeSeq(was) /\ SomeSeq(b) /\ SomeSeq(q) /\ b \in {<<>>, <<Cut!Break>>}
      /\ JoinedUpTo(cs, k) = was \o (b \o q)
  <2>1. \A j \in 1 .. n :
          /\ SomeSeq(JoinedUpTo(cs, j - 1)) /\ SomeSeq(cs[j].join)
          /\ JoinedUpTo(cs, j) = JoinedUpTo(cs, j - 1) \o (cs[j].join \o cs[j].text)
    BY JoinedUpToStep
  <2>2. QED
    BY <1>4, <2>1
<1>7. Contents(ps, i, c) = old \o PieceTokens(ps, i, c) /\ SomeSeq(old)
  <2> HIDE DEF c
  <2>1. QED
    BY <1>4, ContentsStep
<1>8. PieceTokens(ps, i, c) = (IF k = 1 THEN <<>> ELSE b) \o q
  <2>1. /\ ps[c].text = i /\ (ps[c].first <=> k = 1)
        /\ ps[c].content = q /\ (ps[c].join = <<>> <=> b = <<>>)
    BY <1>4
  <2> HIDE DEF c, b, q
  <2>2. QED
    BY <1>6, <2>1 DEF PieceTokens
<1>9. SomeSeq(b \o q)
  BY <1>6, ConcatSeq
<1> HIDE DEF old, was, b, q
<1>10. Read(was \o (b \o q)) = Reading(text, Read(was), b \o q)
       /\ Read(old \o (b \o q)) = Reading(text, Read(old), b \o q)
  BY <1>6, <1>7, <1>9, ReadParts
<1>11. Read(Contents(ps, i, c)) = Read(JoinedUpTo(cs, k))
  <2>1. CASE k # 1 \/ b = <<>>
    BY <1>5, <1>6, <1>7, <1>8, <1>10, <2>1
  <2>2. CASE k = 1 /\ b # <<>>
    <3>1. b = <<Cut!Break>> /\ was = <<>>
      <4>1. was = <<>>
        <5>1. JoinedUpTo(cs, 0) = <<>>
          BY JoinedUpToStep
        <5>2. QED
          BY <2>2, <5>1 DEF was
      <4>2. QED
        BY <1>6, <2>2, <4>1
    <3>2. Read(was \o (b \o q)) = Reading(text, Apart(Read(was)), q)
      BY <1>6, <3>1, ReadParts
    <3>3. Read(was) = Nothing /\ Apart(Nothing) = Nothing
      BY <3>1, ReadNone, ApartFrom DEF Read
    <3>4. Contents(ps, i, c) = old \o q
      BY <1>6, <1>7, <1>8, <2>2, EmptyConcat
    <3>5. Read(old \o q) = Reading(text, Read(old), q)
      BY <1>6, <1>7, ReadParts
    <3>6. QED
      BY <1>5, <1>6, <3>2, <3>3, <3>4, <3>5
  <2>3. QED
    BY <2>1, <2>2
<1>12. QED
  BY <1>11 DEF c

LEMMA ReadingIsConstant ==
  /\ \A x, q : Essence(x, q)' = Essence(x, q)
  /\ \A x : WholeOf(x)' = WholeOf(x)
  /\ \A ps, i, n : Contents(ps, i, n)' = Contents(ps, i, n)
<1>1. \A x, q : Essence(x, q)' = Essence(x, q)
  BY DEF Essence, Reading, ReadToken, Nothing, LeftOut, Cut!TooLong,
           Cut!SizeIn, Cut!Bytes, Cut!ParagraphOf, Cut!Break
<1>2. \A x : WholeOf(x)' = WholeOf(x)
  BY DEF WholeOf, Cut!Break
<1>3. \A ps, i, n : Contents(ps, i, n)' = Contents(ps, i, n)
  BY DEF Contents, PieceTokens, Cut!Break
<1>4. QED
  BY <1>1, <1>2, <1>3

LEMMA InitSurvival == LongInit => SurvivalInv
<1> SUFFICES ASSUME LongInit PROVE SurvivalInv
  OBVIOUS
<1>1. /\ text = job.texts[1] /\ step = "start" /\ phase = "chunk" /\ at = 1 /\ pieces = <<>>
      /\ job.texts \in Seq(Texts)
  BY JobsAreBatches DEF LongInit, BatchInit, Init, Cut!Start
<1>2. TextInv /\ KeepInv
  BY <1>1 DEF TextInv, KeepInv
<1>3. CollectedInv
  <2>1. Len(job.texts) \in Nat /\ \A c \in 1 .. Len(pieces) : FALSE
    BY <1>1
  <2>2. \A i \in 1 .. Len(job.texts) : ~ (i < at)
    BY <1>1, <2>1
  <2>3. QED
    BY <1>1, <2>1, <2>2 DEF CollectedInv
<1>4. QED
  BY <1>2, <1>3 DEF SurvivalInv

LEMMA KeepStays == ASSUME KeepInv, UNCHANGED <<job, cutVars>> PROVE KeepInv'
<1> USE DEF cutVars
<1>1. CASE job.texts = <<>>
  BY <1>1 DEF KeepInv
<1>2. CASE job.texts # <<>>
  BY <1>2, KeepNext DEF KeepInv
<1>3. QED
  BY <1>1, <1>2

LEMMA CollectedStays ==
  ASSUME CollectedInv, UNCHANGED <<job, pieces>>,
         phase' = "chunk" => phase = "chunk" /\ at' = at,
         \A i \in 1 .. Len(job.texts) :
           (phase' = "chunk" => i < at') => (phase = "chunk" => i < at)
  PROVE  CollectedInv'
  BY ReadingIsConstant DEF CollectedInv

LEMMA WholeIsOriginal == ASSUME text \in Texts PROVE WholeOf(text) = Cut!Whole
<1> DEFINE Shown(p) == (IF p = 1 THEN <<>> ELSE <<Cut!Break>>) \o Cut!Paragraph(p)
<1>1. ASSUME NEW p \in 1 .. Len(text) PROVE Shown(p) = Added(p)
  <2>1. SomeSeq(Cut!Paragraph(p))
    BY ParagraphTokens, TokensAreSeq
  <2>2. <<>> \o Cut!Paragraph(p) = Cut!Paragraph(p)
    BY <2>1, EmptyConcat
  <2>3. QED
    BY <2>2 DEF Added
<1>2. WholeOf(text) = FlattenSeq([p \in 1 .. Len(text) |-> Shown(p)])
  BY DEF WholeOf, Cut!Paragraph, Cut!ParagraphOf
<1>3. Cut!Whole = FlattenSeq([p \in 1 .. Len(text) |-> Added(p)])
  BY SameFlatten DEF Cut!Whole, Cut!Original, Added
<1> HIDE DEF Shown
<1>4. [p \in 1 .. Len(text) |-> Shown(p)] = [p \in 1 .. Len(text) |-> Added(p)]
  BY <1>1
<1>5. QED
  BY <1>2, <1>3, <1>4

\* What a text adds to the pieces when its chunks are collected.
LEMMA CollectedPieces ==
  ASSUME LongInv, CuttingInv, CollectedInv, Collect
  PROVE  LET m == Len(pieces)
             n == Len(chunks)
         IN /\ m \in Nat /\ n \in Nat /\ Len(pieces') = m + n
            /\ \A c \in 1 .. n : /\ SomeSeq(chunks[c].text)
                                 /\ chunks[c].join \in {<<>>, <<Cut!Break>>}
            /\ \A c \in 1 .. m : pieces'[c] = pieces[c]
            /\ \A c \in 1 .. n :
                 /\ pieces'[m + c].text = at /\ (pieces'[m + c].first <=> c = 1)
                 /\ pieces'[m + c].content = chunks[c].text
                 /\ pieces'[m + c].join = <<>> <=> chunks[c].join = <<>>
            /\ \A c \in 1 .. m + n : SomeSeq(pieces'[c].content)
<1> DEFINE m == Len(pieces)
           n == Len(chunks)
           ChunkSet == [text : Seq(AllTokens), join : {<<>>, <<Cut!Break>>}]
           new == [c \in 1 .. n |-> [text |-> at, first |-> c = 1, content |-> Pieces[c].text,
                                     join |-> Pieces[c].join, blank |-> Pieces[c].blank]]
<1>1. chunks \in Seq(ChunkSet) /\ at <= Len(job.texts)
  <2>1. at <= Len(job.texts)
    BY DEF Collect, AddText
  <2>2. job.texts # <<>>
    BY <2>1, BatchHasTexts
  <2>3. QED
    BY <2>1, <2>2 DEF CuttingInv, CutTyping
<1>2. n \in Nat /\ \A c \in 1 .. n : chunks[c] \in ChunkSet
  <2> HIDE DEF ChunkSet
  <2>1. QED
    BY <1>1
<1>3. \A c \in 1 .. n : SomeSeq(chunks[c].text) /\ chunks[c].join \in {<<>>, <<Cut!Break>>}
  BY <1>2, TokensAreSeq
<1>4. Len(Pieces) = n
      /\ \A c \in 1 .. n : /\ Pieces[c].text = chunks[c].text
                           /\ Pieces[c].join = <<>> <=> chunks[c].join = <<>>
  <2>1. Len(Pieces) = n
    BY <1>2, FunctionIsSeq DEF Pieces
  <2>2. QED
    BY <2>1 DEF Pieces
<1>5. SomeSeq(new) /\ Len(new) = n
  BY <1>2, FunctionIsSeq
<1>6. SomeSeq(pieces) /\ m \in Nat /\ pieces' = pieces \o new
  <2>1. SomeSeq(pieces) /\ m \in Nat
    BY AppendSeq DEF LongInv, PiecesInv
  <2>2. QED
    BY <1>4, <2>1 DEF Collect, AddText
<1>7. \A c \in 1 .. n : /\ new[c].text = at /\ (new[c].first <=> c = 1)
                        /\ new[c].content = chunks[c].text
                        /\ new[c].join = <<>> <=> chunks[c].join = <<>>
  BY <1>4
<1> HIDE DEF new, m, n, ChunkSet
<1>8. /\ Len(pieces') = m + n
      /\ \A c \in 1 .. m : pieces'[c] = pieces[c]
      /\ \A c \in m + 1 .. m + n : pieces'[c] = new[c - m]
  BY <1>5, <1>6, ConcatSeq DEF m
<1>9. ASSUME NEW c \in 1 .. n PROVE pieces'[m + c] = new[c]
  <2> DEFINE k == m + c
  <2>1. k \in m + 1 .. m + n /\ k - m = c
    BY <1>2, <1>6
  <2> HIDE DEF k
  <2>2. pieces'[k] = new[k - m]
    BY <1>8, <2>1
  <2>3. QED
    BY <2>1, <2>2 DEF k
<1>10. ASSUME NEW c \in 1 .. m + n PROVE SomeSeq(pieces'[c].content)
  <2>1. CASE c \in 1 .. m
    BY <1>8, <2>1 DEF CollectedInv, m
  <2>2. CASE c \notin 1 .. m
    <3>1. c - m \in 1 .. n /\ c = m + (c - m)
      BY <1>2, <1>6, <2>2
    <3>2. pieces'[c].content = chunks[c - m].text
      BY <1>7, <1>9, <3>1
    <3>3. QED
      BY <1>3, <3>1, <3>2
  <2>3. QED
    BY <2>1, <2>2
<1>11. QED
  BY <1>2, <1>3, <1>6, <1>7, <1>8, <1>9, <1>10 DEF m, n

\* The text at hand is kept when its chunks are collected.
LEMMA CollectedText ==
  ASSUME LongInv, CuttingInv, SurvivalInv, Collect
  PROVE  Essence(job.texts[at], Contents(pieces', at, Len(pieces')))
           = Essence(job.texts[at], WholeOf(job.texts[at]))
<1> DEFINE m == Len(pieces)
           n == Len(chunks)
           ps == pieces'
<1>1. /\ m \in Nat /\ n \in Nat /\ Len(ps) = m + n
      /\ \A c \in 1 .. n : SomeSeq(chunks[c].text) /\ chunks[c].join \in {<<>>, <<Cut!Break>>}
      /\ \A c \in 1 .. m : ps[c] = pieces[c]
      /\ \A c \in 1 .. n :
           /\ ps[m + c].text = at /\ (ps[m + c].first <=> c = 1)
           /\ ps[m + c].content = chunks[c].text
           /\ ps[m + c].join = <<>> <=> chunks[c].join = <<>>
      /\ \A c \in 1 .. m + n : SomeSeq(ps[c].content)
  BY CollectedPieces DEF SurvivalInv
<1>2. /\ phase = "chunk" /\ at <= Len(job.texts) /\ at \in Nat \ {0} /\ step = "done"
      /\ \A c \in 1 .. m : pieces[c].text \in Nat /\ pieces[c].text < at
  BY DEF Collect, AddText, LongInv, PiecesInv, SurvivalInv, CollectedInv
<1>3. text = job.texts[at] /\ text \in Texts /\ job.texts # <<>>
  <2>1. job.texts # <<>>
    BY <1>2, BatchHasTexts
  <2>2. QED
    BY <1>2, <2>1 DEF SurvivalInv, TextInv, CuttingInv, CutTyping
<1> HIDE DEF m, n, ps
<1>4. Contents(ps, at, m) = <<>>
  <2>1. Contents(ps, at, m) = Contents(ps, at, 0)
    <3>1. 0 \in Nat /\ 0 <= m /\ \A c \in 0 + 1 .. m : c \in 1 .. m
      BY <1>1
    <3>2. \A c \in 1 .. m : ps[c].text # at /\ SomeSeq(ps[c].content)
      <4>1. \A c \in 1 .. m : ps[c].text # at
        BY <1>1, <1>2
      <4>2. \A c \in 1 .. m : c \in 1 .. m + n
        BY <1>1
      <4>3. QED
        BY <1>1, <4>1, <4>2
    <3>3. QED
      BY <1>1, <3>1, <3>2, OtherContents
  <2>2. QED
    BY <2>1, ContentsNone
<1>5. Read(Contents(ps, at, m + n)) = Read(JoinedUpTo(chunks, n))
  <2>1. \A c \in 1 .. n :
          /\ SomeSeq(chunks[c].text) /\ chunks[c].join \in {<<>>, <<Cut!Break>>}
    BY <1>1
  <2>2. \A c \in 1 .. n :
          /\ ps[m + c].text = at /\ (ps[m + c].first <=> c = 1)
          /\ ps[m + c].content = chunks[c].text
          /\ (ps[m + c].join = <<>> <=> chunks[c].join = <<>>)
    BY <1>1
  <2>3. m \in Nat /\ n \in Nat /\ \A c \in 1 .. m + n : SomeSeq(ps[c].content)
    BY <1>1
  <2>4. QED
    BY <1>4, <2>1, <2>2, <2>3, ContentsRead, Zenon
<1>6. JoinedUpTo(chunks, n) = Cut!Joined(chunks)
  BY SameFlatten DEF JoinedUpTo, Cut!Joined, n
<1>7. Read(Cut!Joined(chunks)).kept = Read(Cut!Whole).kept
  BY <1>2, <1>3 DEF SurvivalInv, KeepInv
<1>8. Read(Contents(ps, at, m + n)).kept = Read(WholeOf(text)).kept
  BY <1>3, <1>5, <1>6, <1>7, WholeIsOriginal
<1>9. QED
  BY <1>1, <1>3, <1>8 DEF Read, Essence, ps

\* The other texts have no chunks among these.
LEMMA CollectedOthers ==
  ASSUME LongInv, CuttingInv, SurvivalInv, Collect, NEW i \in 1 .. at - 1
  PROVE  Contents(pieces', i, Len(pieces')) = Contents(pieces, i, Len(pieces))
<1> DEFINE m == Len(pieces)
           n == Len(chunks)
           ps == pieces'
<1>1. /\ m \in Nat /\ n \in Nat /\ Len(ps) = m + n
      /\ \A c \in 1 .. m : ps[c] = pieces[c]
      /\ \A c \in 1 .. n : ps[m + c].text = at
      /\ \A c \in 1 .. m + n : SomeSeq(ps[c].content)
  BY CollectedPieces DEF SurvivalInv
<1>2. at \in Nat \ {0}
  BY DEF LongInv, PiecesInv
<1> HIDE DEF m, n, ps
<1>3. ASSUME NEW c \in m + 1 .. m + n PROVE ps[c].text # i
  <2>1. c - m \in 1 .. n /\ c = m + (c - m)
    BY <1>1
  <2>2. ps[c].text = at
    BY <1>1, <2>1
  <2>3. QED
    BY <1>2, <2>2
<1>4. Contents(ps, i, m + n) = Contents(ps, i, m)
  <2>1. m <= m + n /\ m + n \in Nat
    BY <1>1
  <2>2. QED
    BY <1>1, <1>3, <2>1, OtherContents
<1>5. Contents(ps, i, m) = Contents(pieces, i, m)
  BY <1>1, ContentsSame
<1>6. QED
  BY <1>1, <1>4, <1>5 DEF m, ps

LEMMA CollectSurvival ==
  ASSUME LongInv, CuttingInv, SurvivalInv, Collect
  PROVE  SurvivalInv'
<1>1. /\ phase = "chunk" /\ phase' = "chunk" /\ at' = at + 1 /\ job' = job
      /\ at <= Len(job.texts) /\ at \in Nat \ {0} /\ job.texts \in Seq(Texts)
      /\ Len(job.texts) \in Nat
  BY JobsAreBatches DEF Collect, AddText, LongInv, PiecesInv
<1>2. TextInv'
  <2>1. CASE at < Len(job.texts)
    BY <1>1, <2>1 DEF Collect, TextInv
  <2>2. CASE ~ (at < Len(job.texts))
    <3>1. ~ (at' <= Len(job'.texts))
      BY <1>1, <2>2
    <3>2. QED
      BY <3>1 DEF TextInv
  <2>3. QED
    BY <2>1, <2>2
<1>3. KeepInv'
  <2>1. CASE at < Len(job.texts)
    <3>1. step' = "start"
      BY <2>1 DEF Collect
    <3>2. QED
      BY <3>1 DEF KeepInv
  <2>2. CASE ~ (at < Len(job.texts))
    <3>1. UNCHANGED <<job, cutVars>>
      BY <1>1, <2>2 DEF Collect
    <3>2. QED
      BY <3>1, KeepStays DEF SurvivalInv
  <2>3. QED
    BY <2>1, <2>2
<1>4. CollectedInv'
  <2> DEFINE m == Len(pieces)
             n == Len(chunks)
  <2>1. /\ m \in Nat /\ n \in Nat /\ Len(pieces') = m + n
        /\ \A c \in 1 .. m : pieces'[c] = pieces[c]
        /\ \A c \in 1 .. n : pieces'[m + c].text = at
        /\ \A c \in 1 .. m + n : SomeSeq(pieces'[c].content)
    BY CollectedPieces DEF SurvivalInv
  <2>2. \A c \in 1 .. m : pieces[c].text \in Nat /\ pieces[c].text < at
    BY <1>1 DEF LongInv, PiecesInv, SurvivalInv, CollectedInv
  <2> HIDE DEF m, n
  <2>3. ASSUME NEW c \in 1 .. m + n PROVE pieces'[c].text < at'
    <3>1. CASE c \in 1 .. m
      BY <1>1, <2>1, <2>2, <3>1
    <3>2. CASE c \notin 1 .. m
      <4>1. c - m \in 1 .. n /\ c = m + (c - m)
        BY <2>1, <3>2
      <4>2. pieces'[c].text = at
        BY <2>1, <4>1
      <4>3. QED
        BY <1>1, <4>2
    <3>3. QED
      BY <3>1, <3>2
  <2>4. ASSUME NEW i \in 1 .. Len(job.texts), i < at'
        PROVE  Essence(job.texts[i], Contents(pieces', i, Len(pieces')))
                 = Essence(job.texts[i], WholeOf(job.texts[i]))
    <3>1. CASE i = at
      BY <3>1, CollectedText
    <3>2. CASE i # at
      <4>1. i \in 1 .. at - 1 /\ i < at
        BY <1>1, <2>4, <3>2
      <4>2. Contents(pieces', i, Len(pieces')) = Contents(pieces, i, Len(pieces))
        BY <4>1, CollectedOthers
      <4>3. Essence(job.texts[i], Contents(pieces, i, Len(pieces)))
              = Essence(job.texts[i], WholeOf(job.texts[i]))
        BY <4>1 DEF SurvivalInv, CollectedInv
      <4>4. QED
        BY <4>2, <4>3
    <3>3. QED
      BY <3>1, <3>2
  <2>5. \A i \in 1 .. Len(job.texts) : i < at' =>
          Essence(job.texts[i], Contents(pieces, i, Len(pieces)))'
            = Essence(job.texts[i], WholeOf(job.texts[i]))'
    <3>1. ASSUME NEW i \in 1 .. Len(job.texts), i < at'
          PROVE  Essence(job.texts[i], Contents(pieces, i, Len(pieces)))'
                   = Essence(job.texts[i], WholeOf(job.texts[i]))'
      <4>1. Essence(job.texts[i], Contents(pieces, i, Len(pieces)))'
              = Essence(job'.texts[i], Contents(pieces', i, Len(pieces')))
        BY DEF Essence, Reading, ReadToken, Nothing, Contents, PieceTokens, LeftOut,
           Cut!TooLong, Cut!SizeIn, Cut!Bytes, Cut!ParagraphOf, Cut!Break
      <4>2. Essence(job.texts[i], WholeOf(job.texts[i]))'
              = Essence(job'.texts[i], WholeOf(job'.texts[i]))
        BY DEF Essence, Reading, ReadToken, Nothing, WholeOf, LeftOut, Cut!TooLong,
           Cut!SizeIn, Cut!Bytes, Cut!ParagraphOf, Cut!Break
      <4>3. QED
        BY <1>1, <2>4, <3>1, <4>1, <4>2
    <3>2. QED
      BY <3>1
  <2>6. QED
    BY <1>1, <2>1, <2>3, <2>5 DEF CollectedInv
<1>5. QED
  BY <1>2, <1>3, <1>4 DEF SurvivalInv

LEMMA NextSurvival ==
  ASSUME LongInv, CuttingInv, SurvivalInv, [LongNext]_<<vars, cutVars>>
  PROVE  SurvivalInv'
<1>1. CASE UNCHANGED <<vars, cutVars>>
  <2>1. UNCHANGED <<job, pieces, phase, at, cutVars, text>>
    BY <1>1 DEF vars, jobVars, cutVars
  <2>2. QED
    BY <2>1, KeepStays, CollectedStays DEF SurvivalInv, TextInv
<1>2. CASE CutText
  <2>1. UNCHANGED <<job, pieces, phase, at, text>>
    BY <1>2, CutContext DEF CutText, vars, jobVars, CuttingInv
  <2>2. KeepInv'
    BY <1>2, KeepKeeps DEF CuttingInv, SurvivalInv
  <2>3. QED
    BY <2>1, <2>2, CollectedStays DEF SurvivalInv, TextInv
<1>3. CASE Collect
  BY <1>3, CollectSurvival
<1>4. CASE Rest
  <2>1. /\ UNCHANGED <<job, pieces, cutVars>> /\ phase' # "chunk"
        /\ phase = "chunk" => at > Len(job.texts)
    BY <1>4 DEF Rest, AfterChunking, Build, Dispatch, ReplyOk, ReplyError, Place, MergeFirst,
                MergeNext, Merged, Terminated, vars, jobVars, Chunked
  <2>2. \A i \in 1 .. Len(job.texts) : phase = "chunk" => i < at
    <3>1. at \in Nat \ {0} /\ Len(job.texts) \in Nat
      BY JobsAreBatches DEF LongInv, PiecesInv
    <3>2. QED
      BY <2>1, <3>1
  <2>3. QED
    BY <2>1, <2>2, KeepStays, CollectedStays DEF SurvivalInv, TextInv
<1>5. QED
  BY <1>1, <1>2, <1>3, <1>4 DEF LongNext

LEMMA AlwaysSurvival == LongSpec => []SurvivalInv
<1>1. LongInv /\ CuttingInv /\ SurvivalInv /\ [LongNext]_<<vars, cutVars>> => SurvivalInv'
  BY NextSurvival
<1>2. QED
  BY <1>1, AlwaysLong, AlwaysCutting, InitSurvival, PTL DEF LongSpec

-----------------------------------------------------------------------------
(* The tokens behind a translation *)

PartTokens(part) == IF part = Separator THEN <<Cut!Break>> ELSE pieces[part[1]].content

\* The parts of a translation have tokens.
HaveTokens(parts) ==
  SomeSeq(parts) /\ \A k \in 1 .. Len(parts) : SomeSeq(PartTokens(parts[k]))

LEMMA TokensNone == Tokens(<<>>) = <<>> /\ HaveTokens(<<>>)
<1> DEFINE p == [k \in 1 .. 0 |-> PartTokens(<<>>[k])]
<1>1. FlattenSeq([k \in 1 .. 0 |-> p[k]]) = <<>>
  BY FlattenNone
<1>2. Len(<<>>) = 0
  OBVIOUS
<1>3. Tokens(<<>>) = FlattenSeq([k \in 1 .. 0 |-> p[k]])
  BY <1>2 DEF Tokens, PartTokens
<1> HIDE DEF p
<1>4. HaveTokens(<<>>)
  BY <1>2, EmptyIsSeq DEF HaveTokens
<1>5. QED
  BY <1>1, <1>3, <1>4

\* One more part adds its tokens.
LEMMA TokensStep ==
  ASSUME NEW parts, NEW x, HaveTokens(parts), SomeSeq(PartTokens(x))
  PROVE  LET all == parts \o <<x>>
         IN /\ HaveTokens(all) /\ SomeSeq(Tokens(parts))
            /\ Tokens(all) = Tokens(parts) \o PartTokens(x)
<1> DEFINE all == parts \o <<x>>
           n == Len(parts)
           p == [k \in 1 .. n + 1 |-> PartTokens(all[k])]
<1>1. SomeSeq(<<x>>) /\ Len(<<x>>) = 1 /\ <<x>>[1] = x
  <2>1. <<x>> \in Seq({x})
    OBVIOUS
  <2>2. QED
    BY <2>1 DEF SomeSeq
<1>2. /\ SomeSeq(all) /\ n \in Nat /\ Len(all) = n + 1
      /\ \A k \in 1 .. n : all[k] = parts[k]
      /\ all[n + 1] = x
  <2> DEFINE one == <<x>>
  <2>1. SomeSeq(parts) /\ SomeSeq(one) /\ Len(one) = 1 /\ one[1] = x
    BY <1>1 DEF HaveTokens
  <2> HIDE DEF one
  <2>2. /\ SomeSeq(parts \o one) /\ Len(parts) \in Nat
        /\ Len(parts \o one) = Len(parts) + Len(one)
        /\ \A k \in 1 .. Len(parts) : (parts \o one)[k] = parts[k]
        /\ \A k \in Len(parts) + 1 .. Len(parts) + Len(one) :
             (parts \o one)[k] = one[k - Len(parts)]
    BY <2>1, ConcatSeq
  <2>3. n + 1 \in Len(parts) + 1 .. Len(parts) + Len(one) /\ n + 1 - Len(parts) = 1
    BY <2>1, <2>2
  <2>4. (parts \o one)[n + 1] = x
    BY <2>1, <2>2, <2>3
  <2>5. QED
    BY <2>1, <2>2, <2>4 DEF one
<1> HIDE DEF all
<1>3. \A k \in 1 .. n : PartTokens(all[k]) = PartTokens(parts[k])
  BY <1>2
<1>4. HaveTokens(all)
  <2>1. ASSUME NEW k \in 1 .. n + 1 PROVE SomeSeq(PartTokens(all[k]))
    <3>1. CASE k \in 1 .. n
      BY <1>3, <3>1 DEF HaveTokens
    <3>2. CASE k \notin 1 .. n
      <4>1. k = n + 1
        BY <1>2, <3>2
      <4>2. QED
        BY <1>2, <4>1
    <3>3. QED
      BY <3>1, <3>2
  <2>2. QED
    BY <1>2, <2>1 DEF HaveTokens
<1>5. Tokens(all) = FlattenSeq([k \in 1 .. n + 1 |-> p[k]])
  <2>1. [k \in 1 .. n + 1 |-> p[k]] = [k \in 1 .. Len(all) |-> PartTokens(all[k])]
    BY <1>2
  <2>2. QED
    BY <2>1 DEF Tokens, PartTokens
<1>6. Tokens(parts) = FlattenSeq([k \in 1 .. n |-> p[k]])
  <2>1. \A k \in 1 .. n : k \in 1 .. n + 1
    BY <1>2
  <2>2. [k \in 1 .. n |-> p[k]] = [k \in 1 .. Len(parts) |-> PartTokens(parts[k])]
    BY <1>2, <1>3, <2>1
  <2>3. QED
    BY <2>2 DEF Tokens, PartTokens
<1>7. p[n + 1] = PartTokens(x) /\ \A k \in 1 .. n : SomeSeq(p[k])
  <2>1. n + 1 \in 1 .. n + 1 /\ \A k \in 1 .. n : k \in 1 .. n + 1
    BY <1>2
  <2>2. \A k \in 1 .. n : SomeSeq(PartTokens(all[k]))
    BY <1>3 DEF HaveTokens
  <2>3. QED
    BY <1>2, <2>1, <2>2
<1> HIDE DEF p, n
<1>8. FlattenSeq([k \in 1 .. n + 1 |-> p[k]])
        = FlattenSeq([k \in 1 .. n |-> p[k]]) \o p[n + 1]
  BY <1>2, <1>7, FlattenStep
<1>9. SomeSeq(FlattenSeq([k \in 1 .. n |-> p[k]]))
  BY <1>2, <1>7, FlattenGathers DEF Gathers
<1>10. QED
  BY <1>4, <1>5, <1>6, <1>7, <1>8, <1>9 DEF all

\* Behind a translation that is complete stands what the pieces hold of its text.
LEMMA TokensExpected ==
  ASSUME LongInv, CollectedInv, NEW i, NEW t, NEW n \in 0 .. Len(pieces)
  PROVE  /\ HaveTokens(ExpectedUpTo(i, t, n))
         /\ Tokens(ExpectedUpTo(i, t, n)) = Contents(pieces, i, n)
<1> DEFINE Same(k) == /\ HaveTokens(ExpectedUpTo(i, t, k))
                      /\ Tokens(ExpectedUpTo(i, t, k)) = Contents(pieces, i, k)
           T == {k \in 0 .. n : ~ Same(k)}
<1>1. SUFFICES ASSUME T # {} PROVE FALSE
  <2>1. Len(pieces) \in Nat
    BY AppendSeq DEF LongInv, PiecesInv
  <2>2. n \in 0 .. n
    BY <2>1
  <2>3. T = {} => Same(n)
    <3> HIDE DEF Same
    <3>1. QED
      BY <2>2
  <2>4. QED
    BY <2>3
<1>2. PICK k \in T : \A y \in T : k <= y
  <2>1. T \subseteq Nat
    OBVIOUS
  <2>2. QED
    BY <1>1, <2>1, HasLeast
<1>3. Same(0)
  <2>1. ExpectedUpTo(i, t, 0) = <<>> /\ Contents(pieces, i, 0) = <<>>
    BY ExpectedNone, ContentsNone
  <2>2. QED
    BY <2>1, TokensNone
<1>4. ~ Same(k) /\ k \in 0 .. n
  BY <1>2
<1>5. /\ Len(pieces) \in Nat /\ k \in 1 .. Len(pieces) /\ k \in Nat \ {0}
      /\ k - 1 \in 0 .. n /\ k - 1 \notin T
  <2>1. Len(pieces) \in Nat
    BY AppendSeq DEF LongInv, PiecesInv
  <2>2. k # 0
    <3> HIDE DEF Same
    <3>1. QED
      BY <1>3, <1>4
  <2>3. QED
    BY <1>2, <1>4, <2>1, <2>2
<1>6. Same(k - 1)
  BY <1>5
<1> HIDE DEF T
<1> DEFINE sofar == ExpectedUpTo(i, t, k - 1)
           own == TargetOf(k, t)
<1>7. HaveTokens(sofar) /\ Tokens(sofar) = Contents(pieces, i, k - 1)
  BY <1>6
<1>8. /\ Contents(pieces, i, k) = Contents(pieces, i, k - 1) \o PieceTokens(pieces, i, k)
      /\ SomeSeq(PieceTokens(pieces, i, k)) /\ SomeSeq(Contents(pieces, i, k - 1))
  <2>1. \A c \in 1 .. k : SomeSeq(pieces[c].content)
    BY <1>5 DEF CollectedInv
  <2>2. QED
    BY <1>5, <2>1, ContentsStep
<1>9. PartTokens(own) = pieces[k].content /\ SomeSeq(pieces[k].content)
  <2>1. own # Separator /\ own[1] = k
    BY <1>5 DEF TargetOf, Separator
  <2>2. QED
    BY <1>5, <2>1 DEF PartTokens, CollectedInv
<1>10. PartTokens(Separator) = <<Cut!Break>> /\ SomeSeq(<<Cut!Break>>)
  BY BoundaryIsSeq DEF PartTokens
<1>11. /\ pieces[k].join \in {<<>>, <<Separator>>} /\ pieces[k].first \in BOOLEAN
       /\ ExpectedUpTo(i, t, k) = sofar \o Share(i, t, k)
  BY <1>5, ExpectedStep DEF LongInv, PiecesInv
<1> HIDE DEF sofar, own
<1>12. SomeSeq(sofar) /\ SomeSeq(<<Separator>>) /\ SomeSeq(<<own>>)
  <2>1. <<Separator>> \in Seq({Separator}) /\ <<own>> \in Seq({own})
    OBVIOUS
  <2>2. QED
    BY <1>7, <2>1 DEF HaveTokens, SomeSeq
<1>13. Same(k)
  <2>1. CASE pieces[k].text # i
    <3>1. Share(i, t, k) = <<>> /\ PieceTokens(pieces, i, k) = <<>>
      BY <2>1 DEF Share, PieceTokens
    <3>2. ExpectedUpTo(i, t, k) = sofar /\ Contents(pieces, i, k) = Contents(pieces, i, k - 1)
      BY <1>8, <1>11, <1>12, <3>1, EmptyConcat
    <3>3. QED
      BY <1>7, <3>2
  <2>2. CASE pieces[k].text = i /\ (pieces[k].first \/ pieces[k].join = <<>>)
    <3>1. Share(i, t, k) = <<own>>
      <4>1. <<>> \o <<own>> = <<own>>
        BY <1>12, EmptyConcat
      <4>2. QED
        BY <2>2, <4>1 DEF Share, own
    <3>2. PieceTokens(pieces, i, k) = pieces[k].content
      BY <1>9, <2>2, EmptyConcat DEF PieceTokens
    <3>3. /\ HaveTokens(sofar \o <<own>>)
          /\ Tokens(sofar \o <<own>>) = Tokens(sofar) \o PartTokens(own)
      BY <1>7, <1>9, TokensStep
    <3>4. QED
      BY <1>7, <1>8, <1>9, <1>11, <3>1, <3>2, <3>3
  <2>3. CASE pieces[k].text = i /\ ~pieces[k].first /\ pieces[k].join = <<Separator>>
    <3> DEFINE more == sofar \o <<Separator>>
    <3>1. Share(i, t, k) = <<Separator>> \o <<own>>
      BY <2>3 DEF Share, own
    <3>2. ExpectedUpTo(i, t, k) = more \o <<own>>
      BY <1>11, <1>12, <3>1, ConcatAssoc
    <3>3. HaveTokens(more) /\ Tokens(more) = Tokens(sofar) \o <<Cut!Break>>
          /\ SomeSeq(Tokens(sofar))
      BY <1>7, <1>10, TokensStep
    <3> HIDE DEF more
    <3>4. /\ HaveTokens(more \o <<own>>)
          /\ Tokens(more \o <<own>>) = Tokens(more) \o PartTokens(own)
      BY <1>9, <3>3, TokensStep
    <3>5. PieceTokens(pieces, i, k) = <<Cut!Break>> \o pieces[k].content
      BY <2>3 DEF PieceTokens
    <3>6. (Tokens(sofar) \o <<Cut!Break>>) \o pieces[k].content
            = Tokens(sofar) \o (<<Cut!Break>> \o pieces[k].content)
      <4> DEFINE b == <<Cut!Break>>
                 q == pieces[k].content
                 r == Tokens(sofar)
      <4>1. SomeSeq(r) /\ SomeSeq(b) /\ SomeSeq(q)
        BY <1>9, <1>10, <3>3
      <4> HIDE DEF b, q, r
      <4>2. r \o (b \o q) = (r \o b) \o q
        BY <4>1, ConcatAssoc
      <4>3. QED
        BY <4>2 DEF b, q, r
    <3>7. Tokens(ExpectedUpTo(i, t, k)) = Contents(pieces, i, k)
      BY <1>7, <1>8, <1>9, <3>2, <3>3, <3>4, <3>5, <3>6
    <3>8. QED
      BY <3>2, <3>4, <3>7
  <2>4. QED
    BY <1>11, <2>1, <2>2, <2>3
<1>14. QED
  BY <1>4, <1>13

\* A translation without an error covers every sentence of the caller's text, once
\* and in order, and keeps its paragraphs apart, for every batch, however its texts
\* are cut and in whatever order the chunks are translated ("paragraph boundaries
\* survive round-trip translation", CHANGELOG.md:74); all it may leave out are
\* sentences without words in a paragraph beyond the ceiling (chunking.rs:88).
THEOREM WholeTextSurvives == LongSpec => []TextSurvives
<1>1. ASSUME LongInv, OutcomeInv, SurvivalInv PROVE TextSurvives
  <2> SUFFICES ASSUME phase = "done", NEW i \in 1 .. Len(results),
                      NEW t \in Targets \ DOMAIN results[i].errors
               PROVE  Essence(job.texts[i], Tokens(results[i].translations[t]))
                        = Essence(job.texts[i], WholeOf(job.texts[i]))
    BY DEF TextSurvives
  <2>1. results[i].translations[t] = ExpectedUpTo(i, t, Len(pieces))
    BY <1>1, MergedComplete DEF CompleteUnlessError, Complete
  <2>2. Len(pieces) \in 0 .. Len(pieces)
    BY <1>1, AppendSeq DEF LongInv, PiecesInv
  <2>3. Tokens(ExpectedUpTo(i, t, Len(pieces))) = Contents(pieces, i, Len(pieces))
    BY <1>1, <2>2, TokensExpected DEF SurvivalInv
  <2>4. i \in 1 .. Len(job.texts)
    BY <1>1, MergedInPlace DEF PartsInPlace
  <2>5. QED
    BY <1>1, <2>1, <2>3, <2>4 DEF SurvivalInv, CollectedInv
<1>2. QED
  BY <1>1, AlwaysLong, AlwaysOutcome, AlwaysSurvival, PTL

=============================================================================
