----------------------------- MODULE TextSurvival -----------------------------
(***************************************************************************)
(* What a merged translation of LongTexts keeps of its text: the chunks that *)
(* it is made of are put in the place of their translations and compared     *)
(* with the text of the caller.                                              *)
(***************************************************************************)
EXTENDS LongTexts

\* The tokens of text x.
WholeOf(x) ==
  FlattenSeq([p \in 1 .. Len(x) |-> (IF p = 1 THEN <<>> ELSE <<Cut!Break>>)
                                      \o [k \in 1 .. Len(x[p]) |-> <<p, k>>]])

\* The tokens of the text that stand behind the parts of a translation.
Tokens(parts) ==
  FlattenSeq([k \in 1 .. Len(parts) |->
                IF parts[k] = Separator THEN <<Cut!Break>>
                ELSE pieces[parts[k][1]].content])

\* A sentence is left out only if it has no words and its paragraph is one that
\* has to be cut: unicode_sentences skips it (chunking.rs:88).
LeftOut(x, t) == ~x[t[1]][t[2]].words /\ Cut!TooLong(x, t[1])

\* Reading text x one token after the other: of the sentences, what is not left
\* out, and a break where something is kept before it and after it, once.
Nothing == [kept |-> <<>>, apart |-> FALSE]
ReadToken(x, read, t) ==
  IF t = Cut!Break THEN [kept |-> read.kept, apart |-> read.kept # <<>>]
  ELSE IF LeftOut(x, t) THEN read
  ELSE [kept  |-> read.kept \o (IF read.apart THEN <<Cut!Break>> ELSE <<>>) \o <<t>>,
        apart |-> FALSE]
Reading(x, read, tokens) ==
  LET upTo[k \in 0 .. Len(tokens)] ==
        IF k = 0 THEN read ELSE ReadToken(x, upTo[k - 1], tokens[k])
  IN upTo[Len(tokens)]
Essence(x, tokens) == Reading(x, Nothing, tokens).kept

\* However a text is cut, and in whatever order its chunks are translated, a
\* merged translation without an error covers every sentence of it once and in
\* order, those without words too unless their paragraph is beyond the ceiling,
\* and keeps its paragraphs apart ("paragraph boundaries survive round-trip
\* translation", CHANGELOG.md:74).  The exception is not what chunking.rs:78
\* says, that a text without boundaries is left as it is.
TextSurvives ==
  phase = "done" =>
    \A i \in 1 .. Len(results) : \A t \in Targets \ DOMAIN results[i].errors :
      Essence(job.texts[i], Tokens(results[i].translations[t]))
        = Essence(job.texts[i], WholeOf(job.texts[i]))

=============================================================================
