------------------------------- MODULE Chunking -------------------------------
(***************************************************************************)
(* chunk_text of translator-core (src/translator-core/src/chunking.rs):      *)
(* a text is cut at paragraph boundaries, an oversized paragraph at sentence *)
(* boundaries, and every chunk remembers what to put before it when the      *)
(* translations are joined again.                                            *)
(*                                                                          *)
(* A text, its line endings already normalized, is a sequence of paragraphs; *)
(* a paragraph is a sequence of sentences; a sentence is a length in bytes   *)
(* and whether it contains a letter or digit, since unicode_sentences skips  *)
(* those that do not.  What is built from it is a sequence of tokens: <<p,   *)
(* k>> is sentence k of paragraph p, and Break is "\n\n".                    *)
(***************************************************************************)
EXTENDS Integers, Sequences, SequencesExt

CONSTANTS
  Texts,            \* the texts that may be cut
  ParagraphTarget,  \* paragraph_target
  MaxChars          \* max_chars

VARIABLES
  text,        \* the text
  step,        \* where the function is
  para,        \* the paragraph the loop is at
  sentence,    \* the sentence that chunk_by_sentences is at
  before,      \* chunks_before: number of chunks when it was called
  chunks,      \* the chunks made so far
  current,     \* the accumulator
  currentSep   \* current_sep

vars == <<text, step, para, sentence, before, chunks, current, currentSep>>

Break == <<0, 0>>

\* The bytes of a token of text x, and of a sequence of them.
Bytes(x, t) == IF t = Break THEN 2 ELSE x[t[1]][t[2]].len
SizeIn(x, tokens) ==
  LET upTo[k \in 0 .. Len(tokens)] ==
        IF k = 0 THEN 0 ELSE upTo[k - 1] + Bytes(x, tokens[k])
  IN upTo[Len(tokens)]
Size(tokens) == SizeIn(text, tokens)

ParagraphOf(x, p) == [k \in 1 .. Len(x[p]) |-> <<p, k>>]
Paragraph(p) == ParagraphOf(text, p)

\* The first n paragraphs with the breaks between them.
Original(n) ==
  FlattenSeq([p \in 1 .. n |-> IF p = 1 THEN Paragraph(p) ELSE <<Break>> \o Paragraph(p)])
Whole == Original(Len(text))

Chunk(tokens, join) == [text |-> tokens, join |-> join]

Start ==
  /\ step = "start"
  /\ para = 1 /\ sentence = 0 /\ before = 0
  /\ chunks = <<>> /\ current = <<>> /\ currentSep = <<>>

Init == text \in Texts /\ Start

-----------------------------------------------------------------------------

\* A text within the ceiling is one chunk.
Begin ==
  /\ step = "start"
  /\ IF Size(Whole) <= MaxChars
     THEN step' = "done" /\ chunks' = <<Chunk(Whole, <<>>)>>
     ELSE step' = "paragraphs" /\ UNCHANGED chunks
  /\ UNCHANGED <<text, para, sentence, before, current, currentSep>>

\* The separator before the first chunk is empty.
SepAfter(cs) == IF cs = <<>> THEN <<>> ELSE <<Break>>

Extended == current \o <<Break>> \o Paragraph(para)

TooMuch ==
  /\ current # <<>>
  /\ Size(current) + 2 + Size(Paragraph(para)) > ParagraphTarget
TooLong(x, p) == SizeIn(x, ParagraphOf(x, p)) > MaxChars
Oversized == TooLong(text, para)

\* The accumulator can take the paragraph.
Pack ==
  /\ step = "paragraphs" /\ para <= Len(text)
  /\ ~TooMuch /\ current # <<>>
  /\ current' = Extended
  /\ para' = para + 1
  /\ UNCHANGED <<text, step, sentence, before, chunks, currentSep>>

\* The accumulator is empty, or is flushed; the paragraph starts a new one,
\* unless it has to be cut into sentences.
Flush ==
  /\ step = "paragraphs" /\ para <= Len(text)
  /\ TooMuch \/ current = <<>>
  /\ chunks' = IF TooMuch THEN Append(chunks, Chunk(current, currentSep))
                          ELSE chunks
  /\ IF Oversized
     THEN /\ step' = "sentences"
          /\ sentence' = 1 /\ before' = Len(chunks')
          /\ current' = <<>>
          /\ currentSep' = IF TooMuch THEN <<Break>> ELSE currentSep
          /\ UNCHANGED para
     ELSE /\ current' = Paragraph(para)
          /\ currentSep' = SepAfter(chunks')
          /\ para' = para + 1
          /\ UNCHANGED <<step, sentence, before>>
  /\ UNCHANGED text

\* para_separator: the first chunk of a text has none.
ParaSep == IF before = 0 THEN <<>> ELSE <<Break>>

BreakEverywhere == ParaSep  \* mutant
\* Only the first chunk that a paragraph is cut into follows a boundary.
SentenceSep == IF Len(chunks) = before THEN ParaSep ELSE <<>>

FullTooLate(s) == current # <<>> /\ Size(current) > MaxChars  \* mutant
SentenceFull(s) == current # <<>> /\ Size(current) + s.len > MaxChars

\* chunk_by_sentences: the next sentence that unicode_sentences yields.
NextSentence ==
  /\ step = "sentences" /\ sentence <= Len(text[para])
  /\ LET s == text[para][sentence]
         token == <<para, sentence>>
     IN IF ~s.words THEN UNCHANGED <<chunks, current>>
        ELSE IF SentenceFull(s)
        THEN /\ chunks' = Append(chunks, Chunk(current, SentenceSep))
             /\ current' = <<token>>
        ELSE /\ current' = Append(current, token)
             /\ UNCHANGED chunks
  /\ sentence' = sentence + 1
  /\ UNCHANGED <<text, step, para, before, currentSep>>

SentencesDone ==
  /\ step = "sentences" /\ sentence > Len(text[para])
  /\ step' = "paragraphs" /\ para' = para + 1
  /\ currentSep' = IF current # <<>> THEN SentenceSep ELSE currentSep
  /\ UNCHANGED <<text, sentence, before, chunks, current>>

\* What is left in the accumulator is the last chunk; without any chunk the
\* whole text is one.
Finish ==
  /\ step = "paragraphs" /\ para > Len(text)
  /\ step' = "done"
  /\ chunks' = IF current # <<>> THEN Append(chunks, Chunk(current, currentSep))
               ELSE IF chunks = <<>> THEN <<Chunk(Whole, <<>>)>>
               ELSE chunks
  /\ UNCHANGED <<text, para, sentence, before, current, currentSep>>

Next == Begin \/ Pack \/ Flush \/ NextSentence \/ SentencesDone \/ Finish

Spec == Init /\ [][Next]_vars

-----------------------------------------------------------------------------

\* What the chunks are when they are joined with their separators.
Joined(cs) == FlattenSeq([c \in 1 .. Len(cs) |-> cs[c].join \o cs[c].text])

HasWords(t) == t # Break /\ text[t[1]][t[2]].words

\* "Reassembled content preserves original text" (the tests of chunking.rs),
\* exactly, when no paragraph is empty and every sentence has words.
JoinedExactly ==
  step = "done" /\ (\A p \in 1 .. Len(text) :
                      text[p] # <<>> /\ \A k \in 1 .. Len(text[p]) : text[p][k].words)
    => Joined(chunks) = Whole

\* A chunk exceeds both limits only if it is a single sentence, or the text has
\* no words at all ("Hard ceiling per chunk", ENGINE.md:65).
ChunksBounded ==
  \A c \in 1 .. Len(chunks) :
    \/ Size(chunks[c].text) <= MaxChars
    \/ Size(chunks[c].text) <= ParagraphTarget
    \/ Len(chunks[c].text) = 1
    \/ \A t \in ToSet(Whole) : ~HasWords(t)

=============================================================================
