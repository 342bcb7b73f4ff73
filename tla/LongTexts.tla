------------------------------- MODULE LongTexts -------------------------------
(***************************************************************************)
(* translate_batch_chunked as a whole: every text of a batch is cut by       *)
(* Chunking, and the chunks are translated and merged by BatchAssembly       *)
(* (src/translator-core/src/engine.rs and chunking.rs).                      *)
(***************************************************************************)
EXTENDS BatchAssembly

CONSTANTS ParagraphTarget, MaxChars

ASSUME LimitsAreNatural == ParagraphTarget \in Nat /\ MaxChars \in Nat

\* split("\n\n") yields at least one paragraph.
ASSUME TextsAreParagraphs ==
  Texts \subseteq Seq(Seq([len : Nat, words : BOOLEAN])) \ {<<>>}

VARIABLES text, step, para, sentence, before, chunks, current, currentSep

cutVars == <<text, step, para, sentence, before, chunks, current, currentSep>>

Cut == INSTANCE Chunking

BatchInit == Init
LongInit == BatchInit /\ text = job.texts[1] /\ Cut!Start

CutText == phase = "chunk" /\ at <= Len(job.texts) /\ Cut!Next /\ UNCHANGED vars

\* The chunks of the text as the batch sees them.
Pieces ==
  [c \in 1 .. Len(chunks) |->
     [text  |-> chunks[c].text,
      join  |-> IF chunks[c].join = <<>> THEN <<>> ELSE <<Separator>>,
      blank |-> \A k \in 1 .. Len(chunks[c].text) : chunks[c].text[k] = Cut!Break]]

\* Chunks are collected, and the next text is cut.
Collect ==
  /\ step = "done" /\ AddText(Pieces)
  /\ IF at < Len(job.texts)
     THEN /\ text' = job.texts[at + 1]
          /\ step' = "start" /\ para' = 1 /\ sentence' = 0 /\ before' = 0
          /\ chunks' = <<>> /\ current' = <<>> /\ currentSep' = <<>>
     ELSE UNCHANGED cutVars

Rest == AfterChunking /\ UNCHANGED cutVars

LongNext == CutText \/ Collect \/ Rest

LongSpec == LongInit /\ [][LongNext]_<<vars, cutVars>>

-----------------------------------------------------------------------------

JoinedExactly == Cut!JoinedExactly
ChunksBounded == Cut!ChunksBounded

=============================================================================
