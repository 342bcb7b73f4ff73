----------------------------- MODULE BatchAssembly -----------------------------
(***************************************************************************)
(* What translate_batch and translate_batch_chunked do with texts and        *)
(* results (src/translator-core/src/engine.rs): the chunks of all texts are  *)
(* one flat batch; a chunk that needs a model becomes one work item for each *)
(* target language; replies come back in any order with the index of their   *)
(* item; translations and errors are placed by index, and those of the       *)
(* chunks of one text merged.                                                *)
(*                                                                          *)
(* A translation is the sequence of the parts it is made of: <<c, l>> is     *)
(* chunk c in language l, <<c, AsIs>> its unchanged text, and Separator the  *)
(* join separator of a chunk.                                                *)
(***************************************************************************)
EXTENDS Integers, Sequences, FiniteSets, SequencesExt

CONSTANTS
  Languages,   \* the supported languages
  NoLanguage,  \* the detection fails, or the caller gives no language
  Texts,       \* the texts
  Jobs         \* the batches: texts, targets and source_language

AsIs == "as is"
Separator == <<0, AsIs>>

ASSUME LanguagesAreApart == NoLanguage \notin Languages /\ AsIs \notin Languages
ASSUME JobsAreBatches ==
  Jobs \subseteq [texts : Seq(Texts), targets : Seq(Languages),
                  hint : Languages \cup {NoLanguage}]

VARIABLES
  job,           \* the batch
  phase,         \* "chunk", "build", "receive", "merge" or "done"
  at,            \* the text or chunk that the current loop is at
  pieces,        \* chunked_texts with chunk_map and chunk_separators
  source,        \* source_langs
  work,          \* work_indices
  outstanding,   \* the indices of work whose reply has not been received
  translated,    \* the indices of work whose reply was a text
  translations,  \* all_translations
  errors,        \* all_errors
  results        \* the merged results

jobVars == <<job, pieces>>
buildVars == <<source, work>>
replyVars == <<outstanding, translated>>
vars == <<jobVars, phase, at, buildVars, replyVars, translations, errors, results>>

Targets == {job.targets[k] : k \in 1 .. Len(job.targets)}
Empty == [l \in {} |-> <<>>]
Insert(f, k, v) == [x \in DOMAIN f \cup {k} |-> IF x = k THEN v ELSE f[x]]

Init ==
  /\ job \in Jobs
  /\ phase = "chunk" /\ at = 1
  /\ pieces = <<>> /\ source = <<>> /\ work = <<>>
  /\ outstanding = {} /\ translated = {}
  /\ translations = <<>> /\ errors = <<>> /\ results = <<>>

-----------------------------------------------------------------------------
(* The batch *)

\* The next text of the batch is cut into chunks: cs holds their contents, the
\* join separator of each, and whether it is blank.
AddText(cs) ==
  /\ phase = "chunk" /\ at <= Len(job.texts)
  /\ pieces' = pieces \o [c \in 1 .. Len(cs) |->
                            [text |-> at, first |-> c = 1, content |-> cs[c].text,
                             join |-> cs[c].join, blank |-> cs[c].blank]]
  /\ at' = at + 1
  /\ UNCHANGED <<job, phase, buildVars, replyVars, translations, errors, results>>

Chunked ==
  /\ phase = "chunk" /\ at > Len(job.texts)
  /\ phase' = "build" /\ at' = 1
  /\ UNCHANGED <<jobVars, buildVars, replyVars, translations, errors, results>>

\* The work items of a chunk in language src: none for the languages that it is
\* already in.
ItemsOf(c, src) ==
  FlattenSeq([k \in 1 .. Len(job.targets) |->
                IF job.targets[k] = src THEN <<>> ELSE <<<<c, job.targets[k]>>>>])

\* Lingua finds a language or none, and the scan for a script may add one; for a
\* blank text neither does.
Detected(piece) == IF piece.blank THEN {NoLanguage}
                   ELSE Languages \cup {NoLanguage}

\* Its language is the caller's or is detected; without one every target gets
\* an error.  A blank chunk, and a target that is the chunk's own language, get
\* the text unchanged.
Build ==
  /\ phase = "build" /\ at <= Len(pieces)
  /\ \E src \in IF job.hint # NoLanguage THEN {job.hint}
                                         ELSE Detected(pieces[at]) :
       LET known == src # NoLanguage
           same == IF ~known THEN {} ELSE IF pieces[at].blank THEN Targets
                   ELSE Targets \cap {src}
       IN /\ source' = Append(source, src)
          /\ translations' = Append(translations, [l \in same |-> <<<<at, AsIs>>>>])
          /\ errors' = Append(errors, [l \in IF known THEN {} ELSE Targets
                                         |-> "detection"])
          /\ work' = IF known /\ ~pieces[at].blank
                     THEN work \o ItemsOf(at, src) ELSE work
  /\ at' = at + 1
  /\ UNCHANGED <<jobVars, phase, replyVars, results>>

\* Every item is sent to the scheduler.
Dispatch ==
  /\ phase = "build" /\ at > Len(pieces)
  /\ phase' = "receive"
  /\ outstanding' = 1 .. Len(work)
  /\ UNCHANGED <<jobVars, at, buildVars, translated, translations, errors, results>>

-----------------------------------------------------------------------------
(* The replies *)

ReplyOk(k) ==
  /\ phase = "receive" /\ k \in outstanding
  /\ outstanding' = outstanding \ {k}
  /\ translated' = translated \cup {k}
  /\ UNCHANGED <<jobVars, phase, at, buildVars, translations, errors, results>>

PlaceByArrival(k) == work[Cardinality(outstanding)]  \* mutant
\* work_indices[idx]
PlaceOf(k) == work[k]

ReplyError(k) ==
  /\ phase = "receive" /\ k \in outstanding
  /\ outstanding' = outstanding \ {k}
  /\ errors' = [errors EXCEPT ![PlaceOf(k)[1]] =
                  Insert(@, PlaceOf(k)[2], "translation")]
  /\ UNCHANGED <<jobVars, phase, at, buildVars, translated, translations, results>>

\* After the last reply the texts are placed by index, and the detected language
\* gets the original text if it has no translation yet.
Place ==
  /\ phase = "receive" /\ outstanding = {}
  /\ LET done(c) == {work[k][2] : k \in {j \in translated : work[j][1] = c}}
         own(c) == {source[c]} \ {NoLanguage}
         placed(c) == [l \in DOMAIN translations[c] \cup done(c) \cup own(c) |->
                         IF l \in done(c) THEN <<<<c, l>>>> ELSE <<<<c, AsIs>>>>]
     IN translations' = [c \in 1 .. Len(pieces) |-> placed(c)]
  /\ phase' = "merge" /\ at' = 1
  /\ UNCHANGED <<jobVars, buildVars, replyVars, errors, results>>

-----------------------------------------------------------------------------
(* The merged results *)

\* The first chunk of a text starts its result.
MergeFirst ==
  /\ phase = "merge" /\ at <= Len(pieces) /\ pieces[at].first
  /\ results' = Append(results, [detected |-> source[at],
                                 translations |-> translations[at],
                                 errors |-> errors[at]])
  /\ at' = at + 1
  /\ UNCHANGED <<jobVars, phase, buildVars, replyVars, translations, errors>>

JoinWithout(join, old, new) == old \o new  \* mutant
JoinInFront(join, old, new) == new \o join \o old  \* mutant
JoinWith(join, old, new) == old \o join \o new

DropErrors(f, g) == f  \* mutant
\* The first error of a language is kept.
KeepFirst(f, g) == [l \in DOMAIN f \cup DOMAIN g |->
                      IF l \in DOMAIN f THEN f[l] ELSE g[l]]

\* Those of the other chunks are appended, after their separator if the
\* language has a text already.
MergeNext ==
  /\ phase = "merge" /\ at <= Len(pieces) /\ ~pieces[at].first
  /\ LET last == Len(results)
         old == results[last].translations
         new == translations[at]
     IN results' = [results EXCEPT
          ![last].translations =
             [l \in DOMAIN old \cup DOMAIN new |->
                IF l \notin DOMAIN new THEN old[l]
                ELSE IF l \notin DOMAIN old THEN new[l]
                ELSE JoinWith(pieces[at].join, old[l], new[l])],
          ![last].errors = KeepFirst(@, errors[at])]
  /\ at' = at + 1
  /\ UNCHANGED <<jobVars, phase, buildVars, replyVars, translations, errors>>

Merged ==
  /\ phase = "merge" /\ at > Len(pieces)
  /\ phase' = "done"
  /\ UNCHANGED <<jobVars, at, buildVars, replyVars, translations, errors, results>>

Terminated == phase = "done" /\ UNCHANGED vars

AfterChunking ==
  \/ Chunked \/ Build \/ Dispatch \/ Place \/ MergeFirst \/ MergeNext \/ Merged
  \/ Terminated
  \/ \E k \in 1 .. Len(work) : ReplyOk(k) \/ ReplyError(k)

-----------------------------------------------------------------------------

ChunksOf(i) == {c \in 1 .. Len(pieces) : pieces[c].text = i}
TargetOf(c, t) == IF pieces[c].blank \/ source[c] = t THEN <<c, AsIs>> ELSE <<c, t>>

\* What chunk c contributes to the translation of text i.
Share(i, t, c) ==
  IF pieces[c].text # i THEN <<>>
  ELSE (IF pieces[c].first THEN <<>> ELSE pieces[c].join) \o <<TargetOf(c, t)>>

\* A text is complete when it has every chunk, translated or rightly left as it
\* is, in order, and before each but the first its separator.
ExpectedUpTo(i, t, n) == FlattenSeq([c \in 1 .. n |-> Share(i, t, c)])
Complete(i, t, parts) == parts = ExpectedUpTo(i, t, Len(pieces))

\* The parts are chunks of text i, in order, each once.
InPlace(i, parts) ==
  LET chunkAt == {a \in 1 .. Len(parts) : parts[a] # Separator}
  IN /\ \A a \in chunkAt : parts[a][1] \in ChunksOf(i)
     /\ \A a, b \in chunkAt : a < b => parts[a][1] < parts[b][1]

\* The outcome of the batch: one result per text, in the order of the texts, and
\* what a result contains was made of chunks of that text, in order, each once
\* (chunk_map, work_indices and the reply's index: engine.rs:262, 431 and 478).
PartsInPlace ==
  phase = "done" =>
    /\ Len(results) = Len(job.texts)
    /\ \A i \in 1 .. Len(results) : \A l \in DOMAIN results[i].translations :
         InPlace(i, results[i].translations[l])

\* Each text and target has a translation or an error, and one without an error
\* is complete: a failed chunk never goes unnoticed in a merged translation.
CompleteUnlessError ==
  phase = "done" =>
    \A i \in 1 .. Len(results) : \A t \in Targets \ DOMAIN results[i].errors :
      /\ t \in DOMAIN results[i].translations
      /\ Complete(i, t, results[i].translations[t])

\* An error has a cause in the same text and language; "other texts in the same
\* batch are unaffected" (ENGINE.md:79).
ErrorsHaveCauses ==
  phase = "done" =>
    \A i \in 1 .. Len(results) : \A t \in DOMAIN results[i].errors :
      \E c \in ChunksOf(i) :
        \/ source[c] = NoLanguage
        \/ \E k \in (1 .. Len(work)) \ translated : work[k] = <<c, t>>

=============================================================================
