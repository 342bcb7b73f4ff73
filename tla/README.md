# Universal Translator: a TLA+ verification project

The repository is a translation service written in Rust: a library
(`translator-core`) that runs TranslateGemma through llama.cpp, an HTTP server
(`translator-api`), an HTTP client (`translator-api-client`) and a command line
tool (`translator-cli`). This directory holds TLA+ models of its concurrent and
stateful parts, the TLC configurations that check them and proofs checked by
TLAPS. Line numbers refer to the sources of the commit the project was written
against.

## 1. The system

| Component | Source | State | Operations |
|---|---|---|---|
| Continuous-batching scheduler | `translator-core/src/scheduler/continuous.rs` | slots, free sequence ids, `carry_over`, the batch under construction, llama.cpp's KV cache | fill the empty slots (prefill), decode one token for all active slots, retire, refill, wait idle, accumulate a burst, shut down |
| Engine: dispatch | `translator-core/src/engine.rs` 332-522 | one bounded work channel shared by all calls; per call one reply channel, the number of enqueued items, the results placed so far | enqueue each work item (`try_send`, then `send_timeout`), collect the replies, assemble |
| Engine: life cycle | `engine.rs` 59-100, 137-197 | clones of the engine, the channel's senders, the scheduler's join handle | start the thread, clone, drop, join |
| Engine: chunked batches | `engine.rs` 230-309 | chunk map | split long texts, translate, merge the chunks' translations and errors |
| Chunking | `translator-core/src/chunking.rs` | chunks, current accumulator, its separator | paragraph packing, sentence fallback |
| Sampling | `translator-core/src/scheduler/sampling.rs` | the output tokens so far | repetition and n-gram filters, end-token bias, tail-repeat stop, top-K/top-P sampling |
| Model and detector | `model.rs`, `detector.rs`, `language.rs`, `types.rs`, `error.rs` | none that changes after loading | load, tokenize, decode ids, detect a language, parse a code |
| HTTP server | `translator-api/src` | one shared engine, limits; tokio's workers and blocking threads | load and listen; validate, translate, stream (one event per text, then `done`), detect, list, health |
| HTTP client | `translator-api-client/src` | attempt counter; parse buffer of the event stream | retry with backoff, parse server-sent events |
| Load test | `translator-api-client/src/bin/load_test.rs` | the tasks of a scenario, the semaphore's permits, latencies, errors | warm up, spawn, acquire, join, report |
| Command line | `translator-cli/src` | the model file and its temporary file | translate, detect, list, download the model |
| Observability | `docker/`, `.github/`, `METRICS.md` | none | dashboards, exporters, CI |

How they interact:

* Any number of threads call `translate_batch` on clones of one engine. Each
  puts its work items, one per text and target language, into one bounded
  crossbeam channel. The scheduler thread is the only receiver. Every item
  carries a clone of its caller's `mpsc::Sender`; the caller waits for as many
  replies as it enqueued, with no timeout.
* The scheduler thread owns the llama.cpp context. It is sequential, but the
  channel changes under it between any two of its steps, and `ctx.decode` may
  fail or, in llama.cpp, panic; the closure that runs the thread catches that.
* The thread ends when the channel is closed and empty; the channel closes when
  the last engine clone drops its sender; that drop then joins the thread.
* The server runs each call with `spawn_blocking`, which nobody cancels; the stream
  route makes one call per text. The client retries on connection errors, timeouts,
  429 and 5xx; the load test uses it without retries.
* `ut setup` writes the model under a temporary name and renames it; the server and
  the other commands map the file of the final name into memory.

What is hard in it: requests reach a prefill batch along three paths and leave a
slot along five; sequence ids, slots, cache cells and reply senders are four
books that every path has to keep in step; a caller that gives up leaves its
items behind; the waiting is without timeouts, so a lost request is a hung
caller; shutdown depends on the order in which struct fields drop; a timed-out
request goes on in the server; and setups that run at once, or are killed, share
one temporary file.

What makes each component correct:

* scheduler: every request is answered exactly once or its caller learns of the
  thread's end; slots, sequence ids and cache agree; nothing waits for ever;
  requests are served in order;
* dispatch: a call that returns `Ok` has a translation or an error for every
  item; a call always returns; an error of the whole call means an overload or
  an outage;
* life cycle: dropping the last clone ends the thread and does not deadlock;
* chunking and merging: no text is lost, duplicated or reordered, chunk sizes are
  bounded;
* sampling: the end token is always a candidate, no banned token is chosen, and no
  n-gram repeats;
* server and client: one event per text and one `done`; a request is retried a
  bounded number of times and only after an error of a transient kind;
* the other routes: they are answered while translations block;
* load test: it ends, and a report hides nothing of what its scenario has left
  running;
* model file: what has the final name is a whole model, and stays so while a server
  has it mapped.

## 2. The plan

| Step | Modules | What | State |
|---|---|---|---|
| 1 | `Scheduler`, `MCScheduler` | the scheduler thread in full detail | checked |
| 2 | `SchedulerProofs` | its types, its books, one answer per request | proved |
| 3 | `WorkPool`, `SchedulerPool`, `SchedulerPoolProofs` | what the scheduler promises to callers, and that it keeps it | checked, proved |
| 4 | `TranslationService`, `TranslationServiceProofs`, `MCTranslationService` | concurrent callers and the engine's life over `WorkPool` | checked, safety proved |
| 5 | `Chunking`, `BatchAssembly`, `LongTexts`, `TextSurvival`, `LongTextsProofs`, `MCLongTexts` | cutting texts, the assembly of a batch, and both together | checked, proved |
| 6 | `Sampling`, `SamplingProofs`, `MCSampling` | filters, top-K heap, draw, ceiling | checked, proved |
| 7 | `SseStream`, `ClientCall`, `ClientCallProofs`, `MCClientCall` | the stream and its parser; attempts and the server's limits | checked, safety proved |
| 8 | `ModelSetup`, `ModelSetupProofs`, `MCModelSetup` | download, rename and kill; several setups at once; servers that load | checked, safety proved |
| 9 | `ApiServer`, `LoadTest`, `LoadTestProofs`, `MCLoadTest` | the server's threads and its other routes; the load test against it | checked, reports proved |

How they depend on each other:

    Scheduler <- SchedulerPool -> WorkPool <- TranslationService
    Chunking  <- LongTexts     -> BatchAssembly
    SseStream <- ClientCall        ApiServer      <- LoadTest
    Sampling                       ModelSetup

`SchedulerPool` maps `Scheduler` to `WorkPool`; `TranslationService` uses `WorkPool`
in its place. `LongTexts` feeds the chunks of `Chunking` to `BatchAssembly`, and
`ClientCall` hands its successful attempt to `SseStream`; `LoadTest` is a client of
`ApiServer`. Each `MC` module only gives constants their values; every `Proofs`
module extends the one it is about.

The type invariants (`TypeOK`) of the modules with proofs are theorems for all values
of the constants (`Typing`, `ServiceTyping`,
`SamplingTyping`, `ClientTyping`, `SetupTyping`, `LoadTyping`), and the configurations
check the properties that are about the code's hazards.

## 3. The scheduler

### The model

`Scheduler.tla` follows `run_loop` of `continuous.rs`. `pc` names the place in the
loop, and the variables are its locals: `slots` (the occupied entries of the slot
array), `free` (`free_seq_ids`), `carry`, `pending`, `room`, and `entries` and
`batchTokens` of the batch under construction. `kv` counts the cells that llama.cpp
holds for each sequence. `queue` and `open` are the work channel, `submitted` and
`replies` what went in and what was sent back. An item stands for one
`InferRequest`; a prompt is its number of tokens.

| Code | Actions |
|---|---|
| thread start, context creation, end of the closure (148-232) | `CreateContext`, `ContextFails`, `Panic`, `EndThread` |
| `collect_pending` with carry-over first (476-512) | `StartFill`, `FillTop`, `Refill`, `Collect`, `Tokenize`, `CollectDone` |
| idle wait, accumulation window, carry-over (270-325) | `IdleReceive`, `Shutdown`, `Accumulate`, `AccumulateDone` |
| `batch_prefill_and_assign` (535-677) | `BuildEntry`, `PrefillOk`, `PrefillFails`, `AssignEntry`, `DropEntry`, `AssignDone` |
| decode, sample, ceiling, retire (330-431) | `DecodeOk`, `DecodeFails`, `Retire` |
| callers (`engine.rs` 444-462, and the last drop) | `Submit`, `CloseChannel` |

A step is one iteration of an inner loop or one call of llama.cpp, so that callers
put items into the channel, or close it, at every point where the thread can see
the difference. Which requests end with a token, or fail, is chosen freely: what
the tokens are is the subject of `Sampling`. `Faults` says which failures the
backend may show: no context, a prompt that the tokenizer rejects, a failed decode,
a panic inside llama.cpp (which the closure catches). `free` is a set where the code
has a stack: nothing depends on which free id is taken.

`WorkPool.tla` is the abstract specification: a thread takes items from a bounded
channel, answers any set of the items it holds, at most once each, and is gone one
day. Dropping held items without an answer is a step of it (`Lose`) only when
`MayLose` is set. `SchedulerPool` gives the mapping: `held` is all that the lists,
the batch and the slots contain, `MayLose` is "there are more than `2 * NSlots`
items".

### What the runs show

* `scheduler_safety`: two slots, four items, prompts of every length up to one too
  many, all faults. The books agree (`PoolsAgree`, `CacheInStep`), the branches
  that the code calls impossible are (`ResourcesSuffice`: no free id, no slot, a
  batch beyond its capacity), every item is answered at most once and none
  disappears (`AnsweredOnce`, `NoSilentDrop`), nothing that waits is overtaken
  (`NoOvertaking`), `recv` blocks only without work, and `WorkPool` is implemented.
  Four items on two slots make two rounds: a batch, a carry-over and a refill.
* `scheduler_live`: every item gets an answer and the thread ends after the channel
  is closed. Three items on two slots.
* `stranded_carry` (violation): three items on one slot. See section 10.
* `budget_ends_in_error` (violation): a generation longer than its share.

Fairness: `WF_vars(Thread)`. The thread is an OS thread that blocks only in
`recv`; whatever else it does ends by itself (llama.cpp calls, the accumulation
window, which is a timeout). Nothing is assumed of the callers.

### What is proved

For every number of slots, items, budget and capacity:

* `Typing`, and `PoolInv = TypeOK /\ PoolsAgree /\ BatchFits`, inductive. `PoolsAgree`
  alone is not enough for `ResourceSafety`: that a sequence id is free when a prompt
  reaches `BuildEntry` needs `BatchFits` (what is collected fits the empty slots
  *that are left when the batch was begun*), and a counting argument over slot
  indices and ids, `CountSlots` and `FreeSequence`.
* `CacheSafety` from `PoolInv`.
* `HolderSafety` and `ReplySafety` from `OneHolder /\ ReplyBound`: an item that is
  held or queued has no answer yet, hence an answered one cannot be answered again.
  Both hold in an overload too, when `carry_over` is stranded by an idle wait and
  assigned a second time.
* `Refinement`: every step of `Scheduler` is a step of `WorkPool` or a stutter. With
  more than `2 * NSlots` items nothing else is needed; with fewer, `CarryInv` shows
  that `carry_over` is empty whenever it is assigned, so nothing is lost.
* `NothingLost` and `NothingStranded`: as long as at most two rounds are
  outstanding (`[]LightLoad`), no item disappears and `recv` blocks only without
  work. This is the exact border of the defect in section 10.

* `ServedInOrder`: as long as that load is not exceeded nothing that waits is overtaken
  (`NoOvertaking`). The items that wait are one line, `pending` then `carry_over` then
  the channel; every step takes some from its front or adds some at its end, which
  keeps the order of any two. It is not so when the channel is read into `pending`
  behind a `carry_over` that is not empty: `RoomInv` (there is room for the channel
  only when nothing is carried over) and `CarryInv` exclude that.

Liveness is model-checked only.

## 4. Callers and the engine's life

`TranslationService.tla`: each call has a phase (`new`, `sending`, `waiting` in
`send_timeout`, `receiving`, then `ok`, `unavailable` or `failed`), the number of
items it put into the channel and of replies it received. `TrySend`, `TrySendFull`,
`SendWaiting`, `SendGivesUp`, `TrySendDisconnected` are the branches of the dispatch
loop; a call that leaves early leaves its items behind, which the thread still
answers to nobody. `Receive` takes *any* unread reply of its items, as the code does
not look which item a reply is for; `RecvFails` is the disconnected reply channel.
`senders` and `guards` are the two fields of the engine's clones, dropped one after
the other; the last guard joins the thread, so `DropGuard` of the last owner waits.

* `service`: two calls of up to two items through a channel of one, which makes both
  wait in `send_timeout`, on each other's items too; a thread that may end at any
  time and, with `MayLose` (an overload), may lose what it holds or keep it for ever. A
  call that returns `Ok` has one result of every item (`OkIsComplete`); a call fails as
  a whole only because the thread is gone or one of its own items is lost
  (`FailureHasCause`), so that neither a slow item nor another call takes it down. Every
  call returns unless an item *of its own* is kept for ever (`EveryCallReturns`): a lost
  item does not hang it, thanks to the dropped reply sender, nor does a full channel
  or another call. And the engine is freed, with the thread joined, once its
  owner drops it, unless such a call is left waiting (`EngineIsFreed`).
* `service_unavailable` (violation): see section 10.

Fairness: each call and each drop proceeds when it can; a wait in `send_timeout`
ends by itself; the owner need not drop its engine, but a drop that has begun goes
on. Of the thread, `WorkPool!Fairness`: it takes and refuses what is queued, since
`recv` returns when a request arrives, and ends when the channel is closed, since
`recv` then fails; it answers what is `Prompt`: everything without an overload, which is
`EveryItemAnswered` of section 3, and nothing in one, where `carry_over` may be kept by
a thread that waits in `recv` (`stranded_carry`). So under `LightLoad`, where nothing is
kept, every call returns and the engine is freed without exception.

Proved for any number of calls:
`ServiceTyping`, `OkComplete` (inductive `Inv = TypeOK /\ Books /\ Counts`: a call's
counter is the number of its items' replies that it has read, and no item has two), and
`FailureCause`. Liveness is model-checked.

## 5. Long texts

`Chunking.tla` is `chunk_text` and `chunk_by_sentences`: `current`, its separator and
the chunks so far, over a text that is a sequence of paragraphs of sentences. A
token is a sentence, named by its place, or a paragraph break, so that a lost or
doubled piece is visible; sizes are in bytes, as in the code. Line endings are
normalized before the model starts. `BatchAssembly.tla` is `translate_batch` and
`translate_batch_chunked` around the scheduler: work items, replies by index in any
order, errors, and the merge of each text's chunks. A translation is the sequence of
chunks (and separators) that it was made of. `LongTexts.tla` runs the two in a row, and
`TextSurvival.tla` says what has to be left of a text after that.

* `long_texts`: all texts of up to three paragraphs out of seven kinds (empty; fits; to
  be cut; one sentence beyond the ceiling; sentences without words at both ends; nothing
  but those, within the ceiling and beyond it), with a target size and a ceiling that
  each of these decides differently; and batches of two and three texts with duplicate
  targets, a target equal to the source language, a hint, no detected language, blank
  texts, every set of failing items and every order of replies. `JoinedExactly` is what
  the tests of `chunking.rs` say of five texts; `ChunksBounded` is the ceiling with its
  exceptions; `PartsInPlace`, `CompleteUnlessError`, `ErrorsHaveCauses` are the merge;
  `TextSurvives` relates both ends: a merged translation without an error covers every
  sentence of the text once, in order, with its paragraphs apart. Its one exception is
  what the code loses: a sentence without words in a paragraph beyond the ceiling
  (section 10).

Three paragraphs are the smallest number with a chunk before and after a cut one;
nothing in the code looks further back than the current accumulator.

Proved in `LongTextsProofs`, for every batch, every text, both limits and every set of
languages: `PartsInPlace` (`PartsHold`) and `ErrorsHaveCauses` (`ErrorsAreLocal`). The
inductive invariant is `LongInv`. Its base is `CutInv`, that a text is never cut into
nothing: otherwise the results would be one text behind. `PiecesInv` says that the
pieces of the texts follow each other with the first of each marked, from which
`MergeInv` concludes which text the merge is at; `LoopInv` ties work items to chunks;
`ChunkErrors` traces an error to a reply that has arrived and was none. What a merged
translation contains is proved with sequences of any length (`JoinedParts`).

`CompleteOrError` is `CompleteUnlessError`: a text and target without an error has every
chunk, in order, with its separators. `OutcomeInv` follows a chunk and target through
the batch: it has an error, or a work item, or is left as it is (`ItemsInv`); an item
has been answered by a text, is outstanding, or has become an error (`ErrorsInv`);
what stays unchanged is there from the beginning (`AsIsInv`); so after the last reply
whatever has no error has its text (`PlacedInv`), and the merge keeps that for the
texts up to where it is (`SoFarInv`).

`ChunksWithinLimits` (`ChunksBounded`) and `NothingLost` (`JoinedExactly`) are about the
loops of `chunk_text`, from `CuttingInv`. `SizesInv` says that the accumulator is always small
enough to become a chunk; the exception of the text without words needs `NoWordsYet`,
since only the absence of any chunk at the end tells that there were none. `JoinInv`
says that the chunks, glued to the accumulator with its separator, are the text up to
the paragraph (`AtParagraph`) or the sentence (`InParagraph`) that the loop is at. Which
separator the accumulator will get depends on whether a chunk was made since the
paragraph began, so `before` and the number of chunks are part of it.

Assumed are what the types of the code say: limits are naturals (`usize`), a text has at
least one paragraph (`split` yields one even for the empty string), and an empty batch
cuts nothing. What `FlattenSeq` and `Size` compute for sequences of any length is shown
for each by a least counterexample over the naturals.

`WholeTextSurvives` is `TextSurvives`, both ends at once. `ReadToken` says what one token
adds to what is kept of a text, so that a text is read token by token and two pieces
one after the other (`ReadConcat`). `KeepInv` then follows the loops of `chunk_text`
without the assumption of `JoinInv` that every sentence has words: up to each paragraph
the chunks and the accumulator keep what the text keeps (`KeptBefore`), and inside a
paragraph they are read as the text up to the sentence, or no sentence of it had words
yet (`KeptInside`); since that loop runs only on a paragraph that is `TooLong`, what it
skips is what `LeftOut` allows. The two differ because a paragraph without words may
leave a break or none, which makes no difference to what is kept. `CollectedInv` carries
this to the pieces of every text collected so far, where the separator before a text's
first piece is dropped; `TokensExpected` says that a complete translation
(`CompleteOrError`) stands for just these.

## 6. Sampling

`Sampling.tla` is one slot's generation: `Filter` bans the tokens that would repeat
an n-gram and, on a repeated tail, all but the end token; `sample_token` then scans the
vocabulary (`SkipBanned`, `Take`, `Replace`), keeps the `TopK` largest logits in a heap
(`SiftDown`) and draws one. Logits are arbitrary levels plus `NegInf`; repetition
penalty, length bias, temperature and top-P only change which finite logits there
are and which candidate is drawn, so they are a free choice of both. That logits
are finite and not NaN is an assumption about llama.cpp.

* `sampling`: five tokens, two of them ending the generation (`IsEnd`; only one is
  the `Eos` the filters know), a ceiling of six, a heap of three, so that it fills,
  is built, and replaces its root with both children in use. `NoRepeatedNgram`,
  `AlwaysACandidate` (otherwise token 0 would be returned), `WithinCeiling`,
  `TopKCorrect`.

Proved for every vocabulary, n-gram length, heap size and ceiling: the first three,
from `Inv = TypeOK /\ Filtered /\ HeapFinite /\ NoRepeatedNgram /\ WithinCeiling`. `HeapFinite`
(all that is in the heap has a finite logit) is what carries the ban through the
heap to the draw; `TailCheckIsIdle` follows from `NoRepeatedNgram` alone, so the
tail check can never fire with the constants of the code.

`TopKCorrect` is proved from `HeapInv = Inv /\ Ordered /\ OwnLogits /\ Topmost`.
`Ordered` is the order of the array while it is sifted: a heap from position `floor`
on, except at position `sift`, whose parent is already no larger than its children;
without that last part an exchange with the smaller child would not restore the order.
`Topmost` says that a scanned token is missing only from a full heap, and that nothing
in the heap is smaller than it. `Replace` compares with the root alone, so it needs
`RootSmallest`: in a heap of any size the root is the smallest, by the least
counterexample, whose parent would be a smaller one (the naturals are well founded).

## 7. The client, its attempts and the stream

`ClientCall.tla` is `with_retry` against the server's handlers. `handler[a]` and
`answer[a]` belong to attempt `a`, and go on after the client has given it up: a
batch runs in `spawn_blocking`, which nobody cancels. `Refusal` is `validate_request`
and `resolve_batch` in their order, `Status` the table of `ApiError`, `Retryable`
`is_retryable`. A successful attempt at `/translate/stream` becomes an `SseStream`,
which starts when the client has the response (what the server's task did before
that cannot be told from what it does after).

`SseStream.tla` has the server's task with its channel of `texts + 1` events, the
connection as a sequence of bytes, and the `unfold` of `parse_sse_stream`. An event's
bytes are its name, its data up to the middle of a character of several bytes, the
rest, and two newlines; `Read` takes any number of bytes, so every cut that matters
happens. axum, hyper and reqwest are external: the body forwards events while the
connection has room and may write comments to keep it alive; `Break` is a reset or
the client's time limit and loses any part of what is under way; after a read error
the next read gives an error again or the end.

* `client_call`: three attempts, requests of both routes and one for each reason to
  be refused; streams of one and two texts, engine panics included, over a
  connection with room for one event, so that the channel fills when nobody reads.
  `RetriedWhenTransient` (the kinds of error that are sent again, and how often),
  `PausesBounded`, `WorkBounded` (what all attempts of a call, given up or not, ask of the
  engine together: the limit of one request, and once more for each answer that was
  lost); `InOrder` (one item per text, in order, a cut one only at the end and after an
  error), `EndIsEverything` (a stream that ends without an error has an item for every
  text, unless the engine has panicked: then `done` comes early); `CallReturns` with no
  fairness of the server at all, `TaskEnds` with none of the consumer, `StreamEnds` if the
  consumer keeps asking.
* `split_character` (violation): see section 10.

Fairness: the client's steps, its time limit among them (`build` always sets one),
the server's task and the connection. The consumer's polls are not fair. `TaskEnds` and
`StreamEnds` suppose that the engine returns; for a call that is stranded it does not
(sections 3 and 4), and the task of its stream stays.

Proved for every number of retries and every limit: `ClientTyping`, `Retries` and
`WorkIsBounded` (`WorkBounded`), from `Inv = Typed /\ ErrorsCounted /\ WorthRetrying /\
HandlersFit /\ CausesAnswered`, with `RetryableExact` about the two tables. For
`WorkIsBounded` every error of the client has to be traced to its attempt: it is the
server's answer (`CausesAnswered`), which a handler gives once and keeps (`Fits`), or a
lost connection, since a body that cannot be read is the last error of a call
(`WorthRetrying`); so an attempt before the current one that was worked for is one whose
answer was lost (`WorkedForLost`). `PausesInBounds` is `PausesBounded`.

`StreamInOrder` (`InOrder`) and `StreamComplete` (`EndIsEverything`) are proved for any
number of texts, any capacity of the connection, any cuts and any loss, from
`StreamInv`: what was sent is numbered (`SentNumbered`), and the channel holds its end
(`ChannelHolds`); what the client has not parsed yet, with what is still under way, is a
row of framed events, the last perhaps cut, but only on a broken connection
(`UnparsedFramed`), which continues where the yielded items end (`UnparsedInOrder`,
`Yields`); and a stream that ends without an error has yielded all but `done`
(`EndsWell`). How many texts that is needs `Counted`: without a panic the task has sent
one event for each text before `done`, for a stream starts only with a request that was
not refused and therefore has texts. `CallReturns`, `TaskEnds` and `StreamEnds` are
model-checked.

## 8. The model file

`ModelSetup.tla` is `SetupArgs::run` and `download` of `setup.rs`, any number of them
with one output path, and a server's start (`model.rs` 46-75). A file is an inode
with its chunks, each known by the URL it came from; `output` and `tmp` say which
file has which name, so that a setup goes on writing to a file that another one has
renamed. `Begin` is the existence check with `--force`, `Create` is `File::create`,
which truncates what has the temporary name, `Write` puts a chunk at the setup's own
offset, `StreamEnds` and `StreamFails` are the end of the body, `Rename` moves
whatever has the temporary name by then. `Kill` may come between any two of them.
A body with a stated length (`Sized`) that ends early is an error; any other one
just ends. Whether a file can be loaded is external (`Loadable`): llama.cpp reads the
header and compares the length, not the contents. `by` and `company` are history
variables: who gave a file its final name, and which setups had company between
`File::create` and `rename`.

* `model_setup`: three setups, a server, two URLs with files of different length, one
  of them without a stated length, with or without a model installed before. What a
  setup saved alone is the whole model, or was cut with nothing to tell it
  (`InstalledIsWhole`); the file that a running server has mapped is whole and stays so
  (`LoadedIsWhole`); setups that collide truncate and overwrite each other's bytes,
  and still a whole model is there in the end (`SetupsHeal`). Three setups are a
  victim, an intruder and one that comes after both.

Two setups that share the temporary file *can* install a broken model for a while,
or for good when one of them is killed or they download different files; the
properties say so by their exception for `company`. Fairness: a setup goes on, and its bytes
keep coming; `reqwest::Client::new()` sets no time limit that would do it instead. A
setup may be killed at any time.

Proved for any numbers of setups and servers, any URLs and sizes: `SetupTyping`,
`InstalledWhole`, `LoadedWhole`. `InstalledIsWhole` is far from inductive: `AloneOwns` says
that a setup without company owns the temporary file and what is in it is what the
setup has written; `SavedIsKept` that nobody has a file open any more that was saved
by such a setup; `Names` that a file never has both names and that nobody uses the
file of a setup that has not begun. `SetupsHeal` is model-checked.

## 9. The server's threads and the load test

`ApiServer.tla` is `main.rs` and the routes as far as they decide where an answer is
computed. A request has two sides: `call` is what its client knows, `job` what the
server does; a client that times out changes only the first. `/health` and
`/languages` are computed on a worker (`Workers` of them), `/translate` and
`/detect-language` wait in `pool` for one of `BlockingThreads` threads and stay there
until they end. tokio, hyper and reqwest are external. A translation need not end:
a stranded one waits for ever (section 3). The process may end at any time, which
loses all jobs and connections; it is not started again.

`LoadTest.tla` is `run_scenario` for each scenario in turn: sequential warm-up requests
whose failures are warnings, then all tasks at once with a semaphore of
`--concurrency` permits. A request is a pair of its scenario and its number; `Others`
are requests of other clients, such as a health probe.

* `server_load`: one scenario of translations with one warm-up and two measured
  requests, a permit of one, one worker and two blocking threads, and a request each
  for `/health` and `/detect-language` by others. Two threads and three translations
  are enough to occupy all threads with translations that never end, and to have
  one that waits as well.
  `StaticRoutesAnswer` and `DetectionsAnswer`: the server gets done with them, the
  second one unless translations that never end hold every blocking thread.
  `ReportsTellTheRest`: a report counts every request once, and what still occupies
  the server after it is among its errors or warnings, so that a scenario without
  either leaves nothing that could disturb the next one. `EveryScenarioReported`: the
  load test ends whatever the server does.

Fairness: workers, blocking threads and the pool's queue go on; a job that is not a
translation ends; nothing is assumed of translations, nor of the process. The load
test goes on by itself and its time limit passes, as `build` always sets one.

TLC has one scenario. Proved for any number of scenarios, requests and permits:
`LoadTyping` and `ReportsComplete`. The inductive invariant has the agreement of both
sides of a request (`Agreement`: an answer that was received means that the job is
over), the pool's contents, the order of the scenarios' tasks (`Tasks`) and three
counts (`Counts`): latencies are the joined tasks, the joined tasks that are still
active in the server are at most the errors, and the running tasks and the permits
together are `--concurrency`. The liveness properties are model-checked.

## 10. Where code and text disagree

* `stranded_carry`, `continuous.rs:274`. When more than `2 * n_slots` requests gather in
  one accumulation window and the first two prefill batches leave no active slot,
  the thread blocks in `recv` while `carry_over` holds requests, whose callers wait
  without a timeout; the next burst longer than `n_slots` overwrites `carry_over`
  (line 315) and drops them. The comment says "No active work".
* `budget_ends_in_error`, `continuous.rs:358`. With the default budget the context is
  full before 4096 tokens; generation ends in an error, where ENGINE.md says "no error
  is returned".
* `service_unavailable`, `engine.rs:451`. A caller waiting for room when the thread ends
  is told that the queue is full, which the server sends as 429 and the client
  retries.
* `split_character`, `stream.rs:36`. Each chunk of bytes is decoded by itself; a
  character that two chunks share becomes replacement characters in a JSON string
  that still parses, and the damaged translation is yielded as a success.

Met on the way and not the subject of a run:

* ENGINE.md:80-81 says "Only `ServiceUnavailable` (backpressure) fails the entire
  batch". A thread that has ended fails it too, and so does an item that the thread
  drops: `TranslationFailed` at `engine.rs:458` and 473. `FailureHasCause` says when.
* A sentence without words (a line of emoji, a rule, "...") in a paragraph beyond the
  ceiling is lost: `unicode_sentences` (`chunking.rs:88`) skips it. The comment at
  `chunking.rs:78-79` says that a text without boundaries is left as it is, and the
  tests there expect the chunks, put together, to be the text. `JoinedExactly` and
  `TextSurvives` except just this.
* stream.rs:10 says "Ends on `event: done` or stream EOF". The parser takes `done` for
  an event without an item and goes on to the end of the response.
* API.md:210 gives 422 for an unknown language code; the server answers 400
  (`error.rs` of `translator-api`, `Status`). Neither is sent again.
* The comment at `continuous.rs:87` says that `SLOT_CAPACITY` bounds prompt and output
  together; it bounds the output alone.
* `done` is sent after a panic has ended the stream early (`translate.rs:161`).
* An error that is not retryable is named `RetriesExhausted` after any retry
  (`client.rs:200`).
* The load test's throughput divides all requests by the time, failed ones too, while
  the comment at `load_test.rs:94` speaks of successful ones; with `--concurrency 0` it
  never ends.

## 11. Assumptions and limits

* The bounds named in each configuration. Items and calls are interchangeable and
  symmetric in the safety runs; the liveness runs use no symmetry.
* Crossbeam: a channel whose receiver is gone discards what is queued and refuses
  more. `std::sync::mpsc`: `recv` fails when no sender is left. `QueueCapacity` is at
  least one; a capacity of 0 would make a rendezvous channel.
* llama.cpp: a decode appends one cell per token, or fails, after which the code
  clears the sequences of the batch; clearing a sequence frees its cells.
* Outside of what the proofs cover: liveness under fairness, and induction over data in
  general (the induction theorems of the library take an operator). Where a recursive
  definition had to be reasoned about, its steps are proved by a least counterexample
  for that definition alone (sections 5 and 6). The liveness properties are model-checked.
* Not modelled: prompts and tokens as texts, the tables of languages, the detector's
  statistics (a detection's outcome is an input of `BatchAssembly`), the configuration's
  parsing and the panics of its extreme values (`continuous.rs:198`), telemetry, a
  power failure between `rename` and the disk (`setup.rs:98`), a restart of the server
  with clients connected, the load test's tasks that panic (`load_test.rs:281`; nothing
  in `execute_request` does), its percentiles, and the printing commands
  of the command line. `/translate/stream` has its own module, `SseStream`, and is not a
  route of `ApiServer`.
