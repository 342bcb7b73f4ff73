------------------------------- MODULE WorkPool -------------------------------
(***************************************************************************)
(* What the scheduler thread promises to the threads that give it work, in   *)
(* terms of its two interfaces only: the bounded channel of work items and   *)
(* the results it sends.  Scheduler implements this specification, and       *)
(* TranslationService is built on it.                                        *)
(***************************************************************************)
EXTENDS Integers, Sequences, FiniteSets

CONSTANTS
  Items,          \* the work items that callers may submit, each at most once
  QueueCapacity,  \* capacity of the channel
  Results,        \* the results an item may get
  MayFail,        \* may the thread panic, or fail to create its context?
  MayLose         \* may held items be dropped while it runs (see Lose)?

VARIABLES
  running,    \* is the thread alive?
  queue,      \* the items in the channel
  open,       \* does a Sender of the channel exist?
  submitted,  \* the items that were ever put into the channel
  held,       \* the items that the thread has taken and not answered
  replies     \* the results sent to each item's caller

vars == <<running, queue, open, submitted, held, replies>>

Init ==
  /\ running = TRUE
  /\ queue = <<>> /\ open = TRUE /\ submitted = {}
  /\ held = {}
  /\ replies = [i \in Items |-> <<>>]

Room == Len(queue) < QueueCapacity

Submit(i) ==
  /\ running /\ open /\ i \notin submitted /\ Room
  /\ queue' = Append(queue, i)
  /\ submitted' = submitted \cup {i}
  /\ UNCHANGED <<running, open, held, replies>>

Close ==
  /\ open /\ open' = FALSE
  /\ UNCHANGED <<running, queue, submitted, held, replies>>

\* The thread receives the next item,
Take ==
  /\ running /\ queue # <<>>
  /\ queue' = Tail(queue)
  /\ held' = held \cup {Head(queue)}
  /\ UNCHANGED <<running, open, submitted, replies>>

\* or answers it at once, as it does with a prompt that is too long.
Refuse ==
  /\ running /\ queue # <<>>
  /\ queue' = Tail(queue)
  /\ \E r \in Results :
       replies' = [replies EXCEPT ![Head(queue)] = Append(@, r)]
  /\ UNCHANGED <<running, open, submitted, held>>

\* Some of the held items are answered in one step: all the slots that end in
\* one decode call, a failed prefill batch, or a single item.
Answer(S) ==
  /\ running /\ S # {} /\ S \subseteq held
  /\ \E r \in [S -> Results] :
       replies' = [i \in Items |-> IF i \in S THEN Append(replies[i], r[i])
                                              ELSE replies[i]]
  /\ held' = held \ S
  /\ UNCHANGED <<running, queue, open, submitted>>

\* Items disappear with their reply senders (carry_over is overwritten), which
\* takes more than two bursts of n_slots items.
Lose(S) ==
  /\ MayLose /\ running
  /\ S # {} /\ S \subseteq held
  /\ held' = held \ S
  /\ UNCHANGED <<running, queue, open, submitted, replies>>

\* The thread is gone, and with it the channel's receiver and all that it held.
Gone ==
  /\ running /\ running' = FALSE
  /\ queue' = <<>> /\ held' = {}
  /\ UNCHANGED <<open, submitted, replies>>

Halt == MayFail /\ Gone

\* The channel is closed and nothing is left to do.
Finish ==
  /\ ~open /\ queue = <<>>
  /\ held = {} \/ MayLose
  /\ Gone

Thread ==
  \/ Take \/ Refuse \/ Halt \/ Finish
  \/ \E S \in SUBSET held : Answer(S) \/ Lose(S)

Next == Thread \/ Close \/ \E i \in Items : Submit(i)

Spec == Init /\ [][Next]_vars

\* The items that are answered whatever comes.  In an overload carry_over may be
\* kept by a thread that waits in recv, for ever if no request arrives.
Prompt == IF MayLose THEN {} ELSE Items

\* The thread takes what is offered, answers what it holds and ends when it may.
Fairness ==
  /\ WF_vars(Take \/ Refuse)
  /\ \A i \in Prompt : WF_vars(\E S \in SUBSET held : i \in S /\ Answer(S))
  /\ WF_vars(Finish)

-----------------------------------------------------------------------------

TypeOK ==
  /\ running \in BOOLEAN /\ open \in BOOLEAN
  /\ queue \in Seq(Items) /\ Len(queue) <= QueueCapacity
  /\ submitted \subseteq Items /\ held \subseteq Items
  /\ replies \in [Items -> Seq(Results)]

=============================================================================
