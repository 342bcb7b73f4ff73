-------------------------- MODULE TranslationService --------------------------
(***************************************************************************)
(* Concurrent calls of TranslationEngine::translate_batch on clones of one   *)
(* engine, and the end of the engine's life                                  *)
(* (src/translator-core/src/engine.rs).  The scheduler thread is WorkPool.   *)
(*                                                                          *)
(* A call dispatches its work items through the shared bounded channel, with *)
(* a time limit when it is full, and then counts replies on a channel of its *)
(* own.  An engine clone owns a Sender of the work channel and a reference   *)
(* to the guard that joins the thread; the two are dropped one after the     *)
(* other.                                                                    *)
(***************************************************************************)
EXTENDS Integers, Sequences, FiniteSets

CONSTANTS
  Calls,          \* the calls of translate_batch, each on its own clone
  Main,           \* the owner of the first engine
  MaxWork,        \* most work items of a call
  QueueCapacity,  \* capacity of the bounded work channel
  MayFail,        \* may the scheduler thread end early?
  MayLose         \* may it lose an item (see WorkPool)?

ASSUME CallsFinite == IsFiniteSet(Calls) /\ Main \notin Calls
ASSUME LimitsNatural == MaxWork \in Nat /\ QueueCapacity \in Nat \ {0}
ASSUME SwitchesBoolean == MayFail \in BOOLEAN /\ MayLose \in BOOLEAN

VARIABLES
  running, queue, open, submitted, held, replies,  \* the scheduler: WorkPool
  phase,     \* where each call is
  size,      \* work_item_count of each call
  sent,      \* enqueued: how many of its items a call has put into the channel
  received,  \* how many replies a call has received
  read,      \* how many results of each item its caller has received
  senders,   \* the owners whose clone still has its worker_tx
  guards     \* the owners whose clone still has its _scheduler_guard

callVars == <<phase, size, sent, received, read>>
engineVars == <<senders, guards>>
poolVars == <<running, queue, open, submitted, held, replies>>
vars == <<poolVars, callVars, engineVars>>

Items == Calls \X (1 .. MaxWork)
Owners == Calls \cup {Main}

Pool == INSTANCE WorkPool WITH Results <- {"ok", "error"}

Returned == {"ok", "unavailable", "failed"}
WorkOf(c) == {<<c, k>> : k \in 1 .. size[c]}

Init ==
  /\ Pool!Init
  /\ phase = [c \in Calls |-> "new"]
  /\ size = [c \in Calls |-> 0]
  /\ sent = [c \in Calls |-> 0]
  /\ received = [c \in Calls |-> 0]
  /\ read = [i \in Items |-> 0]
  /\ senders = {Main} /\ guards = {Main}

Goto(c, p) == phase' = [phase EXCEPT ![c] = p]

-----------------------------------------------------------------------------
(* translate_batch *)

\* A thread clones the engine and calls; without work items (empty texts, same
\* language, failed detection) the call does not reach the scheduler.
Begin(c) ==
  /\ phase[c] = "new" /\ Main \in senders
  /\ \E n \in 0 .. MaxWork :
       /\ size' = [size EXCEPT ![c] = n]
       /\ Goto(c, IF n = 0 THEN "ok" ELSE "sending")
  /\ senders' = senders \cup {c} /\ guards' = guards \cup {c}
  /\ UNCHANGED <<poolVars, sent, received, read>>

\* The next item is in the channel; after the last one the call drops its own
\* reply_tx and turns to the replies.
Enqueue(c) ==
  /\ Pool!Submit(<<c, sent[c] + 1>>)
  /\ sent' = [sent EXCEPT ![c] = @ + 1]
  /\ Goto(c, IF sent[c] + 1 = size[c] THEN "receiving" ELSE "sending")
  /\ UNCHANGED <<size, received, read, engineVars>>

TrySend(c) == phase[c] = "sending" /\ Enqueue(c)

TrySendFull(c) ==
  /\ phase[c] = "sending" /\ running /\ ~Pool!Room
  /\ Goto(c, "waiting")
  /\ UNCHANGED <<poolVars, size, sent, received, read, engineVars>>

TrySendDisconnected(c) ==
  /\ phase[c] = "sending" /\ ~running
  /\ Goto(c, "failed")
  /\ UNCHANGED <<poolVars, size, sent, received, read, engineVars>>

\* send_timeout finds room in time,
SendWaiting(c) == phase[c] = "waiting" /\ Enqueue(c)

\* or gives up: the time is over, or the receiver is gone; both errors are
\* mapped to ServiceUnavailable.  What was enqueued stays enqueued.
SendGivesUp(c) ==
  /\ phase[c] = "waiting"
  /\ Goto(c, "unavailable")
  /\ UNCHANGED <<poolVars, size, sent, received, read, engineVars>>

LeaveEarly(c) == received[c] + 1 = sent[c] \/ received[c] + 2 = sent[c]  \* mutant
LastReply(c) == received[c] + 1 = sent[c]

Receive(c) ==
  /\ phase[c] = "receiving"
  /\ \E i \in WorkOf(c) :
       /\ read[i] < Len(replies[i])
       /\ read' = [read EXCEPT ![i] = @ + 1]
  /\ received' = [received EXCEPT ![c] = @ + 1]
  /\ IF LastReply(c) THEN Goto(c, "ok") ELSE UNCHANGED phase
  /\ UNCHANGED <<poolVars, size, sent, engineVars>>

KeepOwnSender(c) == FALSE  \* mutant
DoNotWait(c) == \A i \in WorkOf(c) : read[i] = Len(replies[i])  \* mutant

\* The receiving call's own reply_tx is gone; the other clones are in the
\* requests of the channel and of the scheduler.
Disconnected(c) ==
  /\ \A i \in WorkOf(c) : read[i] = Len(replies[i])
  /\ \A i \in WorkOf(c) : i \notin held /\ \A j \in 1 .. Len(queue) : queue[j] # i

RecvFails(c) ==
  /\ phase[c] = "receiving" /\ Disconnected(c)
  /\ Goto(c, "failed")
  /\ UNCHANGED <<poolVars, size, sent, received, read, engineVars>>

Call(c) ==
  \/ TrySend(c) \/ TrySendFull(c) \/ TrySendDisconnected(c)
  \/ SendWaiting(c) \/ SendGivesUp(c)
  \/ Receive(c) \/ RecvFails(c)

-----------------------------------------------------------------------------
(* The end of an engine clone *)

\* Main drops its engine whenever it likes, a call when it has returned.
Dropping == {Main} \cup {c \in Calls : phase[c] \in Returned}

GuardFirst(o) == IF o \in guards THEN "guard" ELSE "worker_tx"  \* mutant
\* The fields of a clone are dropped in the order of their declaration.
NextField(o) == IF o \in senders THEN "worker_tx" ELSE "guard"

\* The last Sender closes the channel.
DropSender(o) ==
  /\ o \in Dropping /\ o \in senders /\ NextField(o) = "worker_tx"
  /\ senders' = senders \ {o}
  /\ IF senders' = {} THEN Pool!Close ELSE UNCHANGED poolVars
  /\ UNCHANGED <<callVars, guards>>

\* The last reference to the guard joins the scheduler thread.
Joined(o) == guards # {o} \/ ~running

DropGuard(o) ==
  /\ o \in Dropping /\ o \in guards /\ NextField(o) = "guard"
  /\ Joined(o)
  /\ guards' = guards \ {o}
  /\ UNCHANGED <<poolVars, callVars, senders>>

Drop(o) == DropSender(o) \/ DropGuard(o)

-----------------------------------------------------------------------------

Scheduler == Pool!Thread /\ UNCHANGED <<callVars, engineVars>>

\* Every clone that was made is gone.
Terminated == guards = {} /\ senders = {} /\ UNCHANGED vars

Next ==
  \/ Scheduler
  \/ \E c \in Calls : Begin(c) \/ Call(c)
  \/ \E o \in Owners : Drop(o)
  \/ Terminated

Spec == Init /\ [][Next]_vars

\* A call runs on (send_timeout ends by itself), a call that returned drops its
\* clone, and the thread keeps WorkPool's promises, which in an overload are not
\* to answer all that it holds.  Main need not stop.
FairSpec ==
  /\ Spec
  /\ \A c \in Calls : WF_vars(Call(c)) /\ WF_vars(Drop(c))
  /\ WF_vars(DropGuard(Main))
  /\ Pool!Fairness

-----------------------------------------------------------------------------

Phases == {"new", "sending", "waiting", "receiving"} \cup Returned

\* Types, and that the counters stay within a call's number of work items.
TypeOK ==
  /\ Pool!TypeOK
  /\ phase \in [Calls -> Phases]
  /\ size \in [Calls -> 0 .. MaxWork]
  /\ sent \in [Calls -> Nat] /\ \A c \in Calls : sent[c] <= size[c]
  /\ received \in [Calls -> Nat] /\ \A c \in Calls : received[c] <= sent[c]
  /\ read \in [Items -> Nat]
  /\ senders \subseteq Owners /\ guards \subseteq Owners

\* A call that returns Ok has received the one result of each of its items:
\* counting replies is as good as checking indices (engine.rs:470).
OkIsComplete ==
  \A c \in Calls : phase[c] = "ok" =>
    \A i \in WorkOf(c) : Len(replies[i]) = 1 /\ read[i] = 1

\* A request of which nothing is left: neither queued nor held, and not answered.
Lost(i) ==
  /\ i \in submitted \ held /\ replies[i] = <<>>
  /\ \A j \in 1 .. Len(queue) : queue[j] # i

\* A call fails as a whole only after the thread has ended, or because one of its
\* own items is lost: a slow item is waited for, and no other call's failure,
\* overload or early end takes it down (engine.rs:458, 473).  That it can fail
\* as a whole at all, other than by ServiceUnavailable, is not what ENGINE.md:80
\* says.
FailureHasCause ==
  \A c \in Calls : phase[c] = "failed" => ~running \/ \E i \in WorkOf(c) : Lost(i)

\* The call waits for an item that the thread holds (continuous.rs:272-274).
Stranded(c) == phase[c] = "receiving" /\ WorkOf(c) \cap held # {}

\* A call returns unless the thread keeps an item of its own for ever: neither a
\* full channel, nor another call's items, nor one that is lost, nor the end of
\* the thread keeps it waiting (engine.rs:444-476).  Without an overload nothing
\* is kept for ever (Scheduler's EveryItemAnswered), and every call returns.
EveryCallReturns ==
  \A c \in Calls : phase[c] = "sending" ~> phase[c] \in Returned \/ []Stranded(c)

\* Once main has dropped its engine, the thread is joined and all is freed
\* ("fully freed before process exit", engine.rs:61), unless a call is left
\* waiting for ever, which holds a clone.
EngineIsFreed ==
  Main \notin senders
    ~> (guards = {} /\ ~running) \/ [](\E c \in Calls : Stranded(c))

-----------------------------------------------------------------------------
(* What the documentation says of failures *)

\* ServiceUnavailable means "translation queue full" (engine.rs:453): there is
\* a thread that could have made room.
UnavailableMeansFull ==
  [][\A c \in Calls : phase[c] = "waiting" /\ phase'[c] = "unavailable"
       => running]_vars

=============================================================================
