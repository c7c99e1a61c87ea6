--------------------------- MODULE MailboxThreads ---------------------------
(***************************************************************************)
(* The threads of a program that share one MessageQueue: any number of      *)
(* threads that push, threads that pop until they get nullopt, and threads  *)
(* that close.  It asks of the class alone what its callers rely on,        *)
(* whatever the callers do in between.                                      *)
(***************************************************************************)
EXTENDS MessageQueue, FiniteSets

CONSTANTS
  Mailbox,     \* the one queue
  Producers,   \* threads that call push()
  Consumers,   \* threads that call waitPop() until it returns nullopt
  Closers,     \* threads that call close()
  MaxPushes    \* bound: calls of push() per producer

Threads == Producers \cup Consumers \cup Closers

ASSUME ThreadsAssumption ==
  /\ MaxPushes \in Nat
  /\ IsFiniteSet(Producers) /\ IsFiniteSet(Consumers)
  /\ Producers \cap Consumers = {}
  /\ Producers \cap Closers = {}
  /\ Consumers \cap Closers = {}

VARIABLES
  pc,          \* pc[t]: where thread t is
  pushes,      \* pushes[p]: calls of push() that producer p has made
  accepted,    \* history: the messages push() returned true for, in order
  taken,       \* history: the messages waitPop() returned, in order
  received     \* received[c]: those that consumer c got, in order

vars == <<queueVars, pc, pushes, accepted, taken, received>>

Message == Producers \X (1..MaxPushes)

TypeOK ==
  /\ QueueTypeOK({Mailbox}, Threads, Message)
  /\ pc \in [Threads -> {"push", "notify", "pop", "close", "wake", "done"}]
  /\ pushes \in [Producers -> 0..MaxPushes]
  /\ accepted \in Seq(Message)
  /\ taken \in Seq(Message)
  /\ received \in [Consumers -> Seq(Message)]

Init ==
  /\ QueueInit({Mailbox})
  /\ pc = [t \in Threads |-> IF t \in Producers THEN "push"
                             ELSE IF t \in Consumers THEN "pop" ELSE "close"]
  /\ pushes = [p \in Producers |-> 0]
  /\ accepted = <<>>
  /\ taken = <<>>
  /\ received = [c \in Consumers |-> <<>>]

GoTo(t, next) == pc' = [pc EXCEPT ![t] = next]

Push(p) ==
  LET m == <<p, pushes[p] + 1>> IN
  /\ pc[p] = "push"
  /\ pushes[p] < MaxPushes
  /\ Pushed(Mailbox, m)
  /\ pushes' = [pushes EXCEPT ![p] = @ + 1]
  /\ accepted' = Append(accepted, m)
  /\ GoTo(p, "notify")
  /\ UNCHANGED <<taken, received>>

PushRefused(p) ==
  /\ pc[p] = "push"
  /\ Refused(Mailbox)
  /\ GoTo(p, "done")
  /\ UNCHANGED <<pushes, accepted, taken, received>>

PushNotify(p) ==
  /\ pc[p] = "notify"
  /\ NotifyOne(Mailbox)
  /\ GoTo(p, IF pushes[p] < MaxPushes THEN "push" ELSE "done")
  /\ UNCHANGED <<pushes, accepted, taken, received>>

Awake(c) == pc[c] = "pop" /\ c \notin asleep[Mailbox]

Sleep(c) ==
  /\ Awake(c)
  /\ FallAsleep(Mailbox, c)
  /\ UNCHANGED <<pc, pushes, accepted, taken, received>>

Wake(c) ==
  /\ WakeSpuriously(Mailbox, c)
  /\ UNCHANGED <<pc, pushes, accepted, taken, received>>

Pop(c) ==
  /\ Awake(c)
  /\ \E m \in Message :
       /\ Popped(Mailbox, m)
       /\ taken' = Append(taken, m)
       /\ received' = [received EXCEPT ![c] = Append(@, m)]
  /\ UNCHANGED <<pc, pushes, accepted>>

PopClosed(c) ==
  /\ Awake(c)
  /\ Drained(Mailbox)
  /\ GoTo(c, "done")
  /\ UNCHANGED <<pushes, accepted, taken, received>>

Close(k) ==
  /\ pc[k] = "close"
  /\ MarkClosed(Mailbox)
  /\ GoTo(k, "wake")
  /\ UNCHANGED <<pushes, accepted, taken, received>>

CloseNotify(k) ==
  /\ pc[k] = "wake"
  /\ NotifyAll(Mailbox)
  /\ GoTo(k, "done")
  /\ UNCHANGED <<pushes, accepted, taken, received>>

ProducerStep(p) == Push(p) \/ PushRefused(p) \/ PushNotify(p)
ConsumerStep(c) == Sleep(c) \/ Pop(c) \/ PopClosed(c)
CloserStep(k) == Close(k) \/ CloseNotify(k)

AllDone == \A t \in Threads : pc[t] = "done"

Terminated == AllDone /\ UNCHANGED vars

Next ==
  \/ \E p \in Producers : ProducerStep(p)
  \/ \E c \in Consumers : ConsumerStep(c) \/ Wake(c)
  \/ \E k \in Closers : CloserStep(k)
  \/ Terminated

(* Every thread that can take a step eventually does; close() need not be   *)
(* called (no fairness on "close"), spurious wake-ups need not happen.      *)
Spec ==
  /\ Init /\ [][Next]_vars
  /\ \A p \in Producers : WF_vars(ProducerStep(p))
  /\ \A c \in Consumers : WF_vars(ConsumerStep(c))
  /\ \A k \in Closers : WF_vars(CloseNotify(k))

-----------------------------------------------------------------------------
(* FIFO and nothing lost: what the consumers took, followed by what is      *)
(* still queued, is exactly what push() accepted, in that order - so a      *)
(* message is delivered once, in order, and none accepted before a close()  *)
(* is dropped by it (push lines 23-28, waitPop lines 34-42).                *)
Conservation == accepted = taken \o messages[Mailbox]

(* nullopt means the mailbox is finished: once a waitPop() has returned     *)
(* nullopt, every message ever accepted has been taken and no push() will   *)
(* be accepted again, so a consumer that stops there misses nothing.        *)
NulloptIsFinal ==
  (\E c \in Consumers : pc[c] = "done") =>
      closed[Mailbox] /\ accepted = taken

(* No lost wake-up: while some consumer sleeps, there are at least as many  *)
(* notifications on their way and consumers about to look as there are      *)
(* messages; and if the mailbox is closed its notify_all() is still to      *)
(* come.  push() and close() notify after the unlock, so this is what keeps *)
(* the gap between the two harmless.                                        *)
Notifying == {p \in Producers : pc[p] = "notify"}
Looking == {c \in Consumers : Awake(c)}

NoLostWakeup ==
  asleep[Mailbox] # {} =>
    /\ Len(messages[Mailbox]) <= Cardinality(Notifying) + Cardinality(Looking)
    /\ closed[Mailbox] => \E k \in Closers : pc[k] = "wake"

(* "close() wakes waiting workers so thread creation or shutdown failures   *)
(* cannot leave a coordinator blocked forever" (message_queue.h:12-13):     *)
(* once the mailbox is closed every consumer's waitPop() loop ends.         *)
CloseReleasesConsumers ==
  closed[Mailbox] ~> \A c \in Consumers : pc[c] = "done"

(* A message that push() accepted is eventually taken, also when the        *)
(* mailbox is never closed: a consumer is always woken for it.              *)
EveryMessageTaken ==
  \A n \in 1..(MaxPushes * Cardinality(Producers)) :
      (Len(accepted) >= n) ~> (Len(taken) >= n)

=============================================================================
