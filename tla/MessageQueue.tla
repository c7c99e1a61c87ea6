---------------------------- MODULE MessageQueue ----------------------------
(***************************************************************************)
(* agent/message_queue.h: MessageQueue<T>, a blocking FIFO mailbox built    *)
(* from a mutex, a condition variable (available_), a queue and a closed    *)
(* flag.                                                                    *)
(*                                                                          *)
(* Each operator below is what one thread does to one mailbox in one        *)
(* critical section, or in one notification: push() and close() unlock      *)
(* before they notify, so the two are separate steps that other threads     *)
(* may come between.  A thread inside available_.wait() is a member of      *)
(* asleep[q]; it must be notified (or wake spuriously) to test the          *)
(* condition again.                                                         *)
(***************************************************************************)
EXTENDS Naturals, Sequences

VARIABLES
  messages,    \* messages[q]: the contents of messages_, front first
  closed,      \* closed[q]: closed_
  asleep       \* asleep[q]: the threads blocked in available_.wait

queueVars == <<messages, closed, asleep>>

(* Mailboxes are the MessageQueue objects, Threads what calls them, Message  *)
(* the values of T.                                                         *)
QueueTypeOK(Mailboxes, Threads, Message) ==
  /\ messages \in [Mailboxes -> Seq(Message)]
  /\ closed \in [Mailboxes -> BOOLEAN]
  /\ asleep \in [Mailboxes -> SUBSET Threads]

QueueInit(Mailboxes) ==
  /\ messages = [q \in Mailboxes |-> <<>>]
  /\ closed = [q \in Mailboxes |-> FALSE]
  /\ asleep = [q \in Mailboxes |-> {}]

-----------------------------------------------------------------------------
(* Defects a change to this file could introduce; the runs reject each of   *)
(* them when it replaces the definition it deviates from.                   *)

PushedFront(q, m) ==            \* a stack instead of a queue
  /\ ~closed[q]
  /\ messages' = [messages EXCEPT ![q] = <<m>> \o @]
  /\ UNCHANGED <<closed, asleep>>

DrainedEarly(q) ==              \* closed_ tested before messages_.empty()
  /\ closed[q]
  /\ UNCHANGED queueVars

NotifyNone(q) ==                \* the notify_all() of close() forgotten
  UNCHANGED queueVars

NotifyAny(q) ==                 \* notify_one() where close() needs notify_all()
  /\ IF asleep[q] = {}
       THEN UNCHANGED asleep
       ELSE \E t \in asleep[q] : asleep' = [asleep EXCEPT ![q] = @ \ {t}]
  /\ UNCHANGED <<messages, closed>>

-----------------------------------------------------------------------------
(* push(): the critical section accepts the message or finds the mailbox    *)
(* closed.                                                                  *)
Pushed(q, m) ==
  /\ ~closed[q]
  /\ messages' = [messages EXCEPT ![q] = Append(@, m)]
  /\ UNCHANGED <<closed, asleep>>

Refused(q) ==
  /\ closed[q]
  /\ UNCHANGED queueVars

(* push()'s notify_one(), after the unlock: wakes one waiter if there is one *)
NotifyOne(q) ==
  /\ IF asleep[q] = {}
       THEN UNCHANGED asleep
       ELSE \E t \in asleep[q] : asleep' = [asleep EXCEPT ![q] = @ \ {t}]
  /\ UNCHANGED <<messages, closed>>

-----------------------------------------------------------------------------
(* waitPop(): the predicate given to available_.wait                        *)
Ready(q) == closed[q] \/ messages[q] # <<>>

(* The predicate is false: the mutex is released and the thread sleeps.     *)
FallAsleep(q, t) ==
  /\ ~Ready(q)
  /\ t \notin asleep[q]
  /\ asleep' = [asleep EXCEPT ![q] = @ \cup {t}]
  /\ UNCHANGED <<messages, closed>>

(* condition_variable::wait may wake without a notification.                *)
WakeSpuriously(q, t) ==
  /\ t \in asleep[q]
  /\ asleep' = [asleep EXCEPT ![q] = @ \ {t}]
  /\ UNCHANGED <<messages, closed>>

(* The predicate is true and there is a message, closed or not.             *)
Popped(q, m) ==
  /\ messages[q] # <<>>
  /\ m = Head(messages[q])
  /\ messages' = [messages EXCEPT ![q] = Tail(@)]
  /\ UNCHANGED <<closed, asleep>>

(* The predicate is true and there is none: waitPop() returns nullopt.      *)
Drained(q) ==
  /\ closed[q]
  /\ messages[q] = <<>>
  /\ UNCHANGED queueVars

-----------------------------------------------------------------------------
(* close(): the critical section, then notify_all() after the unlock.       *)
MarkClosed(q) ==
  /\ closed' = [closed EXCEPT ![q] = TRUE]
  /\ UNCHANGED <<messages, asleep>>

NotifyAll(q) ==
  /\ asleep' = [asleep EXCEPT ![q] = {}]
  /\ UNCHANGED <<messages, closed>>

=============================================================================
