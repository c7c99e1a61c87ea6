------------------------- MODULE MessageQueueProofs -------------------------
(***************************************************************************)
(* What each step of MessageQueue keeps, for all mailboxes, threads and      *)
(* messages: the lemmas the proofs about its users rest on.                  *)
(***************************************************************************)
EXTENDS MessageQueue, TLAPS

(* New mailboxes are well-typed.                                             *)
LEMMA QueueInitType ==
  ASSUME NEW Mailboxes, NEW Threads, NEW Message, QueueInit(Mailboxes)
  PROVE  QueueTypeOK(Mailboxes, Threads, Message)
<1>1. <<>> \in Seq(Message)
  OBVIOUS
<1> QED
  BY <1>1 DEF QueueInit, QueueTypeOK

(* push() of a message keeps the type of the mailboxes.                      *)
LEMMA PushedType ==
  ASSUME NEW Mailboxes, NEW Threads, NEW Message,
         QueueTypeOK(Mailboxes, Threads, Message),
         NEW q \in Mailboxes, NEW m \in Message, Pushed(q, m)
  PROVE  QueueTypeOK(Mailboxes, Threads, Message)'
BY DEF Pushed, QueueTypeOK

(* waitPop() returns a message of the right type and leaves the others.      *)
LEMMA PoppedType ==
  ASSUME NEW Mailboxes, NEW Threads, NEW Message,
         QueueTypeOK(Mailboxes, Threads, Message),
         NEW q \in Mailboxes, NEW m, Popped(q, m)
  PROVE  /\ m \in Message
         /\ QueueTypeOK(Mailboxes, Threads, Message)'
BY DEF Popped, QueueTypeOK

(* Neither does a thread that falls asleep or wakes change the type.         *)
LEMMA SleepType ==
  ASSUME NEW Mailboxes, NEW Threads, NEW Message,
         QueueTypeOK(Mailboxes, Threads, Message),
         NEW q \in Mailboxes, NEW t \in Threads,
         FallAsleep(q, t) \/ WakeSpuriously(q, t)
  PROVE  QueueTypeOK(Mailboxes, Threads, Message)'
BY DEF FallAsleep, WakeSpuriously, QueueTypeOK

(* Nor does a notification, or close().                                      *)
LEMMA NotifyType ==
  ASSUME NEW Mailboxes, NEW Threads, NEW Message,
         QueueTypeOK(Mailboxes, Threads, Message),
         NEW q \in Mailboxes,
         NotifyOne(q) \/ NotifyAll(q) \/ MarkClosed(q)
  PROVE  QueueTypeOK(Mailboxes, Threads, Message)'
<1>1. CASE NotifyOne(q)
  <2>1. CASE asleep[q] = {}
    BY <1>1, <2>1 DEF NotifyOne, QueueTypeOK
  <2>2. CASE asleep[q] # {}
    <3>1. PICK t \in asleep[q] : asleep' = [asleep EXCEPT ![q] = @ \ {t}]
      BY <1>1, <2>2 DEF NotifyOne
    <3>2. asleep' \in [Mailboxes -> SUBSET Threads]
      BY <3>1 DEF QueueTypeOK
    <3> QED
      BY <1>1, <2>2, <3>2 DEF NotifyOne, QueueTypeOK
  <2> QED
    BY <2>1, <2>2
<1>2. CASE NotifyAll(q) \/ MarkClosed(q)
  BY <1>2 DEF NotifyAll, MarkClosed, QueueTypeOK
<1> QED
  BY <1>1, <1>2

=============================================================================
