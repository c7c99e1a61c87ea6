------------------------ MODULE MailboxThreadsProofs ------------------------
(***************************************************************************)
(* Proofs about MailboxThreads, for any number of threads: nothing accepted *)
(* is lost, duplicated or reordered, nullopt is final, and no wake-up is     *)
(* lost.                                                                    *)
(***************************************************************************)
EXTENDS MailboxThreads, MessageQueueProofs, FiniteSetTheorems

(* Taking the head moves it to the end of what was taken.                   *)
LEMMA TakeOne ==
  ASSUME NEW S, NEW taken_ \in Seq(S), NEW queue \in Seq(S), queue # <<>>
  PROVE  Append(taken_, Head(queue)) \o Tail(queue) = taken_ \o queue
OBVIOUS

(* Every variable keeps its type.                                           *)
THEOREM TypeCorrect == Spec => []TypeOK
<1> DEFINE QOK == QueueTypeOK({Mailbox}, Threads, Message)
<1> USE ThreadsAssumption DEF TypeOK, Threads
<1>1. Init => TypeOK
  <2>1. \A S : <<>> \in Seq(S)
    OBVIOUS
  <2> QED
    BY <2>1, QueueInitType DEF Init
<1>2. ASSUME TypeOK, [Next]_vars PROVE TypeOK'
  <2>q. QOK
    BY <1>2
  <2>1. ASSUME NEW p \in Producers, ProducerStep(p) PROVE TypeOK'
    <3>1. CASE Push(p)
      <4>1. <<p, pushes[p] + 1>> \in Message /\ pushes[p] + 1 \in 0..MaxPushes
        BY <1>2, <3>1 DEF Push, Message
      <4>2. QOK'
        BY <2>q, <3>1, <4>1, PushedType DEF Push
      <4> QED
        BY <1>2, <3>1, <4>1, <4>2 DEF Push, GoTo
    <3>2. CASE PushRefused(p)
      BY <1>2, <3>2 DEF PushRefused, Refused, GoTo, queueVars, QueueTypeOK
    <3>3. CASE PushNotify(p)
      <4>1. QOK'
        BY <2>q, <3>3, NotifyType DEF PushNotify
      <4> QED
        BY <1>2, <3>3, <4>1 DEF PushNotify, GoTo
    <3> QED
      BY <2>1, <3>1, <3>2, <3>3 DEF ProducerStep
  <2>2. ASSUME NEW c \in Consumers, ConsumerStep(c) \/ Wake(c) PROVE TypeOK'
    <3>1. CASE Sleep(c) \/ Wake(c)
      <4>1. QOK'
        BY <2>q, <3>1, SleepType DEF Sleep, Wake
      <4> QED
        BY <1>2, <3>1, <4>1 DEF Sleep, Wake
    <3>2. CASE Pop(c)
      <4>1. PICK m \in Message :
              /\ Popped(Mailbox, m)
              /\ taken' = Append(taken, m)
              /\ received' = [received EXCEPT ![c] = Append(@, m)]
        BY <3>2 DEF Pop
      <4>2. QOK'
        BY <2>q, <4>1, PoppedType
      <4> QED
        BY <1>2, <3>2, <4>1, <4>2 DEF Pop
    <3>3. CASE PopClosed(c)
      BY <1>2, <3>3 DEF PopClosed, Drained, GoTo, queueVars, QueueTypeOK
    <3> QED
      BY <2>2, <3>1, <3>2, <3>3 DEF ConsumerStep
  <2>3. ASSUME NEW k \in Closers, CloserStep(k) PROVE TypeOK'
    <3>1. QOK'
      BY <2>q, <2>3, NotifyType DEF CloserStep, Close, CloseNotify
    <3> QED
      BY <1>2, <2>3, <3>1 DEF CloserStep, Close, CloseNotify, GoTo
  <2>4. CASE UNCHANGED vars
    BY <1>2, <2>4 DEF vars, queueVars, QueueTypeOK
  <2> QED
    BY <1>2, <2>1, <2>2, <2>3, <2>4 DEF Next, Terminated
<1> QED
  BY <1>1, <1>2, PTL DEF Spec

(* accepted = taken \o messages: delivery is in order and complete.         *)
THEOREM DeliveryIsFifo == Spec => []Conservation
<1>1. Init => Conservation
  <2>1. SUFFICES ASSUME Init PROVE Conservation
    OBVIOUS
  <2>2. <<>> \o <<>> = <<>>
    OBVIOUS
  <2> QED
    BY <2>1, <2>2 DEF Init, QueueInit, Conservation
<1>2. ASSUME TypeOK, Conservation, [Next]_vars PROVE Conservation'
  <2>t. /\ messages \in [{Mailbox} -> Seq(Message)]
        /\ taken \in Seq(Message)
    BY <1>2 DEF TypeOK, QueueTypeOK
  <2>1. ASSUME NEW p \in Producers, Push(p) PROVE Conservation'
    <3> DEFINE m == <<p, pushes[p] + 1>>
    <3>1. m \in Message
      BY <1>2, <2>1, ThreadsAssumption DEF TypeOK, Push, Message
    <3>2. accepted' = Append(accepted, m) /\ taken' = taken
      BY <2>1 DEF Push
    <3>3. messages'[Mailbox] = Append(messages[Mailbox], m)
      BY <2>t, <2>1 DEF Push, Pushed
    <3> HIDE DEF m
    <3>4. messages[Mailbox] \in Seq(Message)
      BY <2>t
    <3>5. Append(taken \o messages[Mailbox], m) = taken \o Append(messages[Mailbox], m)
      <4>1. \A t, q \in Seq(Message), x \in Message :
              Append(t \o q, x) = t \o Append(q, x)
        OBVIOUS
      <4> QED
        BY <2>t, <3>1, <3>4, <4>1, Zenon
    <3> QED
      BY <1>2, <3>2, <3>3, <3>5 DEF Conservation
  <2>2. ASSUME NEW c \in Consumers, Pop(c) PROVE Conservation'
    <3>1. /\ messages[Mailbox] # <<>> /\ accepted' = accepted
          /\ taken' = Append(taken, Head(messages[Mailbox]))
          /\ messages'[Mailbox] = Tail(messages[Mailbox])
      BY <2>t, <2>2 DEF Pop, Popped
    <3> QED
      BY <1>2, <2>t, <3>1, TakeOne DEF Conservation
  <2>3. CASE UNCHANGED <<accepted, taken, messages>>
    BY <1>2, <2>3 DEF Conservation
  <2> QED
    BY <1>2, <2>1, <2>2, <2>3
    DEF Next, Terminated, vars, queueVars, ProducerStep, ConsumerStep, CloserStep,
        PushRefused, PushNotify, Sleep, Wake, PopClosed, Close, CloseNotify, Refused,
        NotifyOne, FallAsleep, WakeSpuriously, Drained, MarkClosed, NotifyAll
<1> QED
  BY <1>1, <1>2, TypeCorrect, PTL DEF Spec

(* A consumer that got nullopt has missed nothing and never will.           *)
THEOREM NulloptFinal == Spec => []NulloptIsFinal
<1>1. Init => NulloptIsFinal
  BY ThreadsAssumption DEF Init, NulloptIsFinal, Threads
<1>2. ASSUME TypeOK, Conservation, NulloptIsFinal, [Next]_vars PROVE NulloptIsFinal'
  <2>t. /\ messages \in [{Mailbox} -> Seq(Message)]
        /\ closed \in [{Mailbox} -> BOOLEAN]
        /\ taken \in Seq(Message)
        /\ pc \in [Threads -> {"push", "notify", "pop", "close", "wake", "done"}]
    BY <1>2 DEF TypeOK, QueueTypeOK
  <2> DEFINE Finished == \E c \in Consumers : pc[c] = "done"
  <2>e. \A s \in Seq(Message) : s \o <<>> = s
    OBVIOUS
  <2>1. ASSUME NEW p \in Producers, ProducerStep(p) PROVE NulloptIsFinal'
    <3>1. \A c \in Consumers : pc'[c] = pc[c]
      BY <2>1, <2>t, ThreadsAssumption
      DEF ProducerStep, Push, PushRefused, PushNotify, GoTo, Threads
    <3>2. CASE Push(p)
      <4>1. ~closed[Mailbox]
        BY <3>2 DEF Push, Pushed
      <4> QED
        BY <1>2, <3>1, <4>1 DEF NulloptIsFinal
    <3>3. CASE UNCHANGED <<closed, accepted, taken>>
      BY <1>2, <3>1, <3>3 DEF NulloptIsFinal
    <3> QED
      BY <2>1, <3>2, <3>3
      DEF ProducerStep, PushRefused, PushNotify, Refused, NotifyOne, queueVars
  <2>2. ASSUME NEW c \in Consumers, Pop(c) PROVE NulloptIsFinal'
    <3>1. UNCHANGED <<pc, closed, accepted>> /\ messages[Mailbox] # <<>>
      BY <2>2 DEF Pop, Popped
    <3>2. ~Finished
      <4>1. SUFFICES ASSUME accepted = taken PROVE FALSE
        BY <1>2 DEF NulloptIsFinal
      <4>2. taken = taken \o messages[Mailbox]
        BY <1>2, <4>1 DEF Conservation
      <4>3. Len(taken) = Len(taken) + Len(messages[Mailbox])
        BY <2>t, <4>2
      <4>4. Len(messages[Mailbox]) # 0 /\ Len(messages[Mailbox]) \in Nat /\ Len(taken) \in Nat
        BY <2>t, <3>1
      <4> QED
        BY <4>3, <4>4
    <3> QED
      BY <3>1, <3>2 DEF NulloptIsFinal
  <2>3. ASSUME NEW c \in Consumers, PopClosed(c) PROVE NulloptIsFinal'
    <3>1. closed[Mailbox] /\ messages[Mailbox] = <<>> /\ UNCHANGED <<closed, accepted, taken>>
      BY <2>3 DEF PopClosed, Drained, queueVars
    <3> QED
      BY <1>2, <2>t, <2>e, <3>1 DEF NulloptIsFinal, Conservation
  <2>4. ASSUME NEW k \in Closers, CloserStep(k) PROVE NulloptIsFinal'
    <3>1. \A c \in Consumers : pc'[c] = pc[c]
      BY <2>4, <2>t, ThreadsAssumption DEF CloserStep, Close, CloseNotify, GoTo, Threads
    <3>2. UNCHANGED <<accepted, taken>> /\ (closed[Mailbox] => closed'[Mailbox])
      BY <2>4, <2>t DEF CloserStep, Close, CloseNotify, MarkClosed, NotifyAll
    <3> QED
      BY <1>2, <3>1, <3>2 DEF NulloptIsFinal
  <2>5. CASE UNCHANGED <<pc, closed, accepted, taken>>
    BY <1>2, <2>5 DEF NulloptIsFinal
  <2> QED
    BY <1>2, <2>1, <2>2, <2>3, <2>4, <2>5
    DEF Next, Terminated, ConsumerStep, Sleep, Wake, FallAsleep, WakeSpuriously, vars,
        queueVars
<1> QED
  BY <1>1, <1>2, TypeCorrect, DeliveryIsFifo, PTL DEF Spec

(* Who sleeps is a consumer inside waitPop().                               *)
Sleepers == asleep[Mailbox] \subseteq {c \in Consumers : pc[c] = "pop"}

(* At least as many threads will notify or look as there are messages.      *)
Attended == Len(messages[Mailbox]) <= Cardinality(Notifying) + Cardinality(Looking)

(* There are finitely many threads, so both sets have a size.               *)
LEMMA ThreadCounts ==
  /\ IsFiniteSet(Notifying) /\ Cardinality(Notifying) \in Nat
  /\ IsFiniteSet(Looking) /\ Cardinality(Looking) \in Nat
  /\ IsFiniteSet(Notifying') /\ Cardinality(Notifying') \in Nat
  /\ IsFiniteSet(Looking') /\ Cardinality(Looking') \in Nat
<1>1. \A S \in SUBSET Producers : IsFiniteSet(S) /\ Cardinality(S) \in Nat
  BY ThreadsAssumption, FS_Subset, FS_CardinalityType
<1>2. \A S \in SUBSET Consumers : IsFiniteSet(S) /\ Cardinality(S) \in Nat
  BY ThreadsAssumption, FS_Subset, FS_CardinalityType
<1>3. Notifying \in SUBSET Producers /\ Notifying' \in SUBSET Producers
  BY DEF Notifying
<1>4. Looking \in SUBSET Consumers /\ Looking' \in SUBSET Consumers
  BY DEF Looking
<1> QED
  BY <1>1, <1>2, <1>3, <1>4

(* Where no message comes and neither set loses a member, the messages stay  *)
(* attended to.                                                              *)
LEMMA StillAttended ==
  ASSUME TypeOK, TypeOK',
         Attended,
         \/ messages' = messages
         \/ messages[Mailbox] # <<>> /\ messages'[Mailbox] = Tail(messages[Mailbox]),
         Notifying \subseteq Notifying', Looking \subseteq Looking'
  PROVE  Attended'
<1>1. /\ Cardinality(Notifying) <= Cardinality(Notifying')
      /\ Cardinality(Looking) <= Cardinality(Looking')
  BY ThreadCounts, FS_Subset
<1>2. Len(messages'[Mailbox]) <= Len(messages[Mailbox])
  BY DEF TypeOK, QueueTypeOK
<1>3. messages[Mailbox] \in Seq(Message) /\ messages'[Mailbox] \in Seq(Message)
  BY DEF TypeOK, QueueTypeOK
<1>4. Len(messages[Mailbox]) \in Nat /\ Len(messages'[Mailbox]) \in Nat
  BY <1>3
<1> QED
  BY <1>1, <1>2, <1>4, ThreadCounts DEF Attended

(* No wake-up is lost: push() and close() notify after the unlock, and that  *)
(* is in time, because a waiter tests the condition before it sleeps.       *)
THEOREM WakeupsArrive == Spec => []NoLostWakeup
<1> DEFINE Inv == Sleepers /\ NoLostWakeup
<1>1. Init => Inv
  <2> SUFFICES ASSUME Init PROVE Inv
    OBVIOUS
  <2>1. asleep[Mailbox] = {}
    BY DEF Init, QueueInit
  <2> QED
    BY <2>1 DEF Sleepers, NoLostWakeup
<1>2. ASSUME TypeOK, TypeOK', Inv, [Next]_vars PROVE Inv'
  <2>t. /\ messages \in [{Mailbox} -> Seq(Message)]
        /\ closed \in [{Mailbox} -> BOOLEAN]
        /\ asleep \in [{Mailbox} -> SUBSET Threads]
        /\ pc \in [Threads -> {"push", "notify", "pop", "close", "wake", "done"}]
        /\ messages[Mailbox] \in Seq(Message)
    BY <1>2 DEF TypeOK, QueueTypeOK
  <2>d. /\ \A p \in Producers : p \in Threads /\ p \notin Consumers /\ p \notin Closers
        /\ \A c \in Consumers : c \in Threads /\ c \notin Closers
        /\ \A k \in Closers : k \in Threads
    BY ThreadsAssumption DEF Threads
  <2>a. asleep[Mailbox] # {} => Attended /\ (closed[Mailbox] => \E k \in Closers : pc[k] = "wake")
    BY <1>2 DEF NoLostWakeup, Attended
  <2> DEFINE Result ==
        /\ Sleepers'
        /\ asleep'[Mailbox] # {} =>
             Attended' /\ (closed'[Mailbox] => \E k \in Closers : pc'[k] = "wake")
  <2> SUFFICES Result
    BY DEF NoLostWakeup, Attended
  <2>1. ASSUME NEW p \in Producers, Push(p)
        PROVE  Result
    <3> DEFINE m == <<p, pushes[p] + 1>>
    <3>1. /\ pc[p] = "push" /\ pc' = [pc EXCEPT ![p] = "notify"]
          /\ asleep' = asleep /\ closed' = closed /\ ~closed[Mailbox]
          /\ messages'[Mailbox] = Append(messages[Mailbox], m)
      BY <2>1, <2>t DEF Push, Pushed, GoTo
    <3>2. Notifying' = Notifying \cup {p} /\ p \notin Notifying /\ Looking' = Looking
      BY <2>t, <2>d, <3>1 DEF Notifying, Looking, Awake
    <3>3. Cardinality(Notifying') = Cardinality(Notifying) + 1
      BY <3>2, ThreadCounts, FS_AddElement
    <3>4. Len(messages'[Mailbox]) = Len(messages[Mailbox]) + 1 /\ Len(messages[Mailbox]) \in Nat
      BY <2>t, <3>1
    <3>5. Attended => Attended'
      BY <3>2, <3>3, <3>4, ThreadCounts DEF Attended
    <3> QED
      BY <1>2, <2>a, <2>t, <2>d, <3>1, <3>5 DEF Sleepers
  <2>2. ASSUME NEW p \in Producers, PushRefused(p) PROVE Result
    <3>1. /\ pc' = [pc EXCEPT ![p] = "done"] /\ pc[p] = "push"
          /\ UNCHANGED <<messages, closed, asleep>>
      BY <2>2 DEF PushRefused, Refused, queueVars, GoTo
    <3>2. Notifying' = Notifying /\ Looking' = Looking
      BY <2>t, <2>d, <3>1 DEF Notifying, Looking, Awake
    <3>3. Attended => Attended'
      BY <3>1, <3>2 DEF Attended
    <3> QED
      BY <1>2, <2>a, <2>t, <2>d, <3>1, <3>3 DEF Sleepers
  <2>3. ASSUME NEW p \in Producers, PushNotify(p) PROVE Result
    <3>1. /\ pc[p] = "notify" /\ pc' = [pc EXCEPT ![p] = pc'[p]] /\ pc'[p] \in {"push", "done"}
          /\ UNCHANGED <<messages, closed>> /\ NotifyOne(Mailbox)
      BY <2>3, <2>t, <2>d DEF PushNotify, GoTo, NotifyOne
    <3>2. CASE asleep[Mailbox] = {}
      BY <1>2, <2>t, <3>1, <3>2 DEF NotifyOne, Sleepers
    <3>3. CASE asleep[Mailbox] # {}
      <4>1. PICK c \in asleep[Mailbox] : asleep' = [asleep EXCEPT ![Mailbox] = @ \ {c}]
        BY <3>1, <3>3 DEF NotifyOne
      <4>2. /\ asleep'[Mailbox] = asleep[Mailbox] \ {c}
            /\ c \in Consumers /\ pc[c] = "pop"
        BY <1>2, <2>t, <4>1 DEF Sleepers
      <4>3. Notifying' = Notifying \ {p} /\ p \in Notifying
        BY <2>t, <2>d, <3>1 DEF Notifying
      <4>4. Looking' = Looking \cup {c} /\ c \notin Looking
        BY <2>t, <2>d, <3>1, <4>1, <4>2 DEF Looking, Awake
      <4>5. Cardinality(Notifying') = Cardinality(Notifying) - 1
        BY <4>3, ThreadCounts, FS_RemoveElement
      <4>6. Cardinality(Looking') = Cardinality(Looking) + 1
        BY <4>4, ThreadCounts, FS_AddElement
      <4>7. Attended'
        BY <2>a, <3>1, <3>3, <4>5, <4>6, ThreadCounts DEF Attended
      <4>8. Sleepers'
        BY <1>2, <2>t, <2>d, <3>1, <4>2 DEF Sleepers
      <4> QED
        BY <2>a, <2>t, <2>d, <3>1, <3>3, <4>7, <4>8
    <3> QED
      BY <3>2, <3>3
  <2>4. ASSUME NEW c \in Consumers, Sleep(c) PROVE Result
    <3>1. /\ messages[Mailbox] = <<>> /\ ~closed[Mailbox] /\ pc[c] = "pop"
          /\ asleep' = [asleep EXCEPT ![Mailbox] = @ \cup {c}]
          /\ UNCHANGED <<messages, closed, pc>>
      BY <2>4 DEF Sleep, FallAsleep, Ready, Awake
    <3>2. Len(messages'[Mailbox]) = 0
      BY <3>1
    <3>3. Attended'
      BY <3>2, ThreadCounts DEF Attended
    <3> QED
      BY <1>2, <2>t, <2>d, <3>1, <3>3 DEF Sleepers
  <2>5. ASSUME NEW c \in Consumers, Wake(c) PROVE Result
    <3>1. /\ asleep'[Mailbox] = asleep[Mailbox] \ {c} /\ c \in asleep[Mailbox]
          /\ UNCHANGED <<messages, closed, pc>>
      BY <2>5, <2>t DEF Wake, WakeSpuriously
    <3>2. Notifying' = Notifying /\ Looking \subseteq Looking'
      BY <3>1 DEF Notifying, Looking, Awake
    <3>3. Attended => Attended'
      BY <1>2, <3>1, <3>2, StillAttended
    <3> QED
      BY <1>2, <2>a, <3>1, <3>3 DEF Sleepers
  <2>6. ASSUME NEW c \in Consumers, Pop(c) PROVE Result
    <3>1. /\ messages[Mailbox] # <<>> /\ messages'[Mailbox] = Tail(messages[Mailbox])
          /\ UNCHANGED <<closed, asleep, pc>>
      BY <2>6, <2>t DEF Pop, Popped
    <3>2. Notifying' = Notifying /\ Looking' = Looking
      BY <3>1 DEF Notifying, Looking, Awake
    <3>3. Attended => Attended'
      BY <1>2, <3>1, <3>2, StillAttended
    <3> QED
      BY <1>2, <2>a, <3>1, <3>3 DEF Sleepers
  <2>7. ASSUME NEW c \in Consumers, PopClosed(c) PROVE Result
    <3>1. /\ pc[c] = "pop" /\ pc' = [pc EXCEPT ![c] = "done"] /\ c \notin asleep[Mailbox]
          /\ messages[Mailbox] = <<>> /\ UNCHANGED <<messages, closed, asleep>>
      BY <2>7 DEF PopClosed, Drained, queueVars, GoTo, Awake
    <3>2. Len(messages'[Mailbox]) = 0
      BY <3>1
    <3>3. Attended'
      BY <3>2, ThreadCounts DEF Attended
    <3> QED
      BY <1>2, <2>a, <2>t, <2>d, <3>1, <3>3 DEF Sleepers
  <2>8. ASSUME NEW k \in Closers, CloserStep(k) PROVE Result
    <3>1. CASE Close(k)
      <4>1. /\ pc' = [pc EXCEPT ![k] = "wake"] /\ UNCHANGED <<messages, asleep>>
        BY <3>1 DEF Close, MarkClosed, GoTo
      <4>2. Notifying' = Notifying /\ Looking' = Looking /\ pc'[k] = "wake"
        BY <2>t, <2>d, <4>1 DEF Notifying, Looking, Awake
      <4>3. Attended => Attended'
        BY <4>1, <4>2 DEF Attended
      <4> QED
        BY <1>2, <2>a, <2>t, <2>d, <4>1, <4>2, <4>3 DEF Sleepers
    <3>2. CASE CloseNotify(k)
      BY <2>t, <3>2 DEF CloseNotify, NotifyAll, Sleepers
    <3> QED
      BY <2>8, <3>1, <3>2 DEF CloserStep
  <2>9. CASE UNCHANGED vars
    BY <1>2, <2>9
    DEF vars, queueVars, Sleepers, NoLostWakeup, Attended, Notifying, Looking, Awake
  <2> QED
    BY <1>2, <2>1, <2>2, <2>3, <2>4, <2>5, <2>6, <2>7, <2>8, <2>9
    DEF Next, Terminated, ProducerStep, ConsumerStep
<1>3. Inv => NoLostWakeup
  OBVIOUS
<1> QED
  BY <1>1, <1>2, <1>3, TypeCorrect, PTL DEF Spec

=============================================================================
