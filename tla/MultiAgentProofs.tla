-------------------------- MODULE MultiAgentProofs --------------------------
(***************************************************************************)
(* Proofs about MultiAgent, for every set of agent results: IInv is         *)
(* inductive, and the coordinator's safety properties follow from it.       *)
(***************************************************************************)
EXTENDS MultiAgent, MessageQueueProofs

(* Each worker has one peer, and the two are all the workers there are.     *)
LEMMA Peers ==
  ASSUME NEW w \in Workers
  PROVE  /\ Peer(w) \in Workers
         /\ Peer(w) # w
         /\ Peer(Peer(w)) = w
         /\ \A v \in Workers : v = w \/ v = Peer(w)
         /\ Peer(w) = First <=> w = Second
BY WorkersAssumption DEF Workers, Peer

(* A result that an agent can have is sent as a message between workers.    *)
LEMMA OutgoingType ==
  ASSUME NEW w \in Workers, runResult[w] \in AllResults
  PROVE  Outgoing(w) \in AgentMessage
BY DEF Outgoing, AgentMessage

(* The coordinator starts in a state that satisfies the invariant.          *)
LEMMA InitInv == Init => IInv
<1> SUFFICES ASSUME Init PROVE IInv
  OBVIOUS
<1>1. TypeOK
  <2>1. QueueTypeOK(Workers, Workers, AgentMessage)
    BY QueueInitType DEF Init
  <2> QED
    BY <2>1 DEF Init, TypeOK, MainSteps, WorkerSteps, CommErrors
<1>2. MailboxInv
  BY Peers DEF Init, MailboxInv, QueueInit
<1>3. LeavingInv
  BY DEF Init, LeavingInv, ClosingSteps
<1>4. StartInv
  BY DEF Init, StartInv, ClosingMain
<1>5. ClosedInv
  BY Peers DEF Init, ClosedInv, ClosedBy, QueueInit
<1>6. ReceivedIsPeersResult
  BY DEF Init, ReceivedIsPeersResult
<1> QED
  BY <1>1, <1>2, <1>3, <1>4, <1>5, <1>6 DEF IInv

(* Every step keeps the types.                                              *)
LEMMA TypeStep ==
  ASSUME TypeOK, MailboxInv, [Next]_vars
  PROVE  TypeOK'
<1> DEFINE QOK == QueueTypeOK(Workers, Workers, AgentMessage)
<1>0. QOK
  BY DEF TypeOK
<1> USE DEF TypeOK, GoTo, MainSteps, WorkerSteps, CommErrors
<1>1. CASE CoordinatorStep
  <2>1. First \in Workers /\ Second \in Workers
    BY DEF Workers
  <2>2. UNCHANGED queueVars => QOK'
    BY <1>0 DEF QueueTypeOK, queueVars
  <2>3. QOK'
    BY <1>0, <1>1, <2>1, <2>2, NotifyType
    DEF CoordinatorStep, CheckTask, StartFirst, StartSecond, StartSecondFails,
        CloseFirst, WakeFirst, CloseSecond, WakeSecond, JoinRethrow, JoinFirst,
        JoinSecond
  <2>4. /\ main' \in MainSteps /\ pc' \in [Workers -> WorkerSteps]
        /\ UNCHANGED <<runResult, peerMessage, commError, threw>>
    BY <1>1, <2>1
    DEF CoordinatorStep, CheckTask, StartFirst, StartSecond, StartSecondFails,
        CloseFirst, WakeFirst, CloseSecond, WakeSecond, JoinRethrow, JoinFirst,
        JoinSecond, workerVars
  <2> QED
    BY <2>3, <2>4
<1>2. ASSUME NEW w \in Workers, WorkerStep(w) \/ Wake(w)
      PROVE  TypeOK'
  <2>0. Peer(w) \in Workers
    BY Peers
  <2>1. CASE RunAgent(w) \/ Throw(w)
    <3>1. QOK'
      BY <1>0, <2>1 DEF RunAgent, Throw, QueueTypeOK, queueVars
    <3>2. /\ main' = main /\ pc' \in [Workers -> WorkerSteps]
          /\ UNCHANGED <<peerMessage, commError>>
      BY <2>1 DEF RunAgent, Throw
    <3>3. /\ runResult' \in [Workers -> AllResults \cup {DefaultResult}]
          /\ threw' \in [Workers -> BOOLEAN]
      BY <2>1 DEF RunAgent, Throw
    <3> QED
      BY <3>1, <3>2, <3>3
  <2>2. CASE Send(w)
    <3>1. Outgoing(w) \in AgentMessage
      BY <2>2, OutgoingType DEF Send, MailboxInv
    <3>2. QOK'
      BY <1>0, <2>0, <2>2, <3>1, PushedType DEF Send
    <3> QED
      BY <2>2, <3>2 DEF Send
  <2>3. CASE SendRefused(w) \/ ReceiveClosed(w) \/ RecordFailure(w)
    <3>1. QOK'
      BY <1>0, <2>3 DEF SendRefused, ReceiveClosed, RecordFailure, Refused, Drained,
         QueueTypeOK, queueVars
    <3> QED
      BY <2>3, <3>1 DEF SendRefused, ReceiveClosed, RecordFailure
  <2>4. CASE NotifyPeer(w) \/ Sleep(w) \/ Wake(w)
    <3>1. QOK'
      BY <1>0, <2>0, <2>4, NotifyType, SleepType DEF NotifyPeer, Sleep, Wake
    <3> QED
      BY <2>4, <3>1 DEF NotifyPeer, Sleep, Wake, workerVars
  <2>5. CASE Receive(w)
    <3>1. PICK m \in AgentMessage :
            Popped(w, m) /\ peerMessage' = [peerMessage EXCEPT ![w] = m]
      BY <2>5 DEF Receive
    <3>2. QOK'
      BY <1>0, <3>1, PoppedType
    <3> QED
      BY <2>5, <3>1, <3>2 DEF Receive
  <2>6. CASE CloseOwn(w) \/ WakeOwn(w) \/ ClosePeer(w) \/ WakePeer(w)
    <3>1. QOK'
      BY <1>0, <2>0, <2>6, NotifyType DEF CloseOwn, WakeOwn, ClosePeer, WakePeer
    <3> QED
      BY <2>6, <3>1 DEF CloseOwn, WakeOwn, ClosePeer, WakePeer
  <2> QED
    BY <1>2, <2>1, <2>2, <2>3, <2>4, <2>5, <2>6 DEF WorkerStep
<1>3. CASE UNCHANGED vars
  BY <1>3 DEF vars, queueVars, workerVars, QueueTypeOK
<1> QED
  BY <1>1, <1>2, <1>3 DEF Next, Terminated

(* The coordinator only ever starts workers that have not been started.      *)
LEMMA CoordinatorStarts ==
  ASSUME TypeOK, StartInv, CoordinatorStep
  PROVE  /\ UNCHANGED <<messages, runResult, peerMessage, commError, threw>>
         /\ \A w \in Workers :
              pc'[w] = pc[w] \/ (pc[w] = "unstarted" /\ pc'[w] = "run")
<1>1. pc[First] = "unstarted" \/ main # "start_first"
  BY DEF StartInv, Workers
<1>2. pc[Second] = "unstarted" \/ main # "start_second"
  BY DEF StartInv
<1> QED
  BY <1>1, <1>2
  DEF TypeOK, CoordinatorStep, CheckTask, StartFirst, StartSecond, StartSecondFails,
      CloseFirst, WakeFirst, CloseSecond, WakeSecond, JoinRethrow, JoinFirst,
      JoinSecond, MarkClosed, NotifyAll, workerVars, queueVars, Workers

(* Every step keeps at most one message under way, the one its sender's      *)
(* result makes, and so what is received is the peer's result.               *)
LEMMA MailboxStep ==
  ASSUME TypeOK, MailboxInv, LeavingInv, StartInv, ReceivedIsPeersResult,
         [Next]_vars
  PROVE  MailboxInv' /\ ReceivedIsPeersResult'
<1>t. /\ pc \in [Workers -> WorkerSteps]
      /\ messages \in [Workers -> Seq(AgentMessage)]
      /\ peerMessage \in [Workers -> AgentMessage \cup {NoMessage}]
      /\ runResult \in [Workers -> AllResults \cup {DefaultResult}]
  BY DEF TypeOK, QueueTypeOK
<1> USE DEF MailboxInv, ReceivedIsPeersResult, GoTo
<1>q. ASSUME UNCHANGED <<messages, runResult, peerMessage>>,
             \A v \in Workers :
               \/ pc'[v] = pc[v]
               \/ pc[v] = "unstarted" /\ pc'[v] = "run"
               \/ /\ pc'[v] \notin {"unstarted", "run", "send"}
                  /\ pc'[v] = "receive" => pc[v] = "notify"
                  /\ pc'[v] # "notify"
      PROVE  MailboxInv' /\ ReceivedIsPeersResult'
  <2>1. \A v \in Workers : Outgoing(v)' = Outgoing(v)
    BY <1>q DEF Outgoing
  <2> QED
    BY <1>q, <2>1, Peers
<1>1. CASE CoordinatorStep
  BY <1>1, <1>q, CoordinatorStarts
<1>2. ASSUME NEW w \in Workers, WorkerStep(w) \/ Wake(w)
      PROVE  MailboxInv' /\ ReceivedIsPeersResult'
  <2> DEFINE p == Peer(w)
  <2>0. p \in Workers /\ p # w /\ Peer(p) = w /\ \A v \in Workers : v = w \/ v = p
    BY Peers
  <2>k. UNCHANGED runResult => \A v \in Workers : Outgoing(v)' = Outgoing(v)
    BY DEF Outgoing
  <2>1. CASE RunAgent(w)
    <3>1. Outgoing(p)' = Outgoing(p)
      BY <2>0, <2>1, <1>t DEF RunAgent, Outgoing
    <3> QED
      BY <2>0, <2>1, <3>1, <1>t DEF RunAgent, queueVars
  <2>2. CASE Send(w)
    <3>1. messages[p] = <<>> /\ Outgoing(w) \in AgentMessage
      BY <2>2, OutgoingType DEF Send
    <3>2. messages' = [messages EXCEPT ![p] = <<Outgoing(w)>>]
      BY <2>2, <3>1 DEF Send, Pushed
    <3> QED
      <4>1. messages'[p] = <<Outgoing(w)>> /\ messages'[w] = messages[w]
        BY <2>0, <3>2, <1>t
      <4>2. pc' = [pc EXCEPT ![w] = "notify"] /\ pc[w] = "send"
        BY <2>2 DEF Send
      <4>3. UNCHANGED <<runResult, peerMessage>>
        BY <2>2 DEF Send
      <4>4. MailboxInv'
        BY <2>0, <2>k, <4>1, <4>2, <4>3, <1>t
      <4>5. ReceivedIsPeersResult'
        BY <2>k, <4>3, Peers
      <4> QED
        BY <4>4, <4>5
  <2>3. CASE Receive(w)
    <3>1. PICK m \in AgentMessage :
            Popped(w, m) /\ peerMessage' = [peerMessage EXCEPT ![w] = m]
      BY <2>3 DEF Receive
    <3>2. messages[w] # <<>> /\ m = Head(messages[w])
          /\ messages' = [messages EXCEPT ![w] = Tail(@)]
      BY <3>1 DEF Popped
    <3>3. messages[w] = <<Outgoing(p)>>
      BY <2>0, <3>2
    <3>4. m = Outgoing(p) /\ messages'[w] = <<>> /\ messages'[p] = messages[p]
      BY <1>t, <2>0, <3>2, <3>3
    <3>5. /\ pc[w] = "receive" /\ pc'[w] = "exited" /\ pc'[p] = pc[p]
          /\ runResult' = runResult
          /\ peerMessage'[w] = m /\ peerMessage'[p] = peerMessage[p]
      BY <1>t, <2>0, <2>3, <3>1 DEF Receive, Awake
    <3>6. ReceivedIsPeersResult'
      BY <2>0, <2>k, <3>4, <3>5
    <3>7. MailboxInv'
      BY <2>0, <2>k, <3>2, <3>4, <3>5
    <3> QED
      BY <3>6, <3>7
  <2>4. CASE SendRefused(w) \/ ReceiveClosed(w) \/ Throw(w) \/ RecordFailure(w)
    BY <2>4, <1>t, <1>q
    DEF SendRefused, ReceiveClosed, Throw, RecordFailure, Refused, Drained, queueVars
  <2>5. CASE NotifyPeer(w) \/ Sleep(w) \/ Wake(w)
    BY <2>5, <1>t, <1>q
    DEF NotifyPeer, Sleep, Wake, NotifyOne, FallAsleep, WakeSpuriously, workerVars
  <2>6. CASE CloseOwn(w) \/ WakeOwn(w) \/ ClosePeer(w) \/ WakePeer(w)
    BY <2>6, <1>t, <1>q
    DEF CloseOwn, WakeOwn, ClosePeer, WakePeer, MarkClosed, NotifyAll
  <2> QED
    BY <1>2, <2>1, <2>2, <2>3, <2>4, <2>5, <2>6 DEF WorkerStep
<1>3. CASE UNCHANGED vars
  BY <1>3 DEF vars, queueVars, workerVars, Outgoing
<1> QED
  BY <1>1, <1>2, <1>3 DEF Next, Terminated

(* Every step keeps the ways in which a worker leaves apart.                 *)
LEMMA LeavingStep ==
  ASSUME TypeOK, LeavingInv, StartInv, [Next]_vars
  PROVE  LeavingInv'
<1>t. /\ pc \in [Workers -> WorkerSteps]
      /\ peerMessage \in [Workers -> AgentMessage \cup {NoMessage}]
      /\ threw \in [Workers -> BOOLEAN]
  BY DEF TypeOK
<1> USE DEF LeavingInv, ClosingSteps, GoTo
<1>1. CASE CoordinatorStep
  BY <1>1, CoordinatorStarts
<1>2. ASSUME NEW w \in Workers, WorkerStep(w) \/ Wake(w)
      PROVE  LeavingInv'
  <2>1. CASE RunAgent(w) \/ Send(w) \/ NotifyPeer(w)
    BY <2>1, <1>t DEF RunAgent, Send, NotifyPeer
  <2>2. CASE SendRefused(w) \/ ReceiveClosed(w)
    BY <2>2, <1>t DEF SendRefused, ReceiveClosed, Awake
  <2>3. CASE Receive(w)
    BY <2>3, <1>t DEF Receive, Awake
  <2>4. CASE Throw(w) \/ RecordFailure(w)
    BY <2>4, <1>t DEF Throw, RecordFailure, Awake
  <2>5. CASE Sleep(w) \/ Wake(w)
    BY <2>5, <1>t DEF Sleep, Wake, workerVars
  <2>6. CASE CloseOwn(w) \/ WakeOwn(w) \/ ClosePeer(w) \/ WakePeer(w)
    BY <2>6, <1>t DEF CloseOwn, WakeOwn, ClosePeer, WakePeer
  <2> QED
    BY <1>2, <2>1, <2>2, <2>3, <2>4, <2>5, <2>6 DEF WorkerStep
<1>3. CASE UNCHANGED vars
  BY <1>3 DEF vars, workerVars
<1> QED
  BY <1>1, <1>2, <1>3 DEF Next, Terminated

(* Every step keeps the coordinator and the threads it started in step.      *)
LEMMA StartStep ==
  ASSUME TypeOK, StartInv, [Next]_vars
  PROVE  StartInv'
<1>t. pc \in [Workers -> WorkerSteps] /\ main \in MainSteps
  BY DEF TypeOK
<1> USE DEF StartInv, ClosingMain, GoTo
<1>1. CASE CoordinatorStep
  BY <1>1, <1>t, WorkersAssumption
  DEF CoordinatorStep, CheckTask, StartFirst, StartSecond, StartSecondFails,
      CloseFirst, WakeFirst, CloseSecond, WakeSecond, JoinRethrow, JoinFirst,
      JoinSecond, workerVars, Workers
<1>2. ASSUME NEW w \in Workers, WorkerStep(w) \/ Wake(w)
      PROVE  StartInv'
  <2>1. main' = main
    BY <1>2 DEF WorkerStep, RunAgent, Send, SendRefused, NotifyPeer, Sleep, Receive,
       ReceiveClosed, Throw, RecordFailure, CloseOwn, WakeOwn, ClosePeer, WakePeer,
       Wake
  <2>2. pc' = pc \/ (pc[w] \notin {"unstarted", "exited"}
                      /\ \E next : pc' = [pc EXCEPT ![w] = next])
    BY <1>2 DEF WorkerStep, RunAgent, Send, SendRefused, NotifyPeer, Sleep, Receive,
       ReceiveClosed, Throw, RecordFailure, CloseOwn, WakeOwn, ClosePeer, WakePeer,
       Wake, Awake, workerVars
  <2> QED
    BY <2>1, <2>2, <1>t DEF Workers
<1>3. CASE UNCHANGED vars
  BY <1>3 DEF vars, workerVars
<1> QED
  BY <1>1, <1>2, <1>3 DEF Next, Terminated

(* Every step keeps the causes of closed mailboxes, and what a worker that   *)
(* reports one has missed.                                                   *)
LEMMA ClosedStep ==
  ASSUME IInv, [Next]_vars
  PROVE  ClosedInv'
<1>t. /\ pc \in [Workers -> WorkerSteps]
      /\ messages \in [Workers -> Seq(AgentMessage)]
      /\ closed \in [Workers -> BOOLEAN]
      /\ commError \in [Workers -> CommErrors]
      /\ threw \in [Workers -> BOOLEAN]
  BY DEF IInv, TypeOK, QueueTypeOK
<1>i. TypeOK /\ MailboxInv /\ LeavingInv /\ StartInv /\ ClosedInv
  BY DEF IInv
<1> USE DEF NoSecondThread, ClosingMain
<1>q. ASSUME UNCHANGED <<main, closed, commError, threw>>,
             \A v \in Workers : messages'[v] = messages[v] \/ messages'[v] = <<>>,
             \A v \in Workers : pc[v] = "exited" => pc'[v] = "exited"
      PROVE  ClosedInv'
  BY <1>i, <1>q, Peers DEF ClosedInv, ClosedBy
<1>1. CASE CoordinatorStep
  <2>1. NoSecondThread => NoSecondThread'
    BY <1>1
    DEF CoordinatorStep, CheckTask, StartFirst, StartSecond, StartSecondFails,
        CloseFirst, WakeFirst, CloseSecond, WakeSecond, JoinRethrow, JoinFirst,
        JoinSecond
  <2>2. (\E w \in Workers : closed'[w] # closed[w]) => NoSecondThread'
    BY <1>1
    DEF CoordinatorStep, CheckTask, StartFirst, StartSecond, StartSecondFails,
        CloseFirst, WakeFirst, CloseSecond, WakeSecond, JoinRethrow, JoinFirst,
        JoinSecond, MarkClosed, NotifyAll, queueVars
  <2>3. \A w \in Workers : pc[w] = "exited" => pc'[w] = "exited"
    BY <1>1, <1>i, CoordinatorStarts
  <2>4. UNCHANGED <<messages, commError, threw>>
    BY <1>1, <1>i, CoordinatorStarts
  <2> QED
    BY <1>i, <2>1, <2>2, <2>3, <2>4 DEF ClosedInv, ClosedBy
<1>2. ASSUME NEW w \in Workers, WorkerStep(w) \/ Wake(w)
      PROVE  ClosedInv'
  <2> DEFINE p == Peer(w)
  <2>0. p \in Workers /\ p # w /\ Peer(p) = w /\ \A v \in Workers : v = w \/ v = p
    BY Peers
  <2>c. ClosedBy(w, p) /\ ClosedBy(p, w)
    BY <1>i, <2>0 DEF ClosedInv
  <2>g. ClosedBy(w, p)' /\ ClosedBy(p, w)' => ClosedInv'
    BY <2>0 DEF ClosedInv
  <2>m. main' = main
    BY <1>2 DEF WorkerStep, RunAgent, Send, SendRefused, NotifyPeer, Sleep, Receive,
       ReceiveClosed, Throw, RecordFailure, CloseOwn, WakeOwn, ClosePeer, WakePeer,
       Wake
  <2>s. ASSUME NoSecondThread, pc[w] # "unstarted"
        PROVE  w = First /\ pc[p] = "unstarted" /\ messages[w] = <<>>
    <3>1. pc[Second] = "unstarted"
      BY <1>i, <2>s DEF StartInv
    <3>2. w = First /\ p = Second
      BY <2>s, <2>0, <3>1 DEF Workers, Peer
    <3> QED
      BY <1>i, <2>0, <3>1, <3>2 DEF MailboxInv
  <2>1. CASE RunAgent(w)
    BY <1>t, <2>1, <1>q DEF RunAgent, GoTo, queueVars
  <2>2. CASE NotifyPeer(w) \/ Sleep(w) \/ Wake(w)
    BY <1>t, <2>2, <1>q
    DEF NotifyPeer, Sleep, Wake, NotifyOne, FallAsleep, WakeSpuriously, GoTo, workerVars
  <2>3. CASE Send(w)
    <3>1. ~threw[w] /\ ~closed[p] /\ pc[w] = "send"
      BY <1>i, <2>3 DEF Send, Pushed, LeavingInv, ClosingSteps
    <3>2. commError[p] \notin {"peer mailbox closed", "own mailbox closed"}
      BY <2>c, <2>0, <2>s, <3>1 DEF ClosedBy
    <3>3. UNCHANGED <<closed, commError, threw>> /\ messages'[w] = messages[w]
      BY <1>t, <2>0, <2>3 DEF Send, Pushed
    <3>4. ClosedBy(w, p)'
      BY <2>c, <2>m, <3>1, <3>3 DEF ClosedBy
    <3>5. ClosedBy(p, w)'
      BY <2>c, <2>m, <3>2, <3>3 DEF ClosedBy
    <3> QED
      BY <2>g, <3>4, <3>5
  <2>4. CASE SendRefused(w)
    <3>1. ~threw[w] /\ closed[p] /\ pc[w] = "send"
      BY <1>i, <2>4 DEF SendRefused, Refused, LeavingInv, ClosingSteps
    <3>2. messages[w] = <<>> /\ (threw[p] \/ (w = First /\ NoSecondThread))
      BY <2>c, <2>s, <3>1 DEF ClosedBy
    <3>3. /\ UNCHANGED <<messages, closed, threw>>
          /\ pc'[w] = "exited" /\ pc'[p] = pc[p] /\ commError'[p] = commError[p]
      BY <1>t, <2>0, <2>4 DEF SendRefused, Refused, GoTo, queueVars
    <3>4. ClosedBy(w, p)' /\ ClosedBy(p, w)'
      BY <2>c, <2>m, <3>1, <3>2, <3>3 DEF ClosedBy
    <3> QED
      BY <2>g, <3>4
  <2>5. CASE Receive(w)
    <3>1. messages' = [messages EXCEPT ![w] = Tail(@)] /\ messages[w] # <<>>
      BY <2>5 DEF Receive, Popped
    <3>2. messages[w] = <<Outgoing(p)>>
      BY <1>i, <3>1 DEF MailboxInv
    <3>3. \A v \in Workers : messages'[v] = messages[v] \/ messages'[v] = <<>>
      BY <1>t, <3>1, <3>2
    <3> QED
      BY <1>t, <2>5, <3>3, <1>q DEF Receive, Popped, GoTo
  <2>6. CASE ReceiveClosed(w)
    <3>1. ~threw[w] /\ closed[w] /\ pc[w] = "receive" /\ messages[w] = <<>>
      BY <1>i, <2>6 DEF ReceiveClosed, Drained, Awake, LeavingInv, ClosingSteps
    <3>2. threw[p] \/ (w = First /\ NoSecondThread)
      BY <2>c, <2>s, <3>1 DEF ClosedBy
    <3>3. /\ UNCHANGED <<messages, closed, threw>>
          /\ pc'[w] = "exited" /\ pc'[p] = pc[p] /\ commError'[p] = commError[p]
      BY <1>t, <2>0, <2>6 DEF ReceiveClosed, Drained, GoTo, queueVars
    <3>4. ClosedBy(w, p)' /\ ClosedBy(p, w)'
      BY <2>c, <2>m, <3>1, <3>2, <3>3 DEF ClosedBy
    <3> QED
      BY <2>g, <3>4
  <2>7. CASE Throw(w)
    <3>1. /\ UNCHANGED <<messages, closed, commError>> /\ pc[w] # "exited"
          /\ pc'[p] = pc[p] /\ threw'[w] = TRUE /\ threw'[p] = threw[p]
      BY <1>t, <2>0, <2>7 DEF Throw, Awake, GoTo, queueVars
    <3>2. messages[p] = <<>> \/ threw[p] \/ NoSecondThread
      <4>1. CASE pc[w] \in {"run", "send"}
        BY <1>i, <4>1 DEF MailboxInv
      <4>2. CASE pc[w] = "receive" /\ closed[w]
        <5>1. ~threw[w]
          BY <1>i, <4>2 DEF LeavingInv, ClosingSteps
        <5> QED
          BY <2>c, <4>2, <5>1 DEF ClosedBy
      <4> QED
        BY <2>7, <4>1, <4>2 DEF Throw, Drained, Awake
    <3>3. ClosedBy(w, p)' /\ ClosedBy(p, w)'
      BY <2>c, <2>m, <3>1, <3>2 DEF ClosedBy
    <3> QED
      BY <2>g, <3>3
  <2>8. CASE RecordFailure(w)
    <3>1. /\ UNCHANGED <<messages, closed, threw>> /\ threw[w]
          /\ pc'[p] = pc[p] /\ commError'[p] = commError[p]
          /\ commError'[w] \in {"worker failed", commError[w]}
      BY <1>i, <1>t, <2>0, <2>8 DEF RecordFailure, GoTo, queueVars, LeavingInv, ClosingSteps
    <3>2. ClosedBy(w, p)' /\ ClosedBy(p, w)'
      BY <2>c, <2>m, <3>1 DEF ClosedBy
    <3> QED
      BY <2>g, <3>2
  <2>9. CASE CloseOwn(w) \/ WakeOwn(w) \/ ClosePeer(w) \/ WakePeer(w)
    <3>1. /\ threw[w] /\ UNCHANGED <<messages, commError, threw>>
          /\ pc[w] # "exited" /\ pc'[p] = pc[p]
      BY <1>i, <1>t, <2>0, <2>9 DEF CloseOwn, WakeOwn, ClosePeer, WakePeer, MarkClosed,
         NotifyAll, GoTo, LeavingInv, ClosingSteps
    <3>2. ClosedBy(w, p)' /\ ClosedBy(p, w)'
      BY <2>c, <2>m, <3>1 DEF ClosedBy
    <3> QED
      BY <2>g, <3>2
  <2> QED
    BY <1>2, <2>1, <2>2, <2>3, <2>4, <2>5, <2>6, <2>7, <2>8, <2>9 DEF WorkerStep
<1>3. CASE UNCHANGED vars
  BY <1>3, <1>q DEF vars, queueVars, workerVars
<1> QED
  BY <1>1, <1>2, <1>3 DEF Next, Terminated

-----------------------------------------------------------------------------
(* IInv holds in every state of every behaviour.                             *)
THEOREM Invariance == Spec => []IInv
<1>1. IInv /\ [Next]_vars => IInv'
  BY TypeStep, MailboxStep, LeavingStep, StartStep, ClosedStep DEF IInv
<1> QED
  BY InitInv, <1>1, PTL DEF Spec

(* Every variable keeps its type.                                            *)
THEOREM TypeCorrect == Spec => []TypeOK
<1>1. IInv => TypeOK
  BY DEF IInv
<1> QED
  BY Invariance, <1>1, PTL

(* When success() is true the exchange was complete and nobody threw.        *)
THEOREM SuccessComplete == Spec => []SuccessIsCompleteExchange
<1>1. IInv => SuccessIsCompleteExchange
  BY DEF IInv, SuccessIsCompleteExchange, Success, ReceivedIsPeersResult, LeavingInv
<1> QED
  BY Invariance, <1>1, PTL

(* A received message is the peer's own result.                              *)
THEOREM ReceivedCorrect == Spec => []ReceivedIsPeersResult
<1>1. IInv => ReceivedIsPeersResult
  BY DEF IInv
<1> QED
  BY Invariance, <1>1, PTL

(* No worker that reports a closed mailbox leaves a response in its own.     *)
THEOREM NothingStranded == Spec => []NoResponseStranded
<1>1. IInv => NoResponseStranded
  BY DEF IInv, ClosedInv, ClosedBy, NoResponseStranded
<1> QED
  BY Invariance, <1>1, PTL

(* A worker finds a mailbox closed because of its peer, never of itself.     *)
THEOREM ClosedHasCause == Spec => []ClosedMailboxHasCause
<1>1. IInv => ClosedMailboxHasCause
  <2> SUFFICES ASSUME IInv, NEW w \in Workers,
                      commError[w] \in {"peer mailbox closed", "own mailbox closed"}
               PROVE  threw[Peer(w)] \/ pc[Peer(w)] = "unstarted"
    BY DEF ClosedMailboxHasCause
  <2>1. threw[Peer(w)] \/ (w = First /\ NoSecondThread)
    BY DEF IInv, ClosedInv, ClosedBy
  <2> QED
    BY <2>1 DEF IInv, StartInv, NoSecondThread, Peer
<1> QED
  BY Invariance, <1>1, PTL

(* run() never ends while a worker thread still uses its locals.             *)
THEOREM NoThreadLeft == Spec => []NoThreadOutlivesRun
<1>1. IInv => NoThreadOutlivesRun
  BY DEF IInv, StartInv, NoThreadOutlivesRun, Ended, Workers
<1> QED
  BY Invariance, <1>1, PTL

-----------------------------------------------------------------------------
(* The exchange that this implements.                                        *)

(* A worker has no result before agent.run returns; what it has sent is in   *)
(* the peer's mailbox, or the peer has it, and is a result of agent.run.     *)
SentInv ==
  \A w \in Workers :
    /\ pc[w] \in {"unstarted", "run"} => runResult[w] = DefaultResult
    /\ pc[w] \in {"notify", "receive"} =>
         messages[Peer(w)] # <<>> \/ peerMessage[Peer(w)] # NoMessage
    /\ messages[Peer(w)] # <<>> \/ peerMessage[Peer(w)] # NoMessage =>
         runResult[w] \in AllResults

(* The abstract variables, of one worker each.                               *)
OutcomeOf(w) == IF runResult[w] = DefaultResult THEN NoMessage ELSE MessageOf(w)
PublishedBy(w) == IF HasSent(w) THEN MessageOf(w) ELSE NoMessage
ObtainedBy(w) ==
  IF peerMessage[w] = NoMessage THEN NoMessage
  ELSE [success |-> peerMessage[w].success, content |-> peerMessage[w].content]
Phase == IF Ended THEN main ELSE "open"

(* What a step of a worker does to them, and to the steps of SentInv.        *)
LEMMA SentStep ==
  ASSUME IInv, SentInv, [Next]_vars
  PROVE  SentInv'
<1>t. /\ pc \in [Workers -> WorkerSteps]
      /\ messages \in [Workers -> Seq(AgentMessage)]
      /\ peerMessage \in [Workers -> AgentMessage \cup {NoMessage}]
      /\ runResult \in [Workers -> AllResults \cup {DefaultResult}]
  BY DEF IInv, TypeOK, QueueTypeOK
<1>i. TypeOK /\ MailboxInv /\ LeavingInv /\ StartInv
  BY DEF IInv
<1>q. ASSUME UNCHANGED <<messages, runResult, peerMessage>>,
             \A v \in Workers :
               \/ pc'[v] = pc[v]
               \/ pc[v] = "unstarted" /\ pc'[v] = "run"
               \/ /\ pc'[v] \notin {"unstarted", "run", "notify"}
                  /\ pc'[v] = "receive" => pc[v] = "notify"
      PROVE  SentInv'
  BY <1>q, Peers DEF SentInv
<1> USE DEF GoTo
<1>1. CASE CoordinatorStep
  BY <1>1, <1>i, <1>q, CoordinatorStarts
<1>2. ASSUME NEW w \in Workers, WorkerStep(w) \/ Wake(w)
      PROVE  SentInv'
  <2> DEFINE p == Peer(w)
  <2>0. p \in Workers /\ p # w /\ Peer(p) = w /\ \A v \in Workers : v = w \/ v = p
    BY Peers
  <2>1. CASE RunAgent(w)
    <3>1. /\ pc'[w] = "send" /\ pc'[p] = pc[p] /\ runResult'[p] = runResult[p]
          /\ runResult'[w] \in AllResults
          /\ UNCHANGED <<messages, peerMessage>>
      BY <1>t, <2>0, <2>1 DEF RunAgent, queueVars
    <3> QED
      BY <2>0, <3>1 DEF SentInv
  <2>2. CASE Send(w)
    <3>1. /\ pc'[w] = "notify" /\ pc'[p] = pc[p]
          /\ messages'[w] = messages[w] /\ messages'[p] # <<>>
          /\ runResult[w] \in AllResults
          /\ UNCHANGED <<runResult, peerMessage>>
      BY <1>t, <1>i, <2>0, <2>2 DEF Send, Pushed, MailboxInv
    <3> QED
      BY <2>0, <3>1 DEF SentInv
  <2>3. CASE Receive(w)
    <3>1. PICK m \in AgentMessage :
            Popped(w, m) /\ peerMessage' = [peerMessage EXCEPT ![w] = m]
      BY <2>3 DEF Receive
    <3>2. /\ pc'[w] = "exited" /\ pc'[p] = pc[p]
          /\ messages'[p] = messages[p] /\ peerMessage'[p] = peerMessage[p]
          /\ peerMessage'[w] = m /\ m # NoMessage /\ runResult' = runResult
          /\ messages[w] # <<>>
      BY <1>t, <2>0, <2>3, <3>1, NoMessageAssumption DEF Receive, Popped
    <3> QED
      BY <2>0, <3>2 DEF SentInv
  <2>4. CASE SendRefused(w) \/ ReceiveClosed(w) \/ Throw(w) \/ RecordFailure(w)
    BY <2>4, <1>t, <1>q
    DEF SendRefused, ReceiveClosed, Throw, RecordFailure, Refused, Drained, queueVars
  <2>5. CASE NotifyPeer(w) \/ Sleep(w) \/ Wake(w)
    BY <2>5, <1>t, <1>q
    DEF NotifyPeer, Sleep, Wake, NotifyOne, FallAsleep, WakeSpuriously, workerVars
  <2>6. CASE CloseOwn(w) \/ WakeOwn(w) \/ ClosePeer(w) \/ WakePeer(w)
    BY <2>6, <1>t, <1>q
    DEF CloseOwn, WakeOwn, ClosePeer, WakePeer, MarkClosed, NotifyAll
  <2> QED
    BY <1>2, <2>1, <2>2, <2>3, <2>4, <2>5, <2>6 DEF WorkerStep
<1>3. CASE UNCHANGED vars
  BY <1>3 DEF vars, queueVars, workerVars, SentInv
<1> QED
  BY <1>1, <1>2, <1>3 DEF Next, Terminated

(* A step that changes no result, message or mailbox can only end the        *)
(* exchange.                                                                 *)
LEMMA SilentStep ==
  ASSUME UNCHANGED <<runResult, peerMessage>>,
         \A w \in Workers : HasSent(w)' <=> HasSent(w),
         Phase' = Phase \/ (Phase = "open" /\ Phase' \in {"returned", "thrown"})
  PROVE  [Exchange!Next]_(Exchange!vars)
<1>1. \A w \in Workers : /\ OutcomeOf(w)' = OutcomeOf(w)
                         /\ PublishedBy(w)' = PublishedBy(w)
                         /\ ObtainedBy(w)' = ObtainedBy(w)
  BY DEF OutcomeOf, PublishedBy, ObtainedBy, MessageOf
<1>2. /\ [w \in Workers |-> OutcomeOf(w)]' = [w \in Workers |-> OutcomeOf(w)]
      /\ [w \in Workers |-> PublishedBy(w)]' = [w \in Workers |-> PublishedBy(w)]
      /\ [w \in Workers |-> ObtainedBy(w)]' = [w \in Workers |-> ObtainedBy(w)]
  BY <1>1
<1>3. CASE Phase' = Phase
  BY <1>2, <1>3 DEF Exchange!vars, OutcomeOf, PublishedBy, ObtainedBy, Phase
<1>4. CASE Phase = "open" /\ Phase' \in {"returned", "thrown"}
  BY <1>2, <1>4 DEF Exchange!Next, Exchange!End, OutcomeOf, PublishedBy, ObtainedBy, Phase
<1> QED
  BY <1>3, <1>4

(* What is received is what the peer published.                              *)
LEMMA ExchangeStep ==
  ASSUME IInv, SentInv, [Next]_vars
  PROVE  [Exchange!Next]_(Exchange!vars)
<1>t. /\ pc \in [Workers -> WorkerSteps] /\ main \in MainSteps
      /\ messages \in [Workers -> Seq(AgentMessage)]
      /\ peerMessage \in [Workers -> AgentMessage \cup {NoMessage}]
      /\ runResult \in [Workers -> AllResults \cup {DefaultResult}]
  BY DEF IInv, TypeOK, QueueTypeOK
<1>i. TypeOK /\ MailboxInv /\ LeavingInv /\ StartInv
  BY DEF IInv
<1> USE DEF GoTo
<1>1. CASE CoordinatorStep
  <2>1. UNCHANGED <<runResult, peerMessage>>
    BY <1>1, <1>i, CoordinatorStarts
  <2>2. \A w \in Workers : HasSent(w)' <=> HasSent(w)
    BY <1>1, <1>i, CoordinatorStarts DEF HasSent
  <2>3. Phase' = Phase \/ (Phase = "open" /\ Phase' \in {"returned", "thrown"})
    BY <1>1
    DEF Phase, Ended, CoordinatorStep, CheckTask, StartFirst, StartSecond, StartSecondFails,
        CloseFirst, WakeFirst, CloseSecond, WakeSecond, JoinRethrow, JoinFirst, JoinSecond
  <2> QED
    BY <2>1, <2>2, <2>3, SilentStep
<1>2. ASSUME NEW w \in Workers, WorkerStep(w) \/ Wake(w)
      PROVE  [Exchange!Next]_(Exchange!vars)
  <2> DEFINE p == Peer(w)
  <2>0. p \in Workers /\ p # w /\ Peer(p) = w /\ \A v \in Workers : v = w \/ v = p
    BY Peers
  <2>m. main' = main
    BY <1>2 DEF WorkerStep, RunAgent, Send, SendRefused, NotifyPeer, Sleep, Receive,
       ReceiveClosed, Throw, RecordFailure, CloseOwn, WakeOwn, ClosePeer, WakePeer,
       Wake
  <2>p. Phase' = Phase
    BY <2>m DEF Phase, Ended
  <2>o. pc[w] \notin {"unstarted", "exited"} => Phase = "open"
    BY <1>i DEF StartInv, Phase, Ended, Workers
  <2>w. /\ Exchange!Sides = Workers /\ Exchange!Other(w) = p
    BY DEF Exchange!Sides, Exchange!Other, Workers, Peer
  <2>r. \A r \in AllResults :
          NoMessage # [success |-> r.success, content |-> Content(r)]
    BY NoMessageAssumption
  <2>c. CASE RunAgent(w)
    <3>1. PICK r \in AllResults : runResult' = [runResult EXCEPT ![w] = r]
      BY <2>c DEF RunAgent
    <3>2. /\ pc[w] = "run" /\ runResult[w] = DefaultResult
          /\ messages[p] = <<>> /\ peerMessage[p] = NoMessage
          /\ UNCHANGED <<messages, peerMessage>>
          /\ pc' = [pc EXCEPT ![w] = "send"]
      BY <1>i, <2>c DEF RunAgent, SentInv, MailboxInv, queueVars
    <3>3. /\ ~HasSent(w) /\ ~HasSent(w)'
          /\ HasSent(p)' <=> HasSent(p)
      BY <1>t, <2>0, <3>2 DEF HasSent
    <3>4. /\ r # DefaultResult /\ runResult'[w] = r /\ runResult'[p] = runResult[p]
      BY <1>t, <2>0, <3>1, ResultsAssumption
    <3>5. /\ OutcomeOf(w) = NoMessage
          /\ OutcomeOf(w)' = [success |-> r.success, content |-> Content(r)]
          /\ OutcomeOf(p)' = OutcomeOf(p)
      BY <3>2, <3>4 DEF OutcomeOf, MessageOf
    <3>6. \A v \in Workers : PublishedBy(v)' = PublishedBy(v) /\ ObtainedBy(v)' = ObtainedBy(v)
      <4>1. PublishedBy(w)' = PublishedBy(w)
        BY <3>3 DEF PublishedBy
      <4>2. PublishedBy(p)' = PublishedBy(p)
        BY <3>3, <3>4 DEF PublishedBy, MessageOf
      <4>3. \A v \in Workers : ObtainedBy(v)' = ObtainedBy(v)
        BY <3>2 DEF ObtainedBy
      <4> QED
        BY <2>0, <4>1, <4>2, <4>3
    <3>7. Exchange!Decide(w)
      <4> DEFINE out == [v \in Workers |-> OutcomeOf(v)]
                 pub == [v \in Workers |-> PublishedBy(v)]
                 obt == [v \in Workers |-> ObtainedBy(v)]
                 o == [success |-> r.success, content |-> Content(r)]
      <4>1. out' = [out EXCEPT ![w] = o]
        BY <2>0, <3>5
      <4>2. pub' = pub /\ obt' = obt
        BY <3>6
      <4>3. out[w] = NoMessage
        BY <3>5
      <4>4. Phase = "open"
        BY <2>o, <3>2
      <4> QED
        BY <2>p, <4>1, <4>2, <4>3, <4>4
        DEF Exchange!Decide, OutcomeOf, PublishedBy, ObtainedBy, Phase
    <3> QED
      BY <2>w, <3>7 DEF Exchange!Next
  <2>s. CASE Send(w)
    <3>1. /\ pc[w] = "send" /\ runResult[w] \in AllResults
          /\ messages[p] = <<>> /\ peerMessage[p] = NoMessage
          /\ UNCHANGED <<runResult, peerMessage>>
          /\ messages' = [messages EXCEPT ![p] = Append(@, Outgoing(w))]
          /\ pc' = [pc EXCEPT ![w] = "notify"]
      BY <1>i, <2>s DEF Send, MailboxInv, Pushed
    <3>2. /\ ~HasSent(w) /\ HasSent(w)'
          /\ HasSent(p)' <=> HasSent(p)
      BY <1>t, <2>0, <3>1 DEF HasSent
    <3>3. /\ OutcomeOf(w) = MessageOf(w) /\ MessageOf(w) # NoMessage
          /\ MessageOf(w)' = MessageOf(w) /\ MessageOf(p)' = MessageOf(p)
      BY <2>r, <3>1, ResultsAssumption DEF OutcomeOf, MessageOf
    <3>4. \A v \in Workers : OutcomeOf(v)' = OutcomeOf(v) /\ ObtainedBy(v)' = ObtainedBy(v)
      BY <3>1 DEF OutcomeOf, ObtainedBy, MessageOf
    <3>5. /\ PublishedBy(w) = NoMessage /\ PublishedBy(w)' = MessageOf(w)
          /\ PublishedBy(p)' = PublishedBy(p)
      BY <3>2, <3>3 DEF PublishedBy
    <3>6. Exchange!Publish(w)
      <4> DEFINE out == [v \in Workers |-> OutcomeOf(v)]
                 pub == [v \in Workers |-> PublishedBy(v)]
                 obt == [v \in Workers |-> ObtainedBy(v)]
      <4>1. out[w] = MessageOf(w) /\ out[w] # NoMessage /\ pub[w] = NoMessage
        BY <3>3, <3>5
      <4>2. pub' = [pub EXCEPT ![w] = out[w]]
        BY <2>0, <3>5, <4>1
      <4>3. out' = out /\ obt' = obt
        BY <3>4
      <4>4. Phase = "open"
        BY <2>o, <3>1
      <4> QED
        BY <2>p, <4>1, <4>2, <4>3, <4>4
        DEF Exchange!Publish, OutcomeOf, PublishedBy, ObtainedBy, Phase
    <3> QED
      BY <2>w, <3>6 DEF Exchange!Next
  <2>v. CASE Receive(w)
    <3>1. PICK m \in AgentMessage :
            Popped(w, m) /\ peerMessage' = [peerMessage EXCEPT ![w] = m]
      BY <2>v DEF Receive
    <3>2. /\ pc[w] = "receive" /\ pc' = [pc EXCEPT ![w] = "exited"]
          /\ messages[w] # <<>> /\ m = Head(messages[w])
          /\ messages' = [messages EXCEPT ![w] = Tail(@)]
          /\ runResult' = runResult /\ peerMessage[w] = NoMessage
      BY <1>i, <2>v, <3>1 DEF Receive, Awake, Popped, LeavingInv
    <3>3. messages[w] = <<Outgoing(p)>> /\ m = Outgoing(p)
      <4>1. messages[w] = <<Outgoing(p)>>
        BY <1>i, <2>0, <3>2 DEF MailboxInv
      <4> QED
        BY <3>2, <4>1
    <3>4. /\ HasSent(w) /\ HasSent(p) /\ HasSent(p)'
          /\ runResult[w] \in AllResults /\ runResult[p] \in AllResults
      BY <1>t, <1>i, <2>0, <3>1, <3>2, NoMessageAssumption DEF HasSent, SentInv, MailboxInv
    <3>5. HasSent(w)'
      <4>1. messages'[p] = messages[p] /\ peerMessage'[p] = peerMessage[p]
        BY <1>t, <2>0, <3>1, <3>2
      <4>2. messages[p] # <<>> \/ peerMessage[p] # NoMessage
        BY <3>2 DEF SentInv
      <4> QED
        BY <4>1, <4>2 DEF HasSent
    <3>6. /\ MessageOf(w) # NoMessage /\ MessageOf(p) # NoMessage
          /\ \A v \in Workers : MessageOf(v)' = MessageOf(v) /\ OutcomeOf(v)' = OutcomeOf(v)
      BY <2>r, <3>2, <3>4 DEF OutcomeOf, MessageOf
    <3>7. /\ \A v \in Workers : PublishedBy(v)' = PublishedBy(v)
          /\ PublishedBy(w) # NoMessage /\ PublishedBy(p) = MessageOf(p)
      BY <2>0, <3>4, <3>5, <3>6 DEF PublishedBy
    <3>8. /\ ObtainedBy(w) = NoMessage /\ ObtainedBy(w)' = MessageOf(p)
          /\ ObtainedBy(p)' = ObtainedBy(p)
      <4>1. peerMessage'[w] = m /\ peerMessage'[p] = peerMessage[p] /\ m # NoMessage
        BY <1>t, <2>0, <3>1, NoMessageAssumption
      <4>2. m.success = runResult[p].success /\ m.content = Content(runResult[p])
        BY <3>3 DEF Outgoing
      <4> QED
        BY <3>2, <4>1, <4>2 DEF ObtainedBy, MessageOf
    <3>9. Exchange!Obtain(w)
      <4> DEFINE out == [v \in Workers |-> OutcomeOf(v)]
                 pub == [v \in Workers |-> PublishedBy(v)]
                 obt == [v \in Workers |-> ObtainedBy(v)]
      <4>1. /\ pub[w] # NoMessage /\ pub[p] # NoMessage /\ pub[p] = MessageOf(p)
            /\ obt[w] = NoMessage
        BY <2>0, <3>6, <3>7, <3>8
      <4>2. obt' = [obt EXCEPT ![w] = pub[p]]
        BY <2>0, <3>8, <4>1
      <4>3. out' = out /\ pub' = pub
        BY <3>6, <3>7
      <4>4. Phase = "open"
        BY <2>o, <3>2
      <4> QED
        BY <2>p, <2>w, <4>1, <4>2, <4>3, <4>4
        DEF Exchange!Obtain, OutcomeOf, PublishedBy, ObtainedBy, Phase
    <3> QED
      BY <2>w, <3>9 DEF Exchange!Next
  <2>q. ASSUME UNCHANGED <<messages, runResult, peerMessage>>,
               \A v \in Workers :
                 \/ pc'[v] = pc[v]
                 \/ pc'[v] \notin {"notify", "receive"}
                 \/ pc[v] = "notify"
        PROVE  [Exchange!Next]_(Exchange!vars)
    <3>1. \A v \in Workers : HasSent(v)' <=> HasSent(v)
      BY <2>q DEF HasSent, SentInv
    <3> QED
      BY <2>p, <2>q, <3>1, SilentStep
  <2>4. CASE SendRefused(w) \/ ReceiveClosed(w) \/ Throw(w) \/ RecordFailure(w)
    BY <2>4, <1>t, <2>q
    DEF SendRefused, ReceiveClosed, Throw, RecordFailure, Refused, Drained, queueVars
  <2>5. CASE NotifyPeer(w) \/ Sleep(w) \/ Wake(w)
    BY <2>5, <1>t, <2>q
    DEF NotifyPeer, Sleep, Wake, NotifyOne, FallAsleep, WakeSpuriously, workerVars
  <2>6. CASE CloseOwn(w) \/ WakeOwn(w) \/ ClosePeer(w) \/ WakePeer(w)
    BY <2>6, <1>t, <2>q
    DEF CloseOwn, WakeOwn, ClosePeer, WakePeer, MarkClosed, NotifyAll
  <2> QED
    BY <1>2, <2>c, <2>s, <2>v, <2>4, <2>5, <2>6 DEF WorkerStep
<1>3. CASE UNCHANGED vars
  <2>1. UNCHANGED <<runResult, peerMessage>> /\ Phase' = Phase
        /\ \A w \in Workers : HasSent(w)' <=> HasSent(w)
    BY <1>3 DEF vars, queueVars, workerVars, HasSent, Phase, Ended
  <2> QED
    BY <2>1, SilentStep
<1> QED
  BY <1>1, <1>2, <1>3 DEF Next, Terminated


(* The messages of a run of the coordinator are an abstract exchange: every  *)
(* step is one of its steps or none of them.  That the exchange ends in the  *)
(* end is left to TLC.                                                       *)
THEOREM ExchangeSimulated ==
  Spec => Exchange!Init /\ [][Exchange!Next]_(Exchange!vars)
<1>1. Init => IInv /\ SentInv
  <2> SUFFICES ASSUME Init
               PROVE  SentInv
    BY InitInv
  <2> QED
    BY Peers DEF Init, QueueInit, SentInv
<1>2. Init => Exchange!Init
  <2> SUFFICES ASSUME Init
               PROVE  Exchange!Init
    OBVIOUS
  <2>1. \A w \in Workers : runResult[w] = DefaultResult /\ ~HasSent(w) /\ peerMessage[w] = NoMessage
    BY Peers DEF Init, QueueInit, HasSent
  <2>2. Exchange!Sides = Workers /\ ~Ended
    BY DEF Init, Exchange!Sides, Workers, Ended
  <2> QED
    BY <2>1, <2>2 DEF Exchange!Init
<1>3. IInv /\ SentInv /\ [Next]_vars => SentInv' /\ [Exchange!Next]_(Exchange!vars)
  BY SentStep, ExchangeStep
<1>4. Spec => []IInv
  BY Invariance
<1> QED
  BY <1>1, <1>2, <1>3, <1>4, PTL DEF Spec

=============================================================================
