----------------------------- MODULE MultiAgent -----------------------------
(***************************************************************************)
(* agent/multi_agent_coordinator.cpp: MultiAgentCoordinator::run starts two *)
(* worker threads.  Each runs its AgentLoop, pushes its result to the       *)
(* peer's mailbox and waits for the peer's result in its own.  A worker     *)
(* that fails with an exception closes both mailboxes; so does the          *)
(* coordinator when it cannot create the second thread.                     *)
(*                                                                          *)
(* AgentLoop::run is one step here: the two loops are distinct objects      *)
(* (constructor, lines 109-112) and share nothing with this module.         *)
(***************************************************************************)
EXTENDS MessageQueue

CONSTANTS
  First, Second,    \* the two workers, named by their agent ids
  AgentResults,     \* the AgentRunResults that agent.run can return
  ThrownResult,     \* failedRun(): agent.run threw instead
  DefaultResult,    \* AgentRunResult{}: what a result is until one is assigned
  NoMessage         \* std::nullopt

Workers == {First, Second}
Peer(w) == IF w = First THEN Second ELSE First

(* Constructor lines 109-118: two loops, two ids.                           *)
ASSUME WorkersAssumption == First # Second

AllResults == AgentResults \cup {ThrownResult}

ASSUME ResultsAssumption ==
  /\ DefaultResult \notin AllResults
  /\ \A r \in AllResults \cup {DefaultResult} : r.success \in BOOLEAN
  /\ ~ThrownResult.success
  /\ ~DefaultResult.success

VARIABLES
  main,             \* where the coordinator is
  pc,               \* pc[w]: where worker thread w is
  runResult,        \* runResult[w]: AgentWorkerResult::run_result
  peerMessage,      \* peerMessage[w]: AgentWorkerResult::peer_message
  commError,        \* commError[w]: AgentWorkerResult::communication_error
  threw             \* history: threw[w], worker w entered a catch block

workerVars == <<pc, runResult, peerMessage, commError, threw>>
vars == <<queueVars, main, workerVars>>

CommErrors == {"", "peer mailbox closed", "own mailbox closed", "worker failed"}

(* The text of a message: final_answer or error_message, by success.        *)
Content(r) == IF r.success THEN r.final_answer ELSE r.error_message

(* AgentMessage outgoing (lines 59-65).                                     *)
Outgoing(w) ==
  [sender_id |-> w, recipient_id |-> Peer(w),
   success |-> runResult[w].success, content |-> Content(runResult[w])]

AgentMessage ==
  {[sender_id |-> w, recipient_id |-> Peer(w),
    success |-> r.success, content |-> Content(r)] :
      w \in Workers, r \in AllResults}

(* std::nullopt is no message.                                              *)
ASSUME NoMessageAssumption ==
  /\ NoMessage \notin AgentMessage
  /\ \A r \in AllResults : NoMessage # [success |-> r.success, content |-> Content(r)]

MainSteps ==
  {"check", "start_first", "start_second", "join_first", "join_second",
   "close_first", "wake_first", "close_second", "wake_second", "join_rethrow",
   "returned", "thrown"}
WorkerSteps ==
  {"unstarted", "run", "send", "notify", "receive", "fail",
   "close_own", "wake_own", "close_peer", "wake_peer", "exited"}

TypeOK ==
  /\ QueueTypeOK(Workers, Workers, AgentMessage)
  /\ main \in MainSteps
  /\ pc \in [Workers -> WorkerSteps]
  /\ runResult \in [Workers -> AllResults \cup {DefaultResult}]
  /\ peerMessage \in [Workers -> AgentMessage \cup {NoMessage}]
  /\ commError \in [Workers -> CommErrors]
  /\ threw \in [Workers -> BOOLEAN]

Init ==
  /\ QueueInit(Workers)
  /\ main = "check"
  /\ pc = [w \in Workers |-> "unstarted"]
  /\ runResult = [w \in Workers |-> DefaultResult]
  /\ peerMessage = [w \in Workers |-> NoMessage]
  /\ commError = [w \in Workers |-> ""]
  /\ threw = [w \in Workers |-> FALSE]

-----------------------------------------------------------------------------
(* The coordinator's thread: MultiAgentCoordinator::run.                    *)

(* Blank subtasks throw before anything is started; so does the creation of *)
(* the first thread.                                                        *)
CheckTask ==
  /\ main = "check"
  /\ main' \in {"start_first", "thrown"}
  /\ UNCHANGED <<queueVars, workerVars>>

StartFirst ==
  /\ main = "start_first"
  /\ \/ /\ main' = "start_second"
        /\ pc' = [pc EXCEPT ![First] = "run"]
     \/ main' = "thrown" /\ pc' = pc
  /\ UNCHANGED <<queueVars, runResult, peerMessage, commError, threw>>

StartSecond ==
  /\ main = "start_second"
  /\ main' = "join_first"
  /\ pc' = [pc EXCEPT ![Second] = "run"]
  /\ UNCHANGED <<queueVars, runResult, peerMessage, commError, threw>>

(* A version that rethrows without joining the first thread.                *)
StartSecondFailsNoJoin ==
  /\ main = "start_second"
  /\ main' = "thrown"
  /\ UNCHANGED <<queueVars, workerVars>>

(* A version that joins the first thread without closing the mailboxes.     *)
StartSecondFailsNoClose ==
  /\ main = "start_second"
  /\ main' = "join_rethrow"
  /\ UNCHANGED <<queueVars, workerVars>>

StartSecondFails ==
  /\ main = "start_second"
  /\ main' = "close_first"
  /\ UNCHANGED <<queueVars, workerVars>>

CloseFirst ==
  /\ main = "close_first"
  /\ MarkClosed(First)
  /\ main' = "wake_first"
  /\ UNCHANGED workerVars

WakeFirst ==
  /\ main = "wake_first"
  /\ NotifyAll(First)
  /\ main' = "close_second"
  /\ UNCHANGED workerVars

CloseSecond ==
  /\ main = "close_second"
  /\ MarkClosed(Second)
  /\ main' = "wake_second"
  /\ UNCHANGED workerVars

WakeSecond ==
  /\ main = "wake_second"
  /\ NotifyAll(Second)
  /\ main' = "join_rethrow"
  /\ UNCHANGED workerVars

JoinRethrow ==
  /\ main = "join_rethrow"
  /\ pc[First] = "exited"
  /\ main' = "thrown"
  /\ UNCHANGED <<queueVars, workerVars>>

JoinFirstOnly ==            \* a version that joins one thread
  /\ main = "join_first"
  /\ pc[First] = "exited"
  /\ main' = "returned"
  /\ UNCHANGED <<queueVars, workerVars>>

JoinFirst ==
  /\ main = "join_first"
  /\ pc[First] = "exited"
  /\ main' = "join_second"
  /\ UNCHANGED <<queueVars, workerVars>>

JoinSecond ==
  /\ main = "join_second"
  /\ pc[Second] = "exited"
  /\ main' = "returned"
  /\ UNCHANGED <<queueVars, workerVars>>

CoordinatorStep ==
  \/ CheckTask \/ StartFirst \/ StartSecond \/ StartSecondFails
  \/ CloseFirst \/ WakeFirst \/ CloseSecond \/ WakeSecond \/ JoinRethrow
  \/ JoinFirst \/ JoinSecond

-----------------------------------------------------------------------------
(* A worker thread: runWorker(agent, w, Peer(w), subtask, inbox w, inbox    *)
(* Peer(w), result w).                                                      *)

GoTo(w, next) == pc' = [pc EXCEPT ![w] = next]

(* A version that treats an agent's failure as the worker's own.            *)
(* agent.run returns a result, or throws and failedRun() stands for it.     *)
RunAgent(w) ==
  /\ pc[w] = "run"
  /\ \E r \in AllResults : runResult' = [runResult EXCEPT ![w] = r]
  /\ GoTo(w, "send")
  /\ UNCHANGED <<queueVars, main, peerMessage, commError, threw>>

Send(w) ==
  /\ pc[w] = "send"
  /\ Pushed(Peer(w), Outgoing(w))
  /\ GoTo(w, "notify")
  /\ UNCHANGED <<main, runResult, peerMessage, commError, threw>>

(* push() returned false: the worker leaves without reading its own inbox.  *)
SendRefused(w) ==
  /\ pc[w] = "send"
  /\ Refused(Peer(w))
  /\ commError' = [commError EXCEPT ![w] = "peer mailbox closed"]
  /\ GoTo(w, "exited")
  /\ UNCHANGED <<main, runResult, peerMessage, threw>>

NotifyPeerClosing(w) ==     \* a version that shuts down once it has sent
  /\ pc[w] = "notify"
  /\ NotifyOne(Peer(w))
  /\ GoTo(w, "close_own")
  /\ UNCHANGED <<main, runResult, peerMessage, commError, threw>>

NotifyPeer(w) ==
  /\ pc[w] = "notify"
  /\ NotifyOne(Peer(w))
  /\ GoTo(w, "receive")
  /\ UNCHANGED <<main, runResult, peerMessage, commError, threw>>

Awake(w) == pc[w] = "receive" /\ w \notin asleep[w]

Sleep(w) ==
  /\ Awake(w)
  /\ FallAsleep(w, w)
  /\ UNCHANGED <<main, workerVars>>

Wake(w) ==
  /\ WakeSpuriously(w, w)
  /\ UNCHANGED <<main, workerVars>>

(* A version that leaves peer_message as it was when the worker sent.       *)
Receive(w) ==
  /\ Awake(w)
  /\ \E m \in AgentMessage :
       /\ Popped(w, m)
       /\ peerMessage' = [peerMessage EXCEPT ![w] = m]
  /\ GoTo(w, "exited")
  /\ UNCHANGED <<main, runResult, commError, threw>>

ReceiveClosed(w) ==
  /\ Awake(w)
  /\ Drained(w)
  /\ commError' = [commError EXCEPT ![w] = "own mailbox closed"]
  /\ GoTo(w, "exited")
  /\ UNCHANGED <<main, runResult, peerMessage, threw>>

(* An allocation fails outside the inner try block: while agent_id or the   *)
(* message is copied, inside push() before anything is queued, in           *)
(* failedRun(), or while an error text is assigned (lines 48-76).           *)
Throw(w) ==
  /\ \/ pc[w] \in {"run", "send"}
     \/ Awake(w) /\ Drained(w)
  /\ threw' = [threw EXCEPT ![w] = TRUE]
  /\ GoTo(w, "fail")
  /\ UNCHANGED <<queueVars, main, runResult, peerMessage, commError>>

(* The catch blocks: communication_error is assigned unless that fails too. *)
RecordFailure(w) ==
  /\ pc[w] = "fail"
  /\ commError' \in {[commError EXCEPT ![w] = "worker failed"], commError}
  /\ GoTo(w, "close_own")
  /\ UNCHANGED <<queueVars, main, runResult, peerMessage, threw>>

(* closeMailboxes(inbox, peer_inbox): two close() calls, one after the      *)
(* other, each unlocking before it notifies.                                *)
CloseOwn(w) ==
  /\ pc[w] = "close_own"
  /\ MarkClosed(w)
  /\ GoTo(w, "wake_own")
  /\ UNCHANGED <<main, runResult, peerMessage, commError, threw>>

WakeOwn(w) ==
  /\ pc[w] = "wake_own"
  /\ NotifyAll(w)
  /\ GoTo(w, "close_peer")
  /\ UNCHANGED <<main, runResult, peerMessage, commError, threw>>

ClosePeer(w) ==
  /\ pc[w] = "close_peer"
  /\ MarkClosed(Peer(w))
  /\ GoTo(w, "wake_peer")
  /\ UNCHANGED <<main, runResult, peerMessage, commError, threw>>

WakePeer(w) ==
  /\ pc[w] = "wake_peer"
  /\ NotifyAll(Peer(w))
  /\ GoTo(w, "exited")
  /\ UNCHANGED <<main, runResult, peerMessage, commError, threw>>

WorkerStep(w) ==
  \/ RunAgent(w) \/ Send(w) \/ SendRefused(w) \/ NotifyPeer(w)
  \/ Sleep(w) \/ Receive(w) \/ ReceiveClosed(w)
  \/ Throw(w) \/ RecordFailure(w)
  \/ CloseOwn(w) \/ WakeOwn(w) \/ ClosePeer(w) \/ WakePeer(w)

-----------------------------------------------------------------------------
Ended == main \in {"returned", "thrown"}

Terminated == Ended /\ UNCHANGED vars

Next ==
  \/ CoordinatorStep
  \/ \E w \in Workers : WorkerStep(w) \/ Wake(w)
  \/ Terminated

(* The operating system runs every thread; agent.run returns (AgentLoop     *)
(* bounds its steps, clients and tools their waiting).  Nothing obliges     *)
(* condition_variable::wait to wake spuriously.                             *)
Spec ==
  /\ Init /\ [][Next]_vars
  /\ WF_vars(CoordinatorStep)
  /\ \A w \in Workers : WF_vars(WorkerStep(w))

-----------------------------------------------------------------------------
(* MultiAgentResult::success()                                              *)
SuccessIgnoringPeer ==   \* a version that does not look at peer_message
  \A w \in Workers : runResult[w].success /\ commError[w] = ""

Success ==
  /\ \A w \in Workers : runResult[w].success
  /\ \A w \in Workers : peerMessage[w] # NoMessage
  /\ \A w \in Workers : commError[w] = ""

(* A successful result is a complete exchange: when run() returns a result  *)
(* whose success() is true, each worker holds the other's final answer, the *)
(* one that is in the other's own result, and no worker thread ever threw - *)
(* also when communication_error could not be assigned (line 81, 88).       *)
SuccessIsCompleteExchange ==
  main = "returned" /\ Success =>
    \A w \in Workers :
      /\ peerMessage[w] = Outgoing(Peer(w))
      /\ ~threw[w]

(* Each worker learns the peer's result or why it cannot: a received        *)
(* message is the peer's own final result, success or failure, also when    *)
(* the peer threw afterwards.                                               *)
ReceivedIsPeersResult ==
  \A w \in Workers :
    peerMessage[w] # NoMessage => peerMessage[w] = Outgoing(Peer(w))

(* A worker that reports a closed mailbox misses nothing: one whose push is *)
(* refused leaves without reading its own inbox (lines 67-70), and one that *)
(* reports "own mailbox closed before peer response arrived" (line 75) has  *)
(* stopped reading it, yet no response of the peer is left in it or comes.  *)
NoResponseStranded ==
  \A w \in Workers :
    commError[w] \in {"peer mailbox closed", "own mailbox closed"} =>
      messages[w] = <<>>

(* A worker finds a mailbox closed only because the other worker threw or   *)
(* was never created; two workers never both blame a closed mailbox.        *)
ClosedMailboxHasCause ==
  \A w \in Workers :
    commError[w] \in {"peer mailbox closed", "own mailbox closed"} =>
      threw[Peer(w)] \/ pc[Peer(w)] = "unstarted"

(* The mailboxes, the result and the task are locals of run() that the      *)
(* worker threads hold by reference (lines 126-142): when run() returns or  *)
(* throws, no worker thread is still running.                               *)
NoThreadOutlivesRun ==
  Ended => \A w \in Workers : pc[w] \in {"unstarted", "exited"}

(* "shutdown failures cannot leave a coordinator blocked forever"           *)
(* (message_queue.h:12-13): run() returns or throws.                        *)
RunTerminates == <>Ended

(* Why the invariants above hold: an inductive invariant.                   *)

(* A worker that has not sent yet is not heard of by its peer; one that has *)
(* sent has a result that no longer changes, and at most that one message   *)
(* is under way.                                                            *)
MailboxInv ==
  \A w \in Workers :
    /\ pc[w] \in {"unstarted", "run", "send"} =>
         messages[Peer(w)] = <<>> /\ peerMessage[Peer(w)] = NoMessage
    /\ pc[w] \in {"send", "notify", "receive"} => runResult[w] \in AllResults
    /\ messages[w] = <<>> \/ messages[w] = <<Outgoing(Peer(w))>>

(* A worker leaves in one of three ways only: with a message, with a report *)
(* of a closed mailbox, or by way of a catch block.                         *)
ClosingSteps == {"fail", "close_own", "wake_own", "close_peer", "wake_peer"}
LeavingInv ==
  \A w \in Workers :
    /\ pc[w] # "exited" => peerMessage[w] = NoMessage
    /\ threw[w] => peerMessage[w] = NoMessage /\ pc[w] \in ClosingSteps \cup {"exited"}
    /\ pc[w] \in ClosingSteps => threw[w]

(* The coordinator closes the mailboxes only when it has no second thread.  *)
ClosingMain == {"close_first", "wake_first", "close_second", "wake_second",
                "join_rethrow"}
StartInv ==
  /\ main \in {"check", "start_first"} => \A w \in Workers : pc[w] = "unstarted"
  /\ main \in ClosingMain \cup {"start_second", "thrown"} => pc[Second] = "unstarted"
  /\ main = "thrown" => pc[First] \in {"unstarted", "exited"}
  /\ main \in {"join_second", "returned"} => pc[First] = "exited"
  /\ main = "returned" => pc[Second] = "exited"

(* A closed mailbox has a cause, and a worker that found one closed is not  *)
(* the cause itself.                                                        *)
NoSecondThread == main \in ClosingMain \cup {"thrown"}
ClosedBy(w, p) ==
  /\ closed[w] => threw[w] \/ threw[p] \/ NoSecondThread
  /\ threw[w] => messages[p] = <<>> \/ threw[p] \/ NoSecondThread
  /\ commError[w] \in {"peer mailbox closed", "own mailbox closed"} =>
       /\ pc[w] = "exited" /\ ~threw[w]
       /\ threw[p] \/ (w = First /\ NoSecondThread)
       /\ messages[w] = <<>>

ClosedInv == \A w \in Workers : ClosedBy(w, Peer(w))

IInv == TypeOK /\ MailboxInv /\ LeavingInv /\ StartInv /\ ClosedInv
          /\ ReceivedIsPeersResult

(* The abstract exchange this implements.  A side's outcome is its result   *)
(* once its thread has left agent.run; what it published is its result once *)
(* the message is in the peer's inbox, or out of it again.                  *)
HasSent(w) ==
  \/ pc[w] \in {"notify", "receive"}
  \/ messages[Peer(w)] # <<>>
  \/ peerMessage[Peer(w)] # NoMessage

MessageOf(w) == [success |-> runResult[w].success,
                 content |-> Content(runResult[w])]

Exchange == INSTANCE ResultExchange WITH
  Outcomes <- {[success |-> r.success, content |-> Content(r)] : r \in AllResults},
  NoOutcome <- NoMessage,
  outcome <- [w \in Workers |->
                IF runResult[w] = DefaultResult THEN NoMessage ELSE MessageOf(w)],
  published <- [w \in Workers |->
                IF HasSent(w) THEN MessageOf(w) ELSE NoMessage],
  obtained <- [w \in Workers |->
                IF peerMessage[w] = NoMessage THEN NoMessage
                ELSE [success |-> peerMessage[w].success,
                      content |-> peerMessage[w].content]],
  phase <- IF Ended THEN main ELSE "open"

ExchangeSpec == Exchange!Spec

=============================================================================
