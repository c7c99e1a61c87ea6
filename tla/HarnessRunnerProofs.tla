------------------------- MODULE HarnessRunnerProofs -------------------------
(***************************************************************************)
(* Proofs about HarnessRunner for every batch of tasks, every workspace and  *)
(* every set of reset paths.                                                 *)
(***************************************************************************)
EXTENDS HarnessRunner, FiniteSetTheorems, SequenceTheorems, TLAPS

ResultType == [id : Ids, passed : BOOLEAN, agentSuccess : BOOLEAN, text : BOOLEAN]
FileType == [kind : {"none", "broken"} \cup Accepted, task : 0..Earlier, passed : BOOLEAN, steps : Nat]
AgentType == [success : BOOLEAN, text : BOOLEAN]

InTask == {"setup", "configure", "run", "evaluate", "save", "cleanup", "unwind"}
Accounted == {"next", "summary", "returned"}

(* A task is under way in the phases of runTask, and its environment is      *)
(* ready from setup() on.                                                    *)
PhaseInv ==
  /\ phase \in InTask => cur \in TaskIndex
  /\ phase \in {"configure", "run", "evaluate", "save", "cleanup"} => ready

(* The hook is lent to AgentLoop::run only.                                  *)
HookInv ==
  /\ phase \notin {"run", "unwind"} => hook = 0
  /\ hook # 0 => hook = cur

(* The results are those of the first tasks, this one's not yet among them.  *)
ResultsInv ==
  /\ phase \in Accounted => Len(results) = cur
  /\ phase \in InTask => Len(results) = cur - 1
  /\ Len(results) <= cur
  /\ \A n \in DOMAIN results : results[n].id = Task(n).id

CountInv == passed = Cardinality({n \in DOMAIN results : results[n].passed})

(* What evaluation says is true of the agent, and once saved of what was     *)
(* written, however much of it is on the disk.                               *)
FileInv ==
  /\ phase \in {"save", "cleanup"} /\ evaluation => agent.success
  /\ phase = "cleanup" =>
       \E kind \in Accepted : files[Task(cur).id] = Saved(kind)

(* A sandbox is clean between tasks and before its setup, and setup() that   *)
(* fails leaves it clean or has failed to remove it.                         *)
Clean == \A p \in Paths : owner[p] \in {0, Earlier}
CleanInv ==
  env = "sandbox" /\ ~dirty
    /\ (phase \in {"next", "setup", "summary", "returned", "thrown"}
        \/ (phase = "unwind" /\ ~ready))
  => Clean

(* What is to be removed is gone when the agent starts.                      *)
ResetInv ==
  phase \in {"configure", "run", "evaluate"} =>
    \A p \in ToRemove : owner[p] \in {0, cur}

HarnessInv ==
  /\ TypeOK /\ PhaseInv /\ HookInv /\ ResultsInv /\ CountInv
  /\ FileInv /\ PassedIsRecorded /\ CleanInv /\ ResetInv
-----------------------------------------------------------------------------
(* What a task is, whatever the batch.                                       *)
LEMMA BatchLength == Len(Batch) \in Nat
  BY BatchAssumption

LEMMA TaskFields ==
  ASSUME NEW n \in TaskIndex
  PROVE  Task(n).id \in Ids /\ Task(n).maxSteps \in Nat /\ Task(n).artifact \in Paths
<1>1. Batch[n] \in [id : Ids, valid : BOOLEAN, maxSteps : Nat,
                    eval : {"functional", "keyword", "unregistered"}, artifact : Paths]
  BY BatchAssumption, ElementOfSeq DEF TaskIndex
<1> QED
  BY <1>1 DEF Task

LEMMA Owners ==
  /\ Earlier \in Nat /\ {0, Earlier} \subseteq 0..Earlier
  /\ 0..Len(Batch) \subseteq 0..Earlier /\ TaskIndex \subseteq 0..Len(Batch) /\ 0 \in 0..Len(Batch)
  BY BatchLength DEF Earlier, TaskIndex

LEMMA NextTask ==
  ASSUME NEW n \in 0..Len(Batch), n < Len(Batch)
  PROVE  n + 1 \in TaskIndex
  BY BatchLength DEF TaskIndex

LEMMA FilesKnown == {NoFile, BrokenFile, OldFile(TRUE)} \subseteq FileType
  BY Owners DEF NoFile, BrokenFile, OldFile, FileType, Accepted

LEMMA ErrorTyped ==
  ASSUME NEW n \in TaskIndex
  PROVE  ErrorResult(n) \in ResultType
  BY TaskFields DEF ErrorResult, ResultType

(* BatchResult::add appends one result and leaves the earlier ones alone.    *)
LEMMA AddAppends ==
  ASSUME TypeOK, NEW r \in ResultType, Add(r)
  PROVE  /\ results' \in Seq(ResultType)
         /\ passed' \in Nat
         /\ Len(results) \in Nat
         /\ Len(results') = Len(results) + 1
         /\ DOMAIN results = 1..Len(results)
         /\ DOMAIN results' = 1..Len(results')
         /\ \A i \in 1..Len(results) : results'[i] = results[i]
         /\ results'[Len(results) + 1] = r
<1>1. results \in Seq(ResultType) /\ passed \in Nat
  BY DEF TypeOK, ResultType
<1>2. results' = Append(results, r)
  BY DEF Add
<1>3. passed' \in Nat
  BY <1>1 DEF Add, ResultType
<1>4. results' \in Seq(ResultType)
  BY <1>1, <1>2, AppendProperties
<1> QED
  BY <1>1, <1>2, <1>3, <1>4, AppendProperties, LenProperties
-----------------------------------------------------------------------------
LEMMA Initially == Init => HarnessInv
<1> SUFFICES ASSUME Init PROVE HarnessInv
  OBVIOUS
<1>1. TypeOK
  <2>1. files \in [Ids -> FileType]
    <3>1. PICK f \in {NoFile, OldFile(TRUE)} : files = [id \in Ids |-> f]
      BY DEF Init
    <3> QED
      BY <3>1, FilesKnown
  <2>2. owner \in [Paths -> 0..Earlier] /\ cur \in 0..Len(Batch) /\ hook \in 0..Len(Batch)
    BY Owners DEF Init
  <2>3. agent \in AgentType
    BY DEF Init, NoAgentResult, AgentType
  <2>4. limit \in Nat /\ steps \in Nat /\ passed \in Nat
    BY BatchAssumption DEF Init
  <2>5. results \in Seq(ResultType)
    BY EmptySeq DEF Init
  <2>6. /\ phase = "next" /\ env \in {"native", "sandbox"} /\ ready \in BOOLEAN /\ evaluation \in BOOLEAN
        /\ thrown = "" /\ summary = "old" /\ dirty \in BOOLEAN
    BY DEF Init
  <2> QED
    BY <2>1, <2>2, <2>3, <2>4, <2>5, <2>6 DEF TypeOK, FileType, AgentType, ResultType
<1>2. PhaseInv /\ HookInv /\ FileInv /\ ResetInv
  BY DEF Init, PhaseInv, InTask, HookInv, FileInv, ResetInv
<1>3. CleanInv
  BY DEF Init, CleanInv, Clean
<1>4. results = <<>> /\ cur = 0 /\ phase = "next" /\ passed = 0
  BY DEF Init
<1>5. DOMAIN results = {} /\ Len(results) = 0
  BY <1>4
<1>6. ResultsInv /\ PassedIsRecorded
  BY <1>4, <1>5 DEF ResultsInv, Accounted, InTask, PassedIsRecorded
<1>7. CountInv
  <2>1. {n \in DOMAIN results : results[n].passed} = {}
    BY <1>5
  <2>2. Cardinality({}) = 0
    BY FS_EmptySet
  <2> QED
    BY <1>4, <2>1, <2>2 DEF CountInv
<1> QED
  BY <1>1, <1>2, <1>3, <1>6, <1>7 DEF HarnessInv
-----------------------------------------------------------------------------

(* Types.  The variables that are not functions, first.                     *)
LEMMA FlagsTyped ==
  ASSUME TypeOK, PhaseInv, [Next]_vars
  PROVE  /\ phase' \in {"next", "setup", "configure", "run", "evaluate", "save", "cleanup",
                      "unwind", "summary", "returned", "thrown"}
         /\ env' \in {"native", "sandbox"} /\ ready' \in BOOLEAN
         /\ evaluation' \in BOOLEAN /\ thrown' \in {"", "std", "other"}
         /\ summary' \in {"old", "broken"} \cup Accepted /\ dirty' \in BOOLEAN
         /\ agent' \in AgentType
<1> USE DEF TypeOK, AgentType, NoAgentResult, taskVars, batchVars, outside
<1>1. CASE StartTask
  BY <1>1 DEF StartTask, Add
<1>2. CASE Setup
  BY <1>2 DEF Setup
<1>3. CASE SetupFails
  BY <1>3 DEF SetupFails, Throw
<1>4. CASE Configure
  BY <1>4 DEF Configure
<1>5. CASE AgentStep
  BY <1>5 DEF AgentStep
<1>6. CASE AgentEnds
  BY <1>6 DEF AgentEnds
<1>7. CASE AgentThrows
  BY <1>7 DEF AgentThrows, Throw
<1>8. CASE Evaluate
  BY <1>8 DEF Evaluate
<1>9. CASE EvaluateThrows
  BY <1>9 DEF EvaluateThrows, Throw
<1>10. CASE Save
  BY <1>10 DEF Save
<1>11. CASE SaveFails
  BY <1>11 DEF SaveFails, Throw
<1>12. CASE FinishTask
  BY <1>12 DEF FinishTask, CleanupDone, Add
<1>13. CASE FinishTaskFails
  BY <1>13 DEF FinishTaskFails, CleanupFailed, Throw
<1>14. CASE Unwind
  BY <1>14 DEF Unwind, CleanupDone, CleanupFailed, AfterUnwind, Add
<1>15. CASE EndBatch
  BY <1>15 DEF EndBatch
<1>16. CASE SaveSummary
  BY <1>16 DEF SaveSummary
<1>17. CASE SaveSummaryFails
  BY <1>17 DEF SaveSummaryFails
<1>18. CASE UNCHANGED vars
  <2>1. UNCHANGED <<phase, env, ready, evaluation, thrown, summary, dirty, agent>>
    BY <1>18 DEF vars
  <2>2. agent \in AgentType
    OBVIOUS
  <2>3. /\ phase \in {"next", "setup", "configure", "run", "evaluate", "save", "cleanup",
                      "unwind", "summary", "returned", "thrown"}
        /\ env \in {"native", "sandbox"} /\ ready \in BOOLEAN /\ evaluation \in BOOLEAN
        /\ thrown \in {"", "std", "other"} /\ summary \in {"old", "broken"} \cup Accepted
        /\ dirty \in BOOLEAN
    OBVIOUS
  <2> HIDE DEF TypeOK, AgentType
  <2> QED
    BY <2>1, <2>2, <2>3
<1> QED
  BY <1>1, <1>2, <1>3, <1>4, <1>5, <1>6, <1>7, <1>8, <1>9, <1>10, <1>11, <1>12, <1>13, <1>14, <1>15, <1>16, <1>17, <1>18 DEF Next, HarnessStep, Terminated

LEMMA CountersTyped ==
  ASSUME cur \in 0..Len(Batch), hook \in 0..Len(Batch), limit \in Nat, steps \in Nat, PhaseInv, [Next]_vars
  PROVE  /\ cur' \in 0..Len(Batch) /\ hook' \in 0..Len(Batch)
         /\ limit' \in Nat /\ steps' \in Nat
<1> USE BatchLength, TaskFields DEF PhaseInv, InTask, TaskIndex, taskVars, batchVars, outside
<1>1. CASE StartTask
  BY <1>1 DEF StartTask, Add
<1>2. CASE Setup
  BY <1>2 DEF Setup
<1>3. CASE SetupFails
  BY <1>3 DEF SetupFails, Throw
<1>4. CASE Configure
  BY <1>4 DEF Configure
<1>5. CASE AgentStep
  BY <1>5 DEF AgentStep
<1>6. CASE AgentEnds
  BY <1>6 DEF AgentEnds
<1>7. CASE AgentThrows
  BY <1>7 DEF AgentThrows, Throw
<1>8. CASE Evaluate
  BY <1>8 DEF Evaluate
<1>9. CASE EvaluateThrows
  BY <1>9 DEF EvaluateThrows, Throw
<1>10. CASE Save
  BY <1>10 DEF Save
<1>11. CASE SaveFails
  BY <1>11 DEF SaveFails, Throw
<1>12. CASE FinishTask
  BY <1>12 DEF FinishTask, CleanupDone, Add
<1>13. CASE FinishTaskFails
  BY <1>13 DEF FinishTaskFails, CleanupFailed, Throw
<1>14. CASE Unwind
  <2>1. hook' = 0 /\ cur' = cur /\ limit' = limit /\ steps' = steps
    BY <1>14 DEF Unwind
  <2> QED
    BY <2>1
<1>15. CASE EndBatch
  BY <1>15 DEF EndBatch
<1>16. CASE SaveSummary
  BY <1>16 DEF SaveSummary
<1>17. CASE SaveSummaryFails
  BY <1>17 DEF SaveSummaryFails
<1>18. CASE UNCHANGED vars
  BY <1>18 DEF vars
<1> QED
  BY <1>1, <1>2, <1>3, <1>4, <1>5, <1>6, <1>7, <1>8, <1>9, <1>10, <1>11, <1>12, <1>13, <1>14, <1>15, <1>16, <1>17, <1>18 DEF Next, HarnessStep, Terminated

LEMMA OwnerTyped ==
  ASSUME owner \in [Paths -> 0..Earlier], PhaseInv, [Next]_vars
  PROVE  owner' \in [Paths -> 0..Earlier]
<1> USE Owners DEF PhaseInv, InTask, Removed, taskVars, batchVars, outside
<1>1. CASE StartTask
  BY <1>1 DEF StartTask, Add
<1>2. CASE Setup
  BY <1>2 DEF Setup
<1>3. CASE SetupFails
  BY <1>3 DEF SetupFails, Throw
<1>4. CASE Configure
  BY <1>4 DEF Configure
<1>5. CASE AgentStep
  BY <1>5 DEF AgentStep
<1>6. CASE AgentEnds
  BY <1>6 DEF AgentEnds
<1>7. CASE AgentThrows
  BY <1>7 DEF AgentThrows, Throw
<1>8. CASE Evaluate
  BY <1>8 DEF Evaluate
<1>9. CASE EvaluateThrows
  BY <1>9 DEF EvaluateThrows, Throw
<1>10. CASE Save
  BY <1>10 DEF Save
<1>11. CASE SaveFails
  BY <1>11 DEF SaveFails, Throw
<1>12. CASE FinishTask
  BY <1>12 DEF FinishTask, CleanupDone, Add
<1>13. CASE FinishTaskFails
  BY <1>13 DEF FinishTaskFails, CleanupFailed, Throw
<1>14. CASE Unwind
  BY <1>14 DEF Unwind, CleanupDone, CleanupFailed, AfterUnwind, Add
<1>15. CASE EndBatch
  BY <1>15 DEF EndBatch
<1>16. CASE SaveSummary
  BY <1>16 DEF SaveSummary
<1>17. CASE SaveSummaryFails
  BY <1>17 DEF SaveSummaryFails
<1>18. CASE UNCHANGED vars
  BY <1>18 DEF vars
<1> QED
  BY <1>1, <1>2, <1>3, <1>4, <1>5, <1>6, <1>7, <1>8, <1>9, <1>10, <1>11, <1>12, <1>13, <1>14, <1>15, <1>16, <1>17, <1>18 DEF Next, HarnessStep, Terminated

LEMMA FilesTyped ==
  ASSUME files \in [Ids -> FileType], evaluation \in BOOLEAN, steps \in Nat, PhaseInv, [Next]_vars
  PROVE  files' \in [Ids -> FileType]
<1> USE DEF PhaseInv, InTask, taskVars, batchVars, outside
<1>1. CASE StartTask
  BY <1>1 DEF StartTask, Add
<1>2. CASE Setup
  BY <1>2 DEF Setup
<1>3. CASE SetupFails
  BY <1>3 DEF SetupFails, Throw
<1>4. CASE Configure
  BY <1>4 DEF Configure
<1>5. CASE AgentStep
  BY <1>5 DEF AgentStep
<1>6. CASE AgentEnds
  BY <1>6 DEF AgentEnds
<1>7. CASE AgentThrows
  BY <1>7 DEF AgentThrows, Throw
<1>8. CASE Evaluate
  BY <1>8 DEF Evaluate
<1>9. CASE EvaluateThrows
  BY <1>9 DEF EvaluateThrows, Throw
<1>10. CASE Save
  <2>1. cur \in 0..Earlier
    BY <1>10, Owners DEF Save
  <2> DEFINE file(kind) == Saved(kind)
  <2>2. \A kind \in Accepted : file(kind) \in FileType
    BY <2>1 DEF FileType, Saved
  <2>3. \E kind \in Accepted : files' = [files EXCEPT ![Task(cur).id] = file(kind)]
    BY <1>10 DEF Save
  <2> HIDE DEF file
  <2> QED
    BY <2>2, <2>3
<1>11. CASE SaveFails
  <2>1. BrokenFile \in FileType
    BY FilesKnown
  <2>2. files' = files \/ files' = [files EXCEPT ![Task(cur).id] = BrokenFile]
    BY <1>11 DEF SaveFails
  <2> QED
    BY <2>1, <2>2
<1>12. CASE FinishTask
  BY <1>12 DEF FinishTask, CleanupDone, Add
<1>13. CASE FinishTaskFails
  BY <1>13 DEF FinishTaskFails, CleanupFailed, Throw
<1>14. CASE Unwind
  BY <1>14 DEF Unwind, CleanupDone, CleanupFailed, AfterUnwind, Add
<1>15. CASE EndBatch
  BY <1>15 DEF EndBatch
<1>16. CASE SaveSummary
  BY <1>16 DEF SaveSummary
<1>17. CASE SaveSummaryFails
  BY <1>17 DEF SaveSummaryFails
<1>18. CASE UNCHANGED vars
  BY <1>18 DEF vars
<1> QED
  BY <1>1, <1>2, <1>3, <1>4, <1>5, <1>6, <1>7, <1>8, <1>9, <1>10, <1>11, <1>12, <1>13, <1>14, <1>15, <1>16, <1>17, <1>18 DEF Next, HarnessStep, Terminated

(* A step adds no result, or that of the task it starts or ends; a passed    *)
(* one only for a task whose evaluation passed.                              *)
Silent ==
  /\ UNCHANGED <<results, passed>>
  /\ \/ phase = "next" /\ phase' = "setup" /\ cur' = cur + 1
     \/ phase \in InTask /\ phase' \in InTask \cup {"thrown"} /\ cur' = cur
     \/ phase \in Accounted /\ phase' \in Accounted \cup {"thrown"} /\ cur' = cur
     \/ phase = "thrown" /\ phase' = "thrown" /\ cur' = cur

Reported(r) ==
  /\ Add(r)
  /\ cur' \in TaskIndex /\ r.id = Task(cur').id
  /\ phase' = "next" /\ (phase = "next" => cur' = cur + 1) /\ (phase /= "next" => cur' = cur)
  /\ phase \in {"next", "cleanup", "unwind"}
  /\ r.passed => phase = "cleanup" /\ evaluation /\ r.agentSuccess = agent.success
  /\ files' = files

LEMMA StepReports ==
  ASSUME phase \in Accounted \cup InTask \cup {"thrown"}, cur \in 0..Len(Batch),
         agent \in AgentType, evaluation \in BOOLEAN, thrown \in {"", "std", "other"}, PhaseInv, [Next]_vars
  PROVE  Silent \/ \E r \in ResultType : Reported(r)
<1> USE DEF PhaseInv, InTask, Accounted, Silent, taskVars, batchVars, outside
<1>1. CASE StartTask
  <2>1. cur' \in TaskIndex /\ cur' = cur + 1
    <3>1. cur < Len(Batch) /\ cur' = cur + 1
      BY <1>1 DEF StartTask
    <3> QED
      BY <3>1, NextTask
  <2>2. ErrorResult(cur') \in ResultType
    BY <2>1, ErrorTyped
  <2>3. CASE Task(cur').valid
    BY <1>1, <2>3 DEF StartTask
  <2>4. CASE ~Task(cur').valid
    <3>1. Reported(ErrorResult(cur'))
      BY <1>1, <2>1, <2>4 DEF StartTask, Reported, ErrorResult
    <3> QED
      BY <2>2, <3>1
  <2> QED
    BY <2>3, <2>4
<1>2. CASE Setup
  BY <1>2 DEF Setup
<1>3. CASE SetupFails
  BY <1>3 DEF SetupFails, Throw
<1>4. CASE Configure
  BY <1>4 DEF Configure
<1>5. CASE AgentStep
  BY <1>5 DEF AgentStep
<1>6. CASE AgentEnds
  BY <1>6 DEF AgentEnds
<1>7. CASE AgentThrows
  BY <1>7 DEF AgentThrows, Throw
<1>8. CASE Evaluate
  BY <1>8 DEF Evaluate
<1>9. CASE EvaluateThrows
  BY <1>9 DEF EvaluateThrows, Throw
<1>10. CASE Save
  BY <1>10 DEF Save
<1>11. CASE SaveFails
  BY <1>11 DEF SaveFails, Throw
<1>12. CASE FinishTask
  <2> DEFINE r == [id |-> Task(cur).id, passed |-> evaluation, agentSuccess |-> agent.success,
                   text |-> agent.text]
  <2>1. cur \in TaskIndex /\ cur' = cur
    BY <1>12 DEF FinishTask
  <2>2. r \in ResultType
    BY <2>1, TaskFields DEF AgentType, ResultType
  <2>3. Reported(r)
    BY <1>12, <2>1 DEF FinishTask, Reported
  <2> QED
    BY <2>2, <2>3
<1>13. CASE FinishTaskFails
  BY <1>13 DEF FinishTaskFails, CleanupFailed, Throw
<1>14. CASE Unwind
  <2>1. cur \in TaskIndex /\ cur' = cur
    BY <1>14 DEF Unwind
  <2>2. ErrorResult(cur) \in ResultType
    BY <2>1, ErrorTyped
  <2>3. CASE thrown = "std"
    <3>1. Reported(ErrorResult(cur))
      BY <1>14, <2>1, <2>3 DEF Unwind, AfterUnwind, Reported, ErrorResult
    <3> QED
      BY <2>2, <3>1
  <2>4. CASE thrown /= "std"
    BY <1>14, <2>4 DEF Unwind, AfterUnwind
  <2> QED
    BY <2>3, <2>4
<1>15. CASE EndBatch
  BY <1>15 DEF EndBatch
<1>16. CASE SaveSummary
  BY <1>16 DEF SaveSummary
<1>17. CASE SaveSummaryFails
  BY <1>17 DEF SaveSummaryFails
<1>18. CASE UNCHANGED vars
  BY <1>18 DEF vars
<1> QED
  BY <1>1, <1>2, <1>3, <1>4, <1>5, <1>6, <1>7, <1>8, <1>9, <1>10, <1>11, <1>12, <1>13, <1>14, <1>15, <1>16, <1>17, <1>18 DEF Next, HarnessStep, Terminated

LEMMA Reports ==
  ASSUME TypeOK, PhaseInv, [Next]_vars
  PROVE  Silent \/ \E r \in ResultType : Reported(r)
<1>1. phase \in Accounted \cup InTask \cup {"thrown"} /\ agent \in AgentType
  BY DEF TypeOK, Accounted, InTask, AgentType
<1> QED
  BY <1>1, StepReports DEF TypeOK

LEMMA TypeStep ==
  ASSUME TypeOK, PhaseInv, [Next]_vars
  PROVE  TypeOK'
<1>1. results' \in Seq(ResultType) /\ passed' \in Nat
  <2>1. CASE Silent
    BY <2>1 DEF Silent, TypeOK, ResultType
  <2>2. CASE \E r \in ResultType : Reported(r)
    BY <2>2, AddAppends DEF Reported
  <2> QED
    BY <2>1, <2>2, Reports
<1> QED
  BY <1>1, FlagsTyped, CountersTyped, OwnerTyped, FilesTyped DEF TypeOK, AgentType, FileType, ResultType
-----------------------------------------------------------------------------

(* The control: which phases belong to a task, and who holds the hook.      *)
LEMMA PhaseStep ==
  ASSUME cur \in 0..Len(Batch), PhaseInv, [Next]_vars
  PROVE  PhaseInv'
<1> USE BatchLength DEF PhaseInv, InTask, TaskIndex, taskVars, batchVars, outside
<1>1. CASE StartTask
  BY <1>1 DEF StartTask, Add
<1>2. CASE Setup
  BY <1>2 DEF Setup
<1>3. CASE SetupFails
  BY <1>3 DEF SetupFails, Throw
<1>4. CASE Configure
  BY <1>4 DEF Configure
<1>5. CASE AgentStep
  BY <1>5 DEF AgentStep
<1>6. CASE AgentEnds
  BY <1>6 DEF AgentEnds
<1>7. CASE AgentThrows
  BY <1>7 DEF AgentThrows, Throw
<1>8. CASE Evaluate
  BY <1>8 DEF Evaluate
<1>9. CASE EvaluateThrows
  BY <1>9 DEF EvaluateThrows, Throw
<1>10. CASE Save
  BY <1>10 DEF Save
<1>11. CASE SaveFails
  BY <1>11 DEF SaveFails, Throw
<1>12. CASE FinishTask
  BY <1>12 DEF FinishTask, CleanupDone, Add
<1>13. CASE FinishTaskFails
  BY <1>13 DEF FinishTaskFails, CleanupFailed, Throw
<1>14. CASE Unwind
  BY <1>14 DEF Unwind, CleanupDone, CleanupFailed, AfterUnwind, Add
<1>15. CASE EndBatch
  BY <1>15 DEF EndBatch
<1>16. CASE SaveSummary
  BY <1>16 DEF SaveSummary
<1>17. CASE SaveSummaryFails
  BY <1>17 DEF SaveSummaryFails
<1>18. CASE UNCHANGED vars
  BY <1>18 DEF vars
<1> QED
  BY <1>1, <1>2, <1>3, <1>4, <1>5, <1>6, <1>7, <1>8, <1>9, <1>10, <1>11, <1>12, <1>13, <1>14, <1>15, <1>16, <1>17, <1>18 DEF Next, HarnessStep, Terminated

LEMMA HookStep ==
  ASSUME TypeOK, PhaseInv, HookInv, [Next]_vars
  PROVE  HookInv'
<1> USE DEF HookInv, taskVars, batchVars, outside
<1>1. CASE StartTask
  BY <1>1 DEF StartTask, Add
<1>2. CASE Setup
  BY <1>2 DEF Setup
<1>3. CASE SetupFails
  BY <1>3 DEF SetupFails, Throw
<1>4. CASE Configure
  BY <1>4 DEF Configure
<1>5. CASE AgentStep
  BY <1>5 DEF AgentStep
<1>6. CASE AgentEnds
  BY <1>6 DEF AgentEnds
<1>7. CASE AgentThrows
  BY <1>7 DEF AgentThrows, Throw
<1>8. CASE Evaluate
  BY <1>8 DEF Evaluate
<1>9. CASE EvaluateThrows
  BY <1>9 DEF EvaluateThrows, Throw
<1>10. CASE Save
  BY <1>10 DEF Save
<1>11. CASE SaveFails
  BY <1>11 DEF SaveFails, Throw
<1>12. CASE FinishTask
  BY <1>12 DEF FinishTask, CleanupDone, Add
<1>13. CASE FinishTaskFails
  BY <1>13 DEF FinishTaskFails, CleanupFailed, Throw
<1>14. CASE Unwind
  BY <1>14 DEF Unwind, CleanupDone, CleanupFailed, AfterUnwind, Add
<1>15. CASE EndBatch
  BY <1>15 DEF EndBatch
<1>16. CASE SaveSummary
  BY <1>16 DEF SaveSummary
<1>17. CASE SaveSummaryFails
  BY <1>17 DEF SaveSummaryFails
<1>18. CASE UNCHANGED vars
  BY <1>18 DEF vars
<1> QED
  BY <1>1, <1>2, <1>3, <1>4, <1>5, <1>6, <1>7, <1>8, <1>9, <1>10, <1>11, <1>12, <1>13, <1>14, <1>15, <1>16, <1>17, <1>18 DEF Next, HarnessStep, Terminated

LEMMA ResultsStep ==
  ASSUME TypeOK, PhaseInv, ResultsInv, [Next]_vars
  PROVE  ResultsInv'
<1>1. /\ results \in Seq(ResultType) /\ Len(results) \in Nat /\ DOMAIN results = 1..Len(results)
      /\ cur \in Nat
  <2>1. results \in Seq(ResultType) /\ cur \in 0..Len(Batch)
    BY DEF TypeOK, ResultType
  <2> QED
    BY <2>1, BatchLength, LenProperties
<1>. DEFINE n == Len(results)
<1>2. /\ phase \in Accounted => n = cur
      /\ phase \in InTask => n = cur - 1
      /\ n <= cur
  BY DEF ResultsInv
<1>3. \A i \in 1..n : results[i].id = Task(i).id
  BY <1>1 DEF ResultsInv
<1>4. CASE Silent
  <2>1. results' = results
    BY <1>4 DEF Silent
  <2>2. Len(results') = n /\ \A i \in DOMAIN results' : results'[i].id = Task(i).id
    BY <1>1, <1>3, <2>1
  <2>3. /\ phase' \in Accounted => n = cur'
        /\ phase' \in InTask => n = cur' - 1
        /\ n <= cur'
    <3>1. n \in Nat /\ cur \in Nat
      BY <1>1
    <3>2. CASE phase = "next" /\ phase' = "setup" /\ cur' = cur + 1
      <4>1. n = cur
        BY <1>2, <3>2 DEF Accounted
      <4> QED
        BY <3>1, <3>2, <4>1 DEF InTask, Accounted
    <3>3. CASE cur' = cur /\ (phase' \in Accounted => phase \in Accounted)
                         /\ (phase' \in InTask => phase \in InTask)
      BY <1>2, <3>3
    <3>4. ("thrown" \notin Accounted \cup InTask) /\ Accounted \cap InTask = {}
      BY DEF InTask, Accounted
    <3> QED
      BY <1>4, <3>2, <3>3, <3>4 DEF Silent
  <2> QED
    BY <2>2, <2>3 DEF ResultsInv
<1>5. CASE \E r \in ResultType : Reported(r)
  <2>1. PICK r \in ResultType : Reported(r)
    BY <1>5
  <2>2. /\ Len(results') = n + 1 /\ DOMAIN results' = 1..(n + 1)
        /\ \A i \in 1..n : results'[i] = results[i]
        /\ results'[n + 1] = r
    BY <2>1, AddAppends DEF Reported
  <2>3. phase' = "next" /\ r.id = Task(cur').id
    BY <2>1 DEF Reported
  <2>4. cur' = n + 1
    <3>1. CASE phase = "next"
      BY <1>2, <2>1, <3>1 DEF Reported, Accounted
    <3>2. CASE phase \in {"cleanup", "unwind"}
      <4>1. n = cur - 1 /\ cur' = cur
        BY <1>2, <2>1, <3>2 DEF Reported, InTask
      <4> QED
        BY <1>1, <4>1
    <3> QED
      BY <2>1, <3>1, <3>2 DEF Reported
  <2>5. \A i \in DOMAIN results' : results'[i].id = Task(i).id
    <3> SUFFICES ASSUME NEW i \in 1..(n + 1) PROVE results'[i].id = Task(i).id
      BY <2>2
    <3>1. CASE i \in 1..n
      BY <1>3, <2>2, <3>1
    <3>2. CASE i = n + 1
      BY <2>2, <2>3, <2>4, <3>2
    <3> QED
      BY <1>1, <3>1, <3>2
  <2>6. Len(results') = cur' /\ cur' \in Nat
    BY <1>1, <2>2, <2>4
  <2> QED
    BY <2>3, <2>5, <2>6 DEF ResultsInv, InTask, Accounted
<1> QED
  BY <1>4, <1>5, Reports

(* passed_tasks_ counts the passed results.                                  *)
LEMMA CountStep ==
  ASSUME TypeOK, PhaseInv, CountInv, [Next]_vars
  PROVE  CountInv'
<1>1. CASE Silent
  BY <1>1 DEF CountInv, Silent
<1>2. CASE \E r \in ResultType : Reported(r)
  <2> DEFINE S == {n \in DOMAIN results : results[n].passed}
             T == {n \in DOMAIN results' : results'[n].passed}
  <2>1. PICK r \in ResultType : Reported(r)
    BY <1>2
  <2>2. /\ Len(results) \in Nat /\ Len(results') = Len(results) + 1
        /\ DOMAIN results = 1..Len(results) /\ DOMAIN results' = 1..Len(results')
        /\ \A i \in 1..Len(results) : results'[i] = results[i]
        /\ results'[Len(results) + 1] = r
    BY <2>1, AddAppends DEF Reported
  <2>3. IsFiniteSet(S)
    <3>1. S \subseteq 1..Len(results)
      BY <2>2
    <3>2. IsFiniteSet(1..Len(results))
      BY <2>2, FS_Interval
    <3> QED
      BY <3>1, <3>2, FS_Subset
  <2>4. Len(results) + 1 \notin S
    BY <2>2
  <2>5. CASE r.passed
    <3>1. T = S \cup {Len(results) + 1}
      BY <2>2, <2>5
    <3>2. Cardinality(T) = Cardinality(S) + 1
      BY <2>3, <2>4, <3>1, FS_AddElement
    <3>3. passed' = passed + 1
      BY <2>1, <2>5 DEF Reported, Add
    <3> QED
      BY <3>2, <3>3 DEF CountInv
  <2>6. CASE ~r.passed
    <3>1. T = S
      BY <2>2, <2>6
    <3>2. passed' = passed
      BY <2>1, <2>6 DEF Reported, Add
    <3> QED
      BY <3>1, <3>2 DEF CountInv
  <2> QED
    BY <2>5, <2>6
<1> QED
  BY <1>1, <1>2, Reports
-----------------------------------------------------------------------------

(* The evaluation and the trajectory file.                                  *)
LEMMA FileStep ==
  ASSUME files \in [Ids -> FileType], cur \in 0..Len(Batch), PhaseInv, FileInv, [Next]_vars
  PROVE  FileInv'
<1> USE DEF PhaseInv, FileInv, Saved, InTask, taskVars, batchVars, outside
<1>1. CASE StartTask
  BY <1>1 DEF StartTask, Add
<1>2. CASE Setup
  BY <1>2 DEF Setup
<1>3. CASE SetupFails
  BY <1>3 DEF SetupFails, Throw
<1>4. CASE Configure
  BY <1>4 DEF Configure
<1>5. CASE AgentStep
  BY <1>5 DEF AgentStep
<1>6. CASE AgentEnds
  BY <1>6 DEF AgentEnds
<1>7. CASE AgentThrows
  BY <1>7 DEF AgentThrows, Throw
<1>8. CASE Evaluate
  BY <1>8 DEF Evaluate
<1>9. CASE EvaluateThrows
  BY <1>9 DEF EvaluateThrows, Throw
<1>10. CASE Save
  <2>1. cur' = cur /\ phase' = "cleanup" /\ evaluation' = evaluation /\ steps' = steps /\ agent' = agent
    BY <1>10 DEF Save
  <2>2. Task(cur).id \in Ids
    BY <1>10, TaskFields DEF Save
  <2>3. \E kind \in Accepted : files'[Task(cur).id] = Saved(kind)
    <3> HIDE DEF Saved
    <3>1. PICK kind \in Accepted : files' = [files EXCEPT ![Task(cur).id] = Saved(kind)]
      BY <1>10 DEF Save
    <3> QED
      BY <2>2, <3>1
  <2> QED
    BY <1>10, <2>1, <2>3 DEF Save
<1>11. CASE SaveFails
  BY <1>11 DEF SaveFails, Throw
<1>12. CASE FinishTask
  BY <1>12 DEF FinishTask, CleanupDone, Add
<1>13. CASE FinishTaskFails
  BY <1>13 DEF FinishTaskFails, CleanupFailed, Throw
<1>14. CASE Unwind
  BY <1>14 DEF Unwind, CleanupDone, CleanupFailed, AfterUnwind, Add
<1>15. CASE EndBatch
  BY <1>15 DEF EndBatch
<1>16. CASE SaveSummary
  BY <1>16 DEF SaveSummary
<1>17. CASE SaveSummaryFails
  BY <1>17 DEF SaveSummaryFails
<1>18. CASE UNCHANGED vars
  BY <1>18 DEF vars
<1> QED
  BY <1>1, <1>2, <1>3, <1>4, <1>5, <1>6, <1>7, <1>8, <1>9, <1>10, <1>11, <1>12, <1>13, <1>14, <1>15, <1>16, <1>17, <1>18 DEF Next, HarnessStep, Terminated

(* The workspace: clean outside a task, reset when the agent starts.        *)
LEMMA CleanStep ==
  ASSUME env \in {"native", "sandbox"}, ready \in BOOLEAN, owner \in [Paths -> 0..Earlier], PhaseInv, CleanInv, [Next]_vars
  PROVE  CleanInv'
<1> USE DEF PhaseInv, CleanInv, Clean, InTask, ToRemove, Removed, taskVars, batchVars, outside
<1>1. CASE StartTask
  BY <1>1 DEF StartTask, Add
<1>2. CASE Setup
  BY <1>2 DEF Setup
<1>3. CASE SetupFails
  BY <1>3 DEF SetupFails, Throw
<1>4. CASE Configure
  BY <1>4 DEF Configure
<1>5. CASE AgentStep
  BY <1>5 DEF AgentStep
<1>6. CASE AgentEnds
  BY <1>6 DEF AgentEnds
<1>7. CASE AgentThrows
  BY <1>7 DEF AgentThrows, Throw
<1>8. CASE Evaluate
  BY <1>8 DEF Evaluate
<1>9. CASE EvaluateThrows
  BY <1>9 DEF EvaluateThrows, Throw
<1>10. CASE Save
  BY <1>10 DEF Save
<1>11. CASE SaveFails
  BY <1>11 DEF SaveFails, Throw
<1>12. CASE FinishTask
  BY <1>12 DEF FinishTask, CleanupDone, Add
<1>13. CASE FinishTaskFails
  BY <1>13 DEF FinishTaskFails, CleanupFailed, Throw
<1>14. CASE Unwind
  BY <1>14 DEF Unwind, CleanupDone, CleanupFailed, AfterUnwind, Add
<1>15. CASE EndBatch
  BY <1>15 DEF EndBatch
<1>16. CASE SaveSummary
  BY <1>16 DEF SaveSummary
<1>17. CASE SaveSummaryFails
  BY <1>17 DEF SaveSummaryFails
<1>18. CASE UNCHANGED vars
  BY <1>18 DEF vars
<1> QED
  BY <1>1, <1>2, <1>3, <1>4, <1>5, <1>6, <1>7, <1>8, <1>9, <1>10, <1>11, <1>12, <1>13, <1>14, <1>15, <1>16, <1>17, <1>18 DEF Next, HarnessStep, Terminated

LEMMA ResetStep ==
  ASSUME owner \in [Paths -> 0..Earlier], PhaseInv, ResetInv, [Next]_vars
  PROVE  ResetInv'
<1> USE DEF ResetInv, ToRemove, Removed, taskVars, batchVars, outside
<1>1. CASE StartTask
  BY <1>1 DEF StartTask, Add
<1>2. CASE Setup
  <2>1. phase = "setup" /\ owner' = Removed(ToRemove, Paths) /\ phase' = "configure" /\ env' = env
        /\ cur' = cur
    BY <1>2 DEF Setup
  <2>2. \A p \in ToRemove : p \in Paths => owner'[p] = 0
    BY <2>1 DEF Removed
  <2>3. ToRemove \subseteq Paths /\ ToRemove' = ToRemove
    BY <2>1, BatchAssumption DEF ToRemove
  <2> QED
    BY <2>1, <2>2, <2>3 DEF ResetInv
<1>3. CASE SetupFails
  BY <1>3 DEF SetupFails, Throw
<1>4. CASE Configure
  BY <1>4 DEF Configure
<1>5. CASE AgentStep
  <2>1. phase = "run" /\ cur' = cur /\ env' = env /\ phase' = phase
    BY <1>5 DEF AgentStep
  <2>2. PICK W \in SUBSET Paths : owner' = [p \in Paths |-> IF p \in W THEN cur ELSE owner[p]]
    BY <1>5 DEF AgentStep
  <2>3. ToRemove \subseteq Paths /\ ToRemove' = ToRemove
    BY <2>1, BatchAssumption DEF ToRemove
  <2>4. \A p \in ToRemove : owner[p] \in {0, cur}
    BY <2>1 DEF ResetInv
  <2>5. \A p \in ToRemove : owner'[p] \in {0, cur}
    BY <2>2, <2>3, <2>4
  <2> QED
    BY <2>1, <2>3, <2>5 DEF ResetInv
<1>6. CASE AgentEnds
  BY <1>6 DEF AgentEnds
<1>7. CASE AgentThrows
  BY <1>7 DEF AgentThrows, Throw
<1>8. CASE Evaluate
  BY <1>8 DEF Evaluate
<1>9. CASE EvaluateThrows
  BY <1>9 DEF EvaluateThrows, Throw
<1>10. CASE Save
  BY <1>10 DEF Save
<1>11. CASE SaveFails
  BY <1>11 DEF SaveFails, Throw
<1>12. CASE FinishTask
  BY <1>12 DEF FinishTask, CleanupDone, Add
<1>13. CASE FinishTaskFails
  BY <1>13 DEF FinishTaskFails, CleanupFailed, Throw
<1>14. CASE Unwind
  BY <1>14 DEF Unwind, CleanupDone, CleanupFailed, AfterUnwind, Add
<1>15. CASE EndBatch
  BY <1>15 DEF EndBatch
<1>16. CASE SaveSummary
  BY <1>16 DEF SaveSummary
<1>17. CASE SaveSummaryFails
  BY <1>17 DEF SaveSummaryFails
<1>18. CASE UNCHANGED vars
  BY <1>18 DEF vars
<1> QED
  BY <1>1, <1>2, <1>3, <1>4, <1>5, <1>6, <1>7, <1>8, <1>9, <1>10, <1>11, <1>12, <1>13, <1>14, <1>15, <1>16, <1>17, <1>18 DEF Next, HarnessStep, Terminated

(* Every passed result keeps its evidence, or a later task of the same id    *)
(* has replaced it.                                                          *)
Evidence(n, r, fs, c) ==
  /\ r.agentSuccess
  /\ \/ fs[r.id].kind \in Accepted /\ fs[r.id].task = n /\ fs[r.id].passed
     \/ \E m \in (n + 1)..c : Task(m).id = r.id

LEMMA FilesChange ==
  ASSUME files \in [Ids -> FileType], PhaseInv, [Next]_vars
  PROVE  \/ files' = files
         \/ /\ phase = "save" /\ cur' = cur /\ cur \in TaskIndex
            /\ \E f \in {files'[Task(cur).id]} : files' = [files EXCEPT ![Task(cur).id] = f]
<1> USE DEF PhaseInv, taskVars, batchVars, outside
<1>1. CASE StartTask
  BY <1>1 DEF StartTask, Add
<1>2. CASE Setup
  BY <1>2 DEF Setup
<1>3. CASE SetupFails
  BY <1>3 DEF SetupFails, Throw
<1>4. CASE Configure
  BY <1>4 DEF Configure
<1>5. CASE AgentStep
  BY <1>5 DEF AgentStep
<1>6. CASE AgentEnds
  BY <1>6 DEF AgentEnds
<1>7. CASE AgentThrows
  BY <1>7 DEF AgentThrows, Throw
<1>8. CASE Evaluate
  BY <1>8 DEF Evaluate
<1>9. CASE EvaluateThrows
  BY <1>9 DEF EvaluateThrows, Throw
<1>10. CASE Save
  <2>1. cur \in TaskIndex /\ phase = "save" /\ cur' = cur
    BY <1>10 DEF Save, PhaseInv, InTask
  <2>2. PICK f : files' = [files EXCEPT ![Task(cur).id] = f]
    BY <1>10 DEF Save
  <2> QED
    BY <2>1, <2>2, TaskFields
<1>11. CASE SaveFails
  <2>1. cur \in TaskIndex /\ phase = "save" /\ cur' = cur
    BY <1>11 DEF SaveFails, PhaseInv, InTask
  <2>2. CASE files' = files
    BY <2>2
  <2>3. CASE files' = [files EXCEPT ![Task(cur).id] = BrokenFile]
    BY <2>1, <2>3, TaskFields
  <2> QED
    BY <1>11, <2>2, <2>3 DEF SaveFails
<1>12. CASE FinishTask
  BY <1>12 DEF FinishTask, CleanupDone, Add
<1>13. CASE FinishTaskFails
  BY <1>13 DEF FinishTaskFails, CleanupFailed, Throw
<1>14. CASE Unwind
  BY <1>14 DEF Unwind, CleanupDone, CleanupFailed, AfterUnwind, Add
<1>15. CASE EndBatch
  BY <1>15 DEF EndBatch
<1>16. CASE SaveSummary
  BY <1>16 DEF SaveSummary
<1>17. CASE SaveSummaryFails
  BY <1>17 DEF SaveSummaryFails
<1>18. CASE UNCHANGED vars
  BY <1>18 DEF vars
<1> QED
  BY <1>1, <1>2, <1>3, <1>4, <1>5, <1>6, <1>7, <1>8, <1>9, <1>10, <1>11, <1>12, <1>13, <1>14, <1>15, <1>16, <1>17, <1>18 DEF Next, HarnessStep, Terminated

LEMMA RecordedStep ==
  ASSUME TypeOK, PhaseInv, ResultsInv, FileInv, PassedIsRecorded, [Next]_vars
  PROVE  PassedIsRecorded'
<1>1. /\ results \in Seq(ResultType) /\ Len(results) \in Nat /\ DOMAIN results = 1..Len(results)
      /\ files \in [Ids -> FileType]
  <2>1. results \in Seq(ResultType) /\ files \in [Ids -> FileType]
    BY DEF TypeOK, ResultType, FileType
  <2> QED
    BY <2>1, LenProperties
<1>2. cur \in Nat /\ cur' \in Nat /\ cur <= cur'
  <2>1. cur \in Nat
    <3>1. cur \in 0..Len(Batch)
      BY DEF TypeOK
    <3> QED
      BY <3>1, BatchLength
  <2>2. cur' = cur \/ cur' = cur + 1
    BY Reports DEF Silent, Reported
  <2> QED
    BY <2>1, <2>2
<1>3. \A n \in DOMAIN results : results[n].passed => Evidence(n, results[n], files, cur)
  BY DEF PassedIsRecorded, Evidence
<1>4. SUFFICES \A n \in DOMAIN results' : results'[n].passed => Evidence(n, results'[n], files', cur')
  BY DEF PassedIsRecorded, Evidence
<1>5. ASSUME NEW n \in DOMAIN results, results[n].passed, results[n].id \in Ids,
             phase = "save" => Len(results) = cur - 1
      PROVE  Evidence(n, results[n], files', cur')
  <2>1. n \in Nat /\ n <= Len(results) /\ Evidence(n, results[n], files, cur)
    BY <1>1, <1>3, <1>5
  <2>2. \A m \in (n + 1)..cur : m \in (n + 1)..cur'
    BY <1>2, <2>1
  <2>3. CASE files' = files
    BY <2>1, <2>2, <2>3 DEF Evidence
  <2>4. CASE /\ phase = "save" /\ cur' = cur /\ cur \in TaskIndex
             /\ \E f \in {files'[Task(cur).id]} : files' = [files EXCEPT ![Task(cur).id] = f]
    <3>1. cur \in (n + 1)..cur'
      BY <1>1, <1>2, <1>5, <2>1, <2>4
    <3>2. CASE Task(cur).id = results[n].id
      BY <2>1, <3>1, <3>2 DEF Evidence
    <3>3. CASE Task(cur).id # results[n].id
      <4>1. files'[results[n].id] = files[results[n].id]
        BY <1>1, <1>5, <2>4, <3>3
      <4> QED
        BY <2>1, <2>2, <4>1 DEF Evidence
    <3> QED
      BY <3>2, <3>3
  <2> QED
    BY <1>1, <2>3, <2>4, FilesChange
<1>6. \A n \in DOMAIN results : results[n].id \in Ids
  <2>1. \A n \in DOMAIN results : results[n] \in ResultType
    BY <1>1, ElementOfSeq
  <2> QED
    BY <2>1 DEF ResultType
<1>7. phase = "save" => Len(results) = cur - 1
  BY DEF ResultsInv, InTask
<1>8. CASE Silent
  BY <1>5, <1>6, <1>7, <1>8 DEF Silent
<1>9. CASE \E r \in ResultType : Reported(r)
  <2>1. PICK r \in ResultType : Reported(r)
    BY <1>9
  <2>2. /\ DOMAIN results' = 1..(Len(results) + 1)
        /\ \A i \in 1..Len(results) : results'[i] = results[i]
        /\ results'[Len(results) + 1] = r
    BY <2>1, AddAppends DEF Reported
  <2>3. r.passed => Evidence(Len(results) + 1, r, files', cur')
    <3> SUFFICES ASSUME r.passed PROVE Evidence(Len(results) + 1, r, files', cur')
      OBVIOUS
    <3>1. /\ phase = "cleanup" /\ evaluation /\ r.agentSuccess = agent.success
          /\ cur' = cur /\ files' = files /\ r.id = Task(cur).id
      BY <2>1 DEF Reported
    <3>2. /\ agent.success
          /\ \E kind \in Accepted : files[r.id] = Saved(kind)
      BY <3>1 DEF FileInv
    <3>3. Len(results) + 1 = cur
      <4>1. Len(results) = cur - 1
        BY <3>1 DEF ResultsInv, InTask
      <4> QED
        BY <1>1, <1>2, <4>1
    <3> QED
      BY <3>1, <3>2, <3>3 DEF Evidence, Saved
  <2> QED
    <3> SUFFICES ASSUME NEW n \in 1..(Len(results) + 1), results'[n].passed
                 PROVE  Evidence(n, results'[n], files', cur')
      BY <2>2
    <3>1. CASE n \in 1..Len(results)
      BY <1>1, <1>5, <1>6, <1>7, <2>2, <3>1
    <3>2. CASE n = Len(results) + 1
      BY <2>2, <2>3, <3>2
    <3> QED
      BY <1>1, <3>1, <3>2
<1> QED
  BY <1>8, <1>9, Reports
-----------------------------------------------------------------------------
(* HarnessInv is inductive.                                                  *)
LEMMA Preserved ==
  ASSUME HarnessInv, [Next]_vars
  PROVE  HarnessInv'
<1> USE DEF HarnessInv
<1>1. TypeOK' /\ PhaseInv' /\ HookInv'
  <2>1. cur \in 0..Len(Batch)
    BY DEF TypeOK
  <2> QED
    BY <2>1, TypeStep, PhaseStep, HookStep
<1>2. ResultsInv' /\ CountInv' /\ PassedIsRecorded'
  BY ResultsStep, CountStep, RecordedStep
<1>3. FileInv' /\ CleanInv' /\ ResetInv'
  <2>1. /\ files \in [Ids -> FileType] /\ cur \in 0..Len(Batch) /\ ready \in BOOLEAN
        /\ env \in {"native", "sandbox"} /\ owner \in [Paths -> 0..Earlier]
    BY DEF TypeOK, FileType
  <2> QED
    BY <2>1, FileStep, CleanStep, ResetStep
<1> QED
  BY <1>1, <1>2, <1>3

(* The invariant, of every batch: types, the phases of a task, the hook, the *)
(* results, the files and the workspace.                                     *)
THEOREM HarnessInvariance == Spec => []HarnessInv
<1>1. Init => HarnessInv
  BY Initially
<1>2. HarnessInv /\ [Next]_vars => HarnessInv'
  BY Preserved
<1> QED
  BY <1>1, <1>2, PTL DEF Spec

(* The AgentLoop never keeps a hook into the stack of a runTask that is over *)
(* (harness_runner.cpp:135-143 and 175-180), whatever was thrown.            *)
THEOREM HookCleared == Spec => []HookNeverDangles
<1>1. HarnessInv => HookNeverDangles
  BY DEF HarnessInv, HookInv, HookNeverDangles
<1> QED
  BY <1>1, HarnessInvariance, PTL

(* runBatch reports each task once, in order, and counts the passed ones     *)
(* right (harness_runner.cpp:21-26 and 65-97).                               *)
THEOREM ResultsComplete == Spec => []ResultsAccount
<1>1. ASSUME HarnessInv PROVE ResultsAccount
  <2>1. DOMAIN results = 1..Len(results)
    <3>1. results \in Seq(ResultType)
      BY <1>1 DEF HarnessInv, TypeOK, ResultType
    <3> QED
      BY <3>1, LenProperties
  <2>2. phase \in Accounted => DOMAIN results = 1..cur
    BY <1>1, <2>1 DEF HarnessInv, ResultsInv
  <2>3. \A n \in DOMAIN results : results[n].id = Task(n).id
    BY <1>1 DEF HarnessInv, ResultsInv
  <2>4. phase \in Accounted =>
          [n \in DOMAIN results |-> results[n].id] = [n \in 1..cur |-> Task(n).id]
    BY <2>2, <2>3
  <2> QED
    BY <1>1, <2>4 DEF ResultsAccount, HarnessInv, CountInv, Accounted
<1> QED
  BY <1>1, HarnessInvariance, PTL

(* A pass is never reported unless its agent succeeded and its trajectory was  *)
(* saved without an error that save() could see (harness_runner.cpp:146-173).  *)
THEOREM PassRecorded == Spec => []PassedIsRecorded
<1>1. HarnessInv => PassedIsRecorded
  BY DEF HarnessInv
<1> QED
  BY <1>1, HarnessInvariance, PTL

(* A sandbox that could be removed holds nothing between two tasks           *)
(* (sandbox_environment.cpp), also after an exception.                       *)
THEOREM SandboxClean == Spec => []NoArtifactLeaks
<1>1. HarnessInv => NoArtifactLeaks
  BY DEF HarnessInv, CleanInv, Clean, NoArtifactLeaks
<1> QED
  BY <1>1, HarnessInvariance, PTL

(* A functional task passes on a reset path for its own file only            *)
(* (native_environment.cpp with harness_runner.cpp:146-153).                 *)
THEOREM FreshArtifact == Spec => NoPassOnStaleArtifact
<1> DEFINE Fresh == phase = "evaluate" /\ phase' = "save" /\ evaluation'
                      /\ Task(cur).eval = "functional" /\ Task(cur).artifact \in ToRemove
                    => owner[Task(cur).artifact] = cur
<1>1. ASSUME HarnessInv, [Next]_vars PROVE [Fresh]_vars
  <2> SUFFICES ASSUME phase = "evaluate", phase' = "save", evaluation',
                      Task(cur).eval = "functional", Task(cur).artifact \in ToRemove
               PROVE  owner[Task(cur).artifact] = cur
    OBVIOUS
  <2>1. Evaluate
    BY <1>1 DEF Next, HarnessStep, Terminated, Ended, vars, StartTask, Setup, SetupFails, Configure,
       AgentStep, AgentEnds, AgentThrows, EvaluateThrows, Throw, Save, SaveFails, FinishTask,
       FinishTaskFails, Unwind, AfterUnwind, EndBatch, SaveSummary, SaveSummaryFails
  <2>2. owner[Task(cur).artifact] # 0
    BY <2>1 DEF Evaluate
  <2>3. owner[Task(cur).artifact] \in {0, cur}
    BY <1>1 DEF HarnessInv, ResetInv
  <2> QED
    BY <2>2, <2>3
<1>2. HarnessInv /\ [Next]_vars => [Fresh]_vars
  BY <1>1
<1> QED
  BY <1>2, HarnessInvariance, PTL DEF Spec, NoPassOnStaleArtifact

=============================================================================
