--------------------------- MODULE HarnessRunner ----------------------------
(***************************************************************************)
(* harness/harness_runner.cpp: HarnessRunner::runBatch and runTask, with    *)
(* the environment they set up and clean up, the step hook they lend to the *)
(* AgentLoop, the trajectory they save and the summary they write.          *)
(*                                                                          *)
(* AgentLoop::run is seen from outside: it hands steps to the hook, creates *)
(* files in the workspace and ends with a result or an exception.  Files    *)
(* are reduced to who wrote them; texts to whether dump() can encode them   *)
(* (an HTTP error body in an agent's error message may not be UTF-8).  A    *)
(* save asks good() before anything is flushed: what it left in the         *)
(* stream's buffer reaches the disk in the destructor or, unseen, does not. *)
(***************************************************************************)
EXTENDS Integers, Sequences, FiniteSets

CONSTANTS
  Batch,        \* the tasks, a sequence of records (harness/benchmark_task.h)
  Paths,        \* files the agent may create in the workspace
  ResetPaths,   \* NativeEnvironment's reset_paths
  Ids,          \* task ids
  MaxLimit      \* config_.max_steps of the AgentLoop before the first task

TaskIndex == 1..Len(Batch)
Task(n) == Batch[n]

ASSUME BatchAssumption ==
  /\ Batch \in Seq([id : Ids, valid : BOOLEAN, maxSteps : Nat,
                     eval : {"functional", "keyword", "unregistered"}, artifact : Paths])
  /\ ResetPaths \subseteq Paths
  /\ MaxLimit \in Nat

(* Owners of files: 0 for none, Earlier for what an earlier program left.   *)
Earlier == Len(Batch) + 1

VARIABLES
  phase,        \* where runBatch is
  cur,          \* index of the current task, 0 before the first
  env,          \* "native" or "sandbox" (remove_on_cleanup)
  ready,        \* environment_ready
  owner,        \* owner[p]: the task whose agent wrote p last
  hook,         \* the task whose trajectory step_hook_ refers to, 0 if none
  limit,        \* config_.max_steps of the AgentLoop
  steps,        \* steps in the current task's trajectory
  agent,        \* agent_result
  evaluation,         \* evaluation.passed
  thrown,       \* the exception being handled: "", "std" or "other"
  files,        \* files[id]: trajectory_<id>.json
  results,      \* BatchResult::results_
  passed,       \* BatchResult::passed_tasks_
  summary,      \* benchmark_summary.json
  dirty         \* history: the last remove_all of this environment failed

taskVars == <<ready, hook, limit, steps, agent, evaluation>>
batchVars == <<cur, results, passed>>
outside == <<owner, files, summary, dirty>>
vars == <<phase, env, thrown, taskVars, batchVars, outside>>

NoAgentResult == [success |-> FALSE, text |-> TRUE]
NoFile == [kind |-> "none", task |-> 0, passed |-> FALSE, steps |-> 0]
BrokenFile == [kind |-> "broken", task |-> 0, passed |-> FALSE, steps |-> 0]
OldFile(p) == [kind |-> "whole", task |-> Earlier, passed |-> p, steps |-> 0]

(* What is on the disk of a text that good() was true of: a part of it, or  *)
(* nothing, when the last of it could not be written.                       *)
Accepted == {"whole", "cut"}

TypeOK ==
  /\ phase \in {"next", "setup", "configure", "run", "evaluate", "save", "cleanup",
                "unwind", "summary", "returned", "thrown"}
  /\ cur \in 0..Len(Batch)
  /\ env \in {"native", "sandbox"}
  /\ ready \in BOOLEAN
  /\ owner \in [Paths -> 0..Earlier]
  /\ hook \in 0..Len(Batch)
  /\ limit \in Nat /\ steps \in Nat
  /\ agent \in [success : BOOLEAN, text : BOOLEAN]
  /\ evaluation \in BOOLEAN
  /\ thrown \in {"", "std", "other"}
  /\ files \in [Ids -> [kind : {"none", "broken"} \cup Accepted, task : 0..Earlier,
                        passed : BOOLEAN, steps : Nat]]
  /\ results \in Seq([id : Ids, passed : BOOLEAN, agentSuccess : BOOLEAN, text : BOOLEAN])
  /\ passed \in Nat
  /\ summary \in {"old", "broken"} \cup Accepted
  /\ dirty \in BOOLEAN

Init ==
  /\ phase = "next" /\ cur = 0
  /\ env \in {"native", "sandbox"}
  /\ ready = FALSE
  /\ owner \in [Paths -> {0, Earlier}]
  /\ hook = 0 /\ limit = MaxLimit /\ steps = 0
  /\ agent = NoAgentResult /\ evaluation = FALSE /\ thrown = ""
  /\ \E f \in {NoFile, OldFile(TRUE)} : files = [id \in Ids |-> f]
  /\ results = <<>> /\ passed = 0
  /\ summary = "old"
  /\ dirty = FALSE

-----------------------------------------------------------------------------
(* BatchResult::add (lines 21-26)                                           *)
Add(result) ==
  /\ results' = Append(results, result)
  /\ passed' = IF result.passed THEN passed + 1 ELSE passed

ErrorResult(n) ==
  [id |-> Task(n).id, passed |-> FALSE, agentSuccess |-> FALSE, text |-> TRUE]

(* An exception leaves the try block of runTask.                            *)
Throw(kind) == phase' = "unwind" /\ thrown' = kind

(* runTask's validation is outside its try block: nothing to undo.          *)
StartTask ==
  /\ phase = "next"
  /\ cur < Len(Batch)
  /\ cur' = cur + 1
  /\ ready' = FALSE /\ steps' = 0
  /\ agent' = NoAgentResult /\ evaluation' = FALSE
  /\ UNCHANGED <<env, hook, limit, thrown, outside>>
  /\ IF Task(cur').valid
       THEN phase' = "setup" /\ UNCHANGED <<results, passed>>
       ELSE phase' = "next" /\ Add(ErrorResult(cur'))

-----------------------------------------------------------------------------
(* Environment::setup and cleanup.  remove_all may fail half way.           *)

Removed(S, P) == [p \in Paths |-> IF p \in P /\ p \in S THEN 0 ELSE owner[p]]

(* A native workspace is created, never emptied: a stale workspace.         *)
SetupWithoutReset ==
  /\ phase = "setup"
  /\ ready' = TRUE
  /\ phase' = "configure"
  /\ dirty' = FALSE
  /\ owner' = owner
  /\ UNCHANGED <<env, thrown, batchVars, hook, limit, steps, agent, evaluation,
                 files, summary>>

ToRemove == IF env = "sandbox" THEN Paths ELSE ResetPaths

Setup ==
  /\ phase = "setup"
  /\ owner' = Removed(ToRemove, Paths)
  /\ ready' = TRUE
  /\ phase' = "configure"
  /\ dirty' = FALSE
  /\ UNCHANGED <<env, thrown, batchVars, hook, limit, steps, agent, evaluation,
                 files, summary>>

(* Removing fails half way, or creating the directories does after all was  *)
(* removed: environment_ready stays false.                                  *)
SetupFails ==
  /\ phase = "setup"
  /\ \/ dirty' = TRUE /\ \E P \in SUBSET Paths : owner' = Removed(ToRemove, P)
     \/ dirty' = FALSE /\ env = "sandbox" /\ owner' = Removed(Paths, Paths)
  /\ Throw("std")
  /\ UNCHANGED <<env, taskVars, batchVars, files, summary>>

(* setMaxSteps(task.max_steps), setStepHook([&trajectory] ...)              *)
Configure ==
  /\ phase = "configure"
  /\ limit' = Task(cur).maxSteps
  /\ hook' = cur
  /\ phase' = "run"
  /\ UNCHANGED <<env, thrown, batchVars, ready, steps, agent, evaluation, outside>>

-----------------------------------------------------------------------------
(* AgentLoop::run, from outside.                                            *)

(* A step: tools may write files, and the hook records it.                  *)
AgentStep ==
  /\ phase = "run"
  /\ steps < limit
  /\ \E W \in SUBSET Paths :
       owner' = [p \in Paths |-> IF p \in W THEN cur ELSE owner[p]]
  /\ steps' = IF hook = cur THEN steps + 1 ELSE steps
  /\ UNCHANGED <<phase, env, thrown, batchVars, ready, hook, limit, agent, evaluation,
                 files, summary, dirty>>

AgentEndsKeepingHook ==      \* setStepHook({}) only in the catch block
  /\ phase = "run"
  /\ agent' \in {r \in [success : BOOLEAN, text : BOOLEAN] : r.success => r.text}
  /\ phase' = "evaluate"
  /\ UNCHANGED <<env, thrown, batchVars, ready, hook, limit, steps, evaluation,
                 outside>>

(* run() returns: only an error message may hold text that is not UTF-8.    *)
AgentEnds ==
  /\ phase = "run"
  /\ agent' \in {r \in [success : BOOLEAN, text : BOOLEAN] : r.success => r.text}
  /\ hook' = 0
  /\ phase' = "evaluate"
  /\ UNCHANGED <<env, thrown, batchVars, ready, limit, steps, evaluation, outside>>

AgentThrows ==
  /\ phase = "run"
  /\ \E kind \in {"std", "other"} : Throw(kind)
  /\ UNCHANGED <<env, taskVars, batchVars, outside>>

-----------------------------------------------------------------------------
(* Lines 146-158.  A functional check looks for its artifact; another       *)
(* evaluator may say anything; findEvaluator throws for an unknown type.    *)
Evaluate ==
  /\ phase = "evaluate"
  /\ IF agent.success
       THEN /\ Task(cur).eval # "unregistered"
            /\ evaluation' \in BOOLEAN
            /\ Task(cur).eval = "functional" => evaluation' = (owner[Task(cur).artifact] # 0)
       ELSE evaluation' = FALSE
  /\ phase' = "save"
  /\ UNCHANGED <<env, thrown, batchVars, ready, hook, limit, steps, agent,
                 outside>>

EvaluateThrows ==
  /\ phase = "evaluate"
  /\ agent.success
  /\ Throw("std")
  /\ UNCHANGED <<env, taskVars, batchVars, outside>>

-----------------------------------------------------------------------------
(* TrajectoryRecorder::save: the file is opened (and truncated) before the  *)
(* trajectory is serialised, and dump() throws on text it cannot encode.    *)
(* A full disk shows in good(), or in the destructor and to nobody.         *)

Saved(kind) == [kind |-> kind, task |-> cur, passed |-> evaluation, steps |-> steps]

Save ==
  /\ phase = "save"
  /\ agent.text
  /\ \E kind \in Accepted : files' = [files EXCEPT ![Task(cur).id] = Saved(kind)]
  /\ phase' = "cleanup"
  /\ UNCHANGED <<env, thrown, taskVars, batchVars, owner, summary, dirty>>

(* The file cannot be opened, the text not encoded, or good() is false.     *)
SaveFails ==
  /\ phase = "save"
  /\ \/ files' = files
     \/ files' = [files EXCEPT ![Task(cur).id] = BrokenFile]
  /\ Throw("std")
  /\ UNCHANGED <<env, taskVars, batchVars, owner, summary, dirty>>

-----------------------------------------------------------------------------
(* environment_.cleanup(): nothing for a native workspace.                  *)
CleanupDone ==
  /\ IF env = "sandbox"
       THEN owner' = Removed(Paths, Paths) /\ dirty' = FALSE
       ELSE UNCHANGED <<owner, dirty>>

CleanupFailed ==
  /\ env = "sandbox"
  /\ \E P \in SUBSET Paths : owner' = Removed(Paths, P)
  /\ dirty' = TRUE

FinishTaskByAgent ==       \* the agent's own success taken for the evaluation
  /\ phase = "cleanup"
  /\ CleanupDone
  /\ ready' = FALSE
  /\ Add([id |-> Task(cur).id, passed |-> agent.success,
          agentSuccess |-> agent.success, text |-> agent.text])
  /\ phase' = "next"
  /\ UNCHANGED <<env, thrown, cur, hook, limit, steps, agent, evaluation, files, summary>>

(* runTask returns its TaskResult and runBatch adds it.                     *)
FinishTask ==
  /\ phase = "cleanup"
  /\ CleanupDone
  /\ ready' = FALSE
  /\ Add([id |-> Task(cur).id, passed |-> evaluation, agentSuccess |-> agent.success,
          text |-> agent.text])
  /\ phase' = "next"
  /\ UNCHANGED <<env, thrown, cur, hook, limit, steps, agent, evaluation, files, summary>>

FinishTaskFails ==
  /\ phase = "cleanup"
  /\ CleanupFailed
  /\ Throw("std")
  /\ UNCHANGED <<env, batchVars, ready, hook, limit, steps, agent, evaluation, files, summary>>

-----------------------------------------------------------------------------
(* The catch block of runTask (lines 175-185), then that of runBatch: a     *)
(* std::exception becomes a failed result, anything else ends the batch.    *)
AfterUnwind ==
  /\ thrown' = ""
  /\ IF thrown = "std"
       THEN phase' = "next" /\ Add(ErrorResult(cur))
       ELSE phase' = "thrown" /\ UNCHANGED <<results, passed>>

UnwindUncleaned ==         \* a catch block that only clears the hook
  /\ phase = "unwind"
  /\ hook' = 0
  /\ AfterUnwind
  /\ UNCHANGED <<env, cur, ready, limit, steps, agent, evaluation, outside>>

UnwindUnadded ==           \* an exception swallowed: no result for the task
  /\ phase = "unwind"
  /\ hook' = 0
  /\ IF ready THEN CleanupDone \/ CleanupFailed ELSE UNCHANGED <<owner, dirty>>
  /\ thrown' = ""
  /\ phase' = IF thrown = "std" THEN "next" ELSE "thrown"
  /\ UNCHANGED <<env, batchVars, ready, limit, steps, agent, evaluation, files, summary>>

Unwind ==
  /\ phase = "unwind"
  /\ hook' = 0
  /\ IF ready THEN CleanupDone \/ CleanupFailed ELSE UNCHANGED <<owner, dirty>>
  /\ AfterUnwind
  /\ UNCHANGED <<env, cur, ready, limit, steps, agent, evaluation, files, summary>>

-----------------------------------------------------------------------------
(* runBatch after the last task, and saveBatchResult.                       *)
EndBatch ==
  /\ phase = "next"
  /\ cur = Len(Batch)
  /\ phase' = "summary"
  /\ UNCHANGED <<env, thrown, taskVars, batchVars, outside>>

SaveSummary ==
  /\ phase = "summary"
  /\ \A n \in DOMAIN results : results[n].text
  /\ summary' \in Accepted
  /\ phase' = "returned"
  /\ UNCHANGED <<env, thrown, taskVars, batchVars, owner, files, dirty>>

SaveSummaryFails ==
  /\ phase = "summary"
  /\ summary' \in {"old", "broken"}
  /\ phase' = "thrown"
  /\ UNCHANGED <<env, thrown, taskVars, batchVars, owner, files, dirty>>

-----------------------------------------------------------------------------
Ended == phase \in {"returned", "thrown"}
Terminated == Ended /\ UNCHANGED vars

HarnessStep ==
  \/ StartTask \/ Setup \/ SetupFails \/ Configure
  \/ AgentEnds \/ AgentThrows \/ Evaluate \/ EvaluateThrows \/ Save \/ SaveFails
  \/ FinishTask \/ FinishTaskFails \/ Unwind
  \/ EndBatch \/ SaveSummary \/ SaveSummaryFails

Next == HarnessStep \/ AgentStep \/ Terminated

Spec == Init /\ [][Next]_vars

-----------------------------------------------------------------------------
(* The hook refers to a trajectory on runTask's stack: between tasks, and   *)
(* whenever the batch is over, the AgentLoop holds no hook, however the     *)
(* task ended; in a task it is that task's own.                             *)
HookNeverDangles ==
  /\ phase \in {"next", "setup", "summary", "returned", "thrown"} => hook = 0
  /\ hook # 0 => hook = cur

(* Every task started has exactly one result, in batch order, and           *)
(* passed_tasks_ counts those that passed.                                  *)
ResultsAccount ==
  /\ phase \in {"next", "summary", "returned"} =>
       [n \in DOMAIN results |-> results[n].id] = [n \in 1..cur |-> Task(n).id]
  /\ passed = Cardinality({n \in DOMAIN results : results[n].passed})

(* A task reported as passed was evaluated: its agent succeeded, and unless *)
(* a later task of the same id replaced it, trajectory_<id>.json is the one *)
(* that task saved in this batch without an error, its verdict passed too.  *)
(* Whole it is not for certain: what the disk refused after good() was      *)
(* asked (trajectory_recorder.cpp:48) goes unnoticed, kind "cut".           *)
PassedIsRecorded ==
  \A n \in DOMAIN results :
    LET file == files[results[n].id] IN
    results[n].passed =>
      /\ results[n].agentSuccess
      /\ \/ file.kind \in Accepted /\ file.task = n /\ file.passed
         \/ \E m \in (n + 1)..cur : Task(m).id = results[n].id

(* A functional task never passes on a reset path for a file that another   *)
(* task or an earlier benchmark left there ("stale artifacts",              *)
(* benchmark/run_eval.cpp:183-184, environment.h:43-54).                    *)
NoPassOnStaleArtifact ==
  [][phase = "evaluate" /\ phase' = "save" /\ evaluation' /\ Task(cur).eval = "functional"
       /\ Task(cur).artifact \in ToRemove
     => owner[Task(cur).artifact] = cur]_vars

(* "cleanup can remove it so generated artifacts do not leak into the repo" *)
(* (sandbox_environment.h:12): between tasks and at the end, also after an  *)
(* exception, a sandbox holds no file a task of this batch wrote, unless    *)
(* removing it failed.                                                      *)
NoArtifactLeaks ==
  env = "sandbox" /\ phase \in {"next", "summary", "returned", "thrown"} /\ ~dirty =>
    \A p \in Paths : owner[p] \in {0, Earlier}

(* "The harness iterates through all 10 tasks, generates detailed per-task  *)
(* trajectories in .../trajectory_<task_id>.json" (README.md:225): a task   *)
(* whose agent took a step leaves its own trajectory file.                  *)
RunHasTrajectory ==
  [][phase \notin {"next", "summary"} /\ phase' = "next" /\ steps > 0 =>
       files'[Task(cur).id].kind = "whole" /\ files'[Task(cur).id].task = cur]_vars

=============================================================================
