--------------------------- MODULE MCHarnessRunner --------------------------
(* Four tasks: an invalid one, one that leaves files behind, a functional   *)
(* one that must not profit from them, and one of an unknown type; ids are  *)
(* repeated.                                                                *)
EXTENDS HarnessRunner

MCPaths == {"result.txt", "notes.txt"}
MCResetPaths == {"result.txt"}
MCIds == {"task_1", "task_2"}

MCTask(id, type, maxSteps) ==
  [id |-> id, valid |-> TRUE, maxSteps |-> maxSteps, eval |-> type,
   artifact |-> "result.txt"]

MCBatch == <<[MCTask("task_2", "keyword", 1) EXCEPT !.valid = FALSE],
             MCTask("task_1", "keyword", 2), MCTask("task_2", "functional", 1),
             MCTask("task_1", "unregistered", 1)>>

(* What benchmark/run_eval.cpp validates: distinct ids, known types.        *)
MCBenchmark == <<MCTask("task_1", "keyword", 1), MCTask("task_2", "functional", 1)>>
=============================================================================
