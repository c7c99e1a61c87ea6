---------------------------- MODULE MCAgentLoop -----------------------------
(***************************************************************************)
(* AgentLoop, and what it works with below it: its loop detector, the        *)
(* registry its tools come from and a tool that runs commands.  Below it,    *)
(* each is examined on its own, beyond what the runs of one loop do to it:   *)
(* the one in focus moves in a behaviour and the others stay as they are.    *)
(***************************************************************************)
EXTENDS AgentLoop

(* A 4-bit token counter stands for int64_t: its ends, and counts below, at, *)
(* above zero and at the top of the range.                                   *)
MCMinCount == -8
MCMaxCount == 7
MCTokenCounts == {-1, 0, 3, 7}

CONSTANTS
  Observable, MaxObserved,                   \* the detector's signatures; bound: its calls
  Names, Factories, Empty, None,             \* of the tool registry
  MaxRegistryCalls                           \* bound: the calls that change it

(* None stands for the lack of a factory.                                    *)
ASSUME RegistryAssumption == None \notin Factories

VARIABLES
  focus,                                                       \* what moves
  window, verdict, calls,                                      \* Detector
  entries, allow_list, deny_list, offered, ran, log,           \* Registry
  pc, line, started, todo, running, shell, pipe, output,       \* Exec
  execResult, piped

(* The bounds: nine calls evict three entries of the window; three calls     *)
(* change the registry; two commands and a pipe for one text, so that a      *)
(* command may find it full.                                                 *)
Detector == INSTANCE LoopDetectorRuns WITH
  Signatures <- Observable, history <- window, MaxCalls <- MaxObserved
Registry == INSTANCE ToolRegistry WITH MaxCalls <- MaxRegistryCalls
Exec == INSTANCE ExecTool WITH result <- execResult, MaxCommands <- 2, Capacity <- 1

detectorVars == <<window, verdict, calls>>
registryVars == <<entries, allow_list, deny_list, offered, ran, log>>
execVars == <<pc, line, started, todo, running, shell, pipe, output, execResult, piped>>
MCVars == <<focus, vars, detectorVars, registryVars, execVars>>

(* The loop is followed twice: over all its replies without counting tokens, *)
(* and over all counts of tokens with one action and three steps a run.      *)
TokenSteps == 3
TokenAction == CHOOSE s \in Signatures : TRUE
Uncounted == spent' = 0
Counted == maxSteps' = TokenSteps /\ step'.signature \in {TokenAction, NoSignature}

MCInit ==
  /\ focus \in {"loop", "tokens", "detector", "registry", "exec"}
  /\ Init
  /\ focus # "loop" => maxSteps = TokenSteps
  /\ Detector!Init /\ Registry!Init
  /\ IF focus = "exec" THEN Exec!Init
     ELSE /\ pc = "done" /\ line = <<>> /\ started = 0 /\ todo = <<>> /\ running = {}
          /\ shell = FALSE /\ pipe = <<>> /\ output = <<>> /\ execResult = "none"
          /\ piped = <<>>

(* Everything but what is in focus stays.                                    *)
Focus(component) ==
  /\ focus = component
  /\ focus' = focus
  /\ IF focus \in {"loop", "tokens"} THEN TRUE ELSE UNCHANGED vars
  /\ IF focus = "detector" THEN TRUE ELSE UNCHANGED detectorVars
  /\ IF focus = "registry" THEN TRUE ELSE UNCHANGED registryVars
  /\ IF focus = "exec" THEN TRUE ELSE UNCHANGED execVars

MCNext ==
  \/ Focus("loop") /\ Next /\ Uncounted
  \/ Focus("tokens") /\ Next /\ Counted
  \/ Focus("detector") /\ Detector!Next
  \/ Focus("registry") /\ Registry!Next
  \/ Focus("exec") /\ Exec!Next

(* What is out of focus has nothing to do, so that its fairness asks nothing.*)
MCSpec == MCInit /\ [][MCNext]_MCVars /\ WF_vars(RunStep) /\ Exec!Fairness

-----------------------------------------------------------------------------
(* The verdicts of observe(), drawn from a bounded window, are those of the  *)
(* whole sequence of calls since reset() (LoopDetectorRuns).                 *)
VerdictFitsCalls == Detector!VerdictFitsCalls
(* The tools offered and the tool executed are those that the latest calls   *)
(* of the registry decide (ToolRegistry).                                    *)
LatestCallsDecide == Registry!LatestCallsDecide
(* A command line whose commands end makes exec return, with all they wrote  *)
(* to the pipe (ExecTool).                                                   *)
ReturnsWithOutput == Exec!ReturnsWithOutput
=============================================================================
