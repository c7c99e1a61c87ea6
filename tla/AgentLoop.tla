----------------------------- MODULE AgentLoop ------------------------------
(***************************************************************************)
(* agent/agent_loop.cpp: AgentLoop::run, the Observe-Think-Act cycle, with  *)
(* its loop detector and its step hook.  The same object serves one run     *)
(* after another.                                                           *)
(*                                                                          *)
(* The LLM, the tools, the skill files and the hook are external: each call *)
(* of one is a choice among its outcomes, exceptions included.  A reply is  *)
(* reduced to what run() does with it: no valid action, a final answer, or  *)
(* a tool call with its signature.  Texts are left out.  Latency is added   *)
(* up exactly as tokens are and is left out too.                            *)
(***************************************************************************)
EXTENDS LoopDetector, Integers

CONSTANTS
  StepLimits,         \* the values given to setMaxSteps
  TokenCounts,        \* prompt_tokens and completion_tokens of a ChatResponse
  MinCount, MaxCount, \* numeric_limits<int64_t>::min() and max()
  BinaryOutput,       \* can a tool return text that is not valid UTF-8?
  NoSignature,        \* the action of a reply that is not a tool call
  MaxRuns             \* bound: runs of one AgentLoop

ASSUME LoopAssumption ==
  /\ StepLimits \subseteq Nat \ {0} /\ StepLimits # {}
  /\ MinCount \in Int /\ MaxCount \in Int /\ MinCount < 0 /\ MaxCount > 0
  /\ TokenCounts \subseteq MinCount..MaxCount
  /\ BinaryOutput \in BOOLEAN
  /\ NoSignature \notin Signatures
  /\ MaxRuns \in Nat

VARIABLES
  phase,          \* where run() is; "idle" outside run()
  maxSteps,       \* config_.max_steps
  hookSet,        \* step_hook_ is not empty
  stepId,         \* step_id of the current iteration
  step,           \* the AgentStep under construction: kind, signature, outcome
  conversation,   \* the roles of the messages sent to the LLM
  totalTokens,    \* total_tokens
  lastError,      \* last_error is not empty
  result,         \* what the latest run() returned, once it has
  runs,           \* how many runs were started
  executed,       \* history: signatures given to act() in this run
  delivered,      \* history: steps given to the hook in this run
  spent           \* history: tokens of every response in this run, exact

loopVars == <<stepId, step, conversation, totalTokens, lastError>>
traceVars == <<executed, delivered, spent>>
vars == <<history, phase, maxSteps, hookSet, loopVars, result, runs, traceVars>>

NoStep == [kind |-> "none", signature |-> NoSignature, ok |-> FALSE, text |-> TRUE]
NoResult == [status |-> "none", reason |-> "", steps |-> 0, tokens |-> 0,
             lastError |-> FALSE]

Kinds == {"invalid", "final", "call", "stopped"}
Reasons == {"", "blank task", "skills", "llm threw", "llm failed", "empty response",
            "hook", "loop", "max steps", "observe"}

TypeOK ==
  /\ history \in Seq(Signatures) /\ Len(history) <= MaxHistory
  /\ phase \in {"idle", "think", "dispatch", "act", "notify", "observe"}
  /\ maxSteps \in StepLimits
  /\ hookSet \in BOOLEAN
  /\ stepId \in Nat
  /\ step \in [kind : Kinds \cup {"none"}, signature : Signatures \cup {NoSignature},
               ok : BOOLEAN, text : BOOLEAN]
  /\ conversation \in Seq({"system", "user", "assistant"})
  /\ totalTokens \in 0..MaxCount
  /\ lastError \in BOOLEAN
  /\ result \in [status : {"none", "success", "failure", "threw"}, reason : Reasons,
                 steps : Nat, tokens : 0..MaxCount, lastError : BOOLEAN]
  /\ runs \in 0..MaxRuns
  /\ executed \in Seq(Signatures)
  /\ delivered \in Seq([id : Nat, kind : Kinds, signature : Signatures \cup {NoSignature}])
  /\ spent \in Nat

Init ==
  /\ DetectorInit
  /\ phase = "idle"
  /\ maxSteps \in StepLimits
  /\ hookSet = FALSE
  /\ stepId = 0 /\ step = NoStep /\ conversation = <<>>
  /\ totalTokens = 0 /\ lastError = FALSE
  /\ result = NoResult
  /\ runs = 0
  /\ executed = <<>> /\ delivered = <<>> /\ spent = 0

-----------------------------------------------------------------------------
(* Helpers                                                                  *)

WrappingAdd(left, right) ==   \* plain int64_t addition, were it to wrap
  LET sum == left + right IN
  IF sum > MaxCount THEN sum - (MaxCount - MinCount + 1) ELSE sum

(* saturatingAdd (lines 25-33): no intermediate value leaves the width.     *)
SaturatingAdd(left, right) ==
  IF right > 0 /\ left > MaxCount - right THEN MaxCount
  ELSE IF right < 0 /\ left < MinCount - right THEN MinCount
  ELSE left + right

NonNegative(n) == IF n < 0 THEN 0 ELSE n     \* std::max(0, n)

Return(status, reason, steps) ==
  /\ phase' = "idle"
  /\ result' = [status |-> status, reason |-> reason, steps |-> steps,
                tokens |-> totalTokens', lastError |-> FALSE]

(* The end of an iteration (lines 186, 323-330).                            *)
NextIteration ==
  IF stepId + 1 < maxSteps
    THEN /\ phase' = "think"
         /\ stepId' = stepId + 1
         /\ UNCHANGED result
    ELSE /\ phase' = "idle"
         /\ UNCHANGED stepId
         /\ result' = [status |-> "failure", reason |-> "max steps",
                       steps |-> maxSteps, tokens |-> totalTokens,
                       lastError |-> lastError]

-----------------------------------------------------------------------------
(* Between runs                                                             *)

SetStepHook ==
  /\ phase = "idle"
  /\ hookSet' \in BOOLEAN
  /\ UNCHANGED <<history, phase, maxSteps, loopVars, result, runs, traceVars>>

SetMaxSteps ==
  /\ phase = "idle"
  /\ maxSteps' \in StepLimits
  /\ UNCHANGED <<history, phase, hookSet, loopVars, result, runs, traceVars>>

BeginRun ==
  /\ phase = "idle"
  /\ runs < MaxRuns
  /\ runs' = runs + 1
  /\ executed' = <<>> /\ delivered' = <<>> /\ spent' = 0
  /\ UNCHANGED <<maxSteps, hookSet>>

(* A blank task is refused before the detector is reset.                    *)
RunBlankTask ==
  /\ BeginRun
  /\ totalTokens' = 0
  /\ Return("failure", "blank task", 0)
  /\ UNCHANGED <<history, stepId, step, conversation, lastError>>

(* Loading or selecting the skills fails.                                   *)
RunUnprepared ==
  /\ BeginRun
  /\ DetectorReset
  /\ totalTokens' = 0
  /\ Return("failure", "skills", 0)
  /\ UNCHANGED <<stepId, step, conversation, lastError>>

StartRun ==
  /\ BeginRun
  /\ DetectorReset
  /\ phase' = "think"
  /\ stepId' = 0 /\ step' = NoStep
  /\ conversation' = <<"system", "user">>
  /\ totalTokens' = 0 /\ lastError' = FALSE
  /\ result' = NoResult

-----------------------------------------------------------------------------
(* Think                                                                    *)

ThinkThrows ==
  /\ phase = "think"
  /\ UNCHANGED <<history, maxSteps, hookSet, loopVars, runs, traceVars>>
  /\ Return("failure", "llm threw", stepId + 1)

(* A version that counts the clamped sum but forgets to saturate the total. *)
CountTokensWrapping ==
  \E prompt, completion \in TokenCounts :
    /\ totalTokens' = WrappingAdd(totalTokens,
         SaturatingAdd(NonNegative(prompt), NonNegative(completion)))
    /\ spent' = spent + NonNegative(prompt) + NonNegative(completion)

(* Lines 201-206: counted for failed responses too.                         *)
CountTokens ==
  \E prompt, completion \in TokenCounts :
    /\ totalTokens' = SaturatingAdd(totalTokens,
         SaturatingAdd(NonNegative(prompt), NonNegative(completion)))
    /\ spent' = spent + NonNegative(prompt) + NonNegative(completion)

ThinkFails ==
  /\ phase = "think"
  /\ CountTokens
  /\ \E reason \in {"llm failed", "empty response"} :
       Return("failure", reason, stepId + 1)
  /\ UNCHANGED <<history, maxSteps, hookSet, stepId, step, conversation, lastError,
                 runs, executed, delivered>>

(* The reply joins the conversation and is parsed.                          *)
ThinkReplies ==
  /\ phase = "think"
  /\ CountTokens
  /\ conversation' = Append(conversation, "assistant")
  /\ \/ \E kind \in {"invalid", "final"} : step' = [NoStep EXCEPT !.kind = kind]
     \/ \E s \in Signatures : step' = [NoStep EXCEPT !.kind = "call", !.signature = s]
  /\ phase' = "dispatch"
  /\ UNCHANGED <<history, maxSteps, hookSet, stepId, lastError, result, runs,
                 executed, delivered>>

-----------------------------------------------------------------------------
(* Decide what to do with the reply.  Only tool calls reach the detector.   *)

(* A version that asks again at once, without counting a step.              *)
DispatchInvalidRetried ==
  /\ phase = "dispatch"
  /\ step.kind = "invalid"
  /\ conversation' = SubSeq(conversation, 1, Len(conversation) - 1)
  /\ phase' = "think"
  /\ UNCHANGED <<history, maxSteps, hookSet, stepId, step, totalTokens, lastError,
                 result, runs, traceVars>>

DispatchInvalid ==
  /\ phase = "dispatch"
  /\ step.kind = "invalid"
  /\ lastError' = TRUE
  /\ phase' = "notify"
  /\ UNCHANGED <<history, maxSteps, hookSet, stepId, step, conversation, totalTokens,
                 result, runs, traceVars>>

DispatchFinal ==
  /\ phase = "dispatch"
  /\ step.kind = "final"
  /\ step' = [step EXCEPT !.ok = TRUE]
  /\ phase' = "notify"
  /\ UNCHANGED <<history, maxSteps, hookSet, stepId, conversation, totalTokens,
                 lastError, result, runs, traceVars>>

DispatchCall ==
  /\ phase = "dispatch"
  /\ step.kind = "call"
  /\ Observed(step.signature)
  /\ IF Verdict(history').severity = "critical"
       THEN step' = [step EXCEPT !.kind = "stopped"] /\ phase' = "notify"
       ELSE step' = step /\ phase' = "act"
  /\ UNCHANGED <<maxSteps, hookSet, stepId, conversation, totalTokens, lastError,
                 result, runs, traceVars>>

(* act(): the tool succeeds, fails, or throws (which is a failure).         *)
ActKeepingError ==      \* last_error not cleared by a success
  /\ phase = "act"
  /\ \E ok \in BOOLEAN, text \in {TRUE, ~BinaryOutput} :
       /\ step' = [step EXCEPT !.ok = ok, !.text = text]
       /\ lastError' = (lastError \/ ~ok)
  /\ executed' = Append(executed, step.signature)
  /\ phase' = "notify"
  /\ UNCHANGED <<history, maxSteps, hookSet, stepId, conversation, totalTokens,
                 result, runs, delivered, spent>>

Act ==
  /\ phase = "act"
  /\ \E ok \in BOOLEAN, text \in {TRUE, ~BinaryOutput} :
       /\ step' = [step EXCEPT !.ok = ok, !.text = text]
       /\ lastError' = ~ok
  /\ executed' = Append(executed, step.signature)
  /\ phase' = "notify"
  /\ UNCHANGED <<history, maxSteps, hookSet, stepId, conversation, totalTokens,
                 result, runs, delivered, spent>>

-----------------------------------------------------------------------------
(* notifyStep, and what follows it for each kind of step                    *)

Deliver ==
  delivered' = IF hookSet
                 THEN Append(delivered, [id |-> stepId, kind |-> step.kind,
                                         signature |-> step.signature])
                 ELSE delivered

NotifyFails ==
  /\ phase = "notify" /\ hookSet
  /\ Deliver
  /\ UNCHANGED <<history, maxSteps, hookSet, loopVars, runs, executed, spent>>
  /\ Return("failure", "hook", stepId + 1)

(* Versions that skip the hook, or the correction, after an invalid reply.  *)
NotifyInvalidUnhooked ==
  /\ phase = "notify" /\ step.kind = "invalid"
  /\ conversation' = Append(conversation, "user")
  /\ NextIteration
  /\ UNCHANGED <<history, maxSteps, hookSet, step, totalTokens, lastError, runs,
                 traceVars>>

NotifyInvalidUncorrected ==
  /\ phase = "notify" /\ step.kind = "invalid"
  /\ Deliver
  /\ NextIteration
  /\ UNCHANGED <<history, maxSteps, hookSet, step, conversation, totalTokens,
                 lastError, runs, executed, spent>>

NotifyInvalid ==
  /\ phase = "notify" /\ step.kind = "invalid"
  /\ Deliver
  /\ conversation' = Append(conversation, "user")
  /\ NextIteration
  /\ UNCHANGED <<history, maxSteps, hookSet, step, totalTokens, lastError, runs,
                 executed, spent>>

NotifyFinal ==
  /\ phase = "notify" /\ step.kind = "final"
  /\ Deliver
  /\ UNCHANGED <<history, maxSteps, hookSet, loopVars, runs, executed, spent>>
  /\ Return("success", "", stepId + 1)

NotifyStopped ==
  /\ phase = "notify" /\ step.kind = "stopped"
  /\ Deliver
  /\ UNCHANGED <<history, maxSteps, hookSet, loopVars, runs, executed, spent>>
  /\ Return("failure", "loop", stepId + 1)

NotifyCall ==
  /\ phase = "notify" /\ step.kind = "call"
  /\ Deliver
  /\ phase' = "observe"
  /\ UNCHANGED <<history, maxSteps, hookSet, loopVars, result, runs, executed, spent>>

(* observe(): dump() of the tool's output.                                  *)
Observe ==
  /\ phase = "observe" /\ step.text
  /\ conversation' = Append(conversation, "user")
  /\ NextIteration
  /\ UNCHANGED <<history, maxSteps, hookSet, step, totalTokens, lastError, runs,
                 traceVars>>

(* dump() throws on text that is not UTF-8, and nothing in run() catches it *)
ObserveThrows ==
  /\ phase = "observe" /\ ~step.text
  /\ UNCHANGED <<history, maxSteps, hookSet, loopVars, runs, traceVars>>
  /\ Return("threw", "observe", 0)

-----------------------------------------------------------------------------
RunStep ==
  \/ ThinkThrows \/ ThinkFails \/ ThinkReplies
  \/ DispatchInvalid \/ DispatchFinal \/ DispatchCall \/ Act
  \/ NotifyFails \/ NotifyInvalid \/ NotifyFinal \/ NotifyStopped \/ NotifyCall
  \/ Observe \/ ObserveThrows

Next ==
  \/ SetStepHook \/ SetMaxSteps \/ RunBlankTask \/ RunUnprepared \/ StartRun
  \/ RunStep

(* run() is sequential code: inside it the thread goes on.  The LLM, the    *)
(* tools and the hook answer or throw.                                      *)
Spec == Init /\ [][Next]_vars /\ WF_vars(RunStep)

-----------------------------------------------------------------------------
(* A loop, said of a sequence of calls and independently of the detector's  *)
(* window.                                                                  *)
IsRepeat(calls, n) ==
  /\ n <= Len(calls)
  /\ \A i \in (Len(calls) - n + 1)..(Len(calls) - 1) : calls[i] = calls[i + 1]
IsPingPong(calls, n) ==
  /\ 2 * n <= Len(calls)
  /\ calls[Len(calls)] # calls[Len(calls) - 1]
  /\ \A i \in (Len(calls) - 2 * n + 1)..(Len(calls) - 2) : calls[i] = calls[i + 2]
IsCriticalLoop(calls) ==
  IsRepeat(calls, RepeatCritical) \/ IsPingPong(calls, PingPongCritical)

(* The tools never see a critical loop: however invalid replies come in     *)
(* between, no run executes the same call RepeatCritical times in a row or  *)
(* the same two in turn PingPongCritical times ("critical repeated action   *)
(* should be recorded but not executed", tests/agent_tests.cpp:262).  And a *)
(* run is stopped as a loop only for its own calls: those it executed plus  *)
(* the one refused form a critical loop, whatever earlier runs did.         *)
OwnLoopsAreRefused ==
  /\ ~IsCriticalLoop(executed)
  /\ phase = "notify" /\ step.kind = "stopped" =>
       IsCriticalLoop(Append(executed, step.signature))

(* The hook sees the run as it happened.  Whenever run() is about to ask    *)
(* the LLM again, and when it returns or throws, the hook has been given a  *)
(* step for every reply, 0, 1, 2, ... in order and the latest one last (a   *)
(* final answer, a refused reply or a stopped call too; none for an LLM     *)
(* that failed), and in them every executed tool call exactly once and in   *)
(* order (agent_loop.cpp:146-165, 254-322).                                 *)
CallsUpTo(n) == Cardinality({i \in 1..n : delivered[i].kind = "call"})
StepsInOrder == \A i \in DOMAIN delivered : delivered[i].id = i - 1
LatestIsLast ==
  LET n == Len(delivered) IN
  n > 0 => delivered[n].kind = step.kind /\ delivered[n].signature = step.signature
CallsDelivered ==
  /\ Len(executed) = CallsUpTo(Len(delivered))
  /\ \A i \in DOMAIN delivered : delivered[i].kind = "call" =>
       executed[CallsUpTo(i)] = delivered[i].signature

HookSeesRun ==
  [][hookSet /\ phase # "idle" /\ phase' \in {"think", "idle"} =>
       /\ Len(delivered') = IF phase = "think" THEN stepId ELSE stepId + 1
       /\ StepsInOrder' /\ LatestIsLast' /\ CallsDelivered']_vars

(* The LLM is always asked with the system prompt first, then user and      *)
(* assistant turns alternating and a user turn last, one pair per earlier   *)
(* step.                                                                    *)
ConversationAlternates ==
  phase = "think" =>
    conversation = [i \in 1..(2 * stepId + 2) |->
                      IF i = 1 THEN "system"
                      ELSE IF i % 2 = 0 THEN "user" ELSE "assistant"]

(* What run() reports is what happened: steps_taken is the number of replies *)
(* asked for - what the hook saw, plus the one the LLM failed to give - and  *)
(* "maximum step limit reached ...; last error: ..." names an error exactly  *)
(* when the last step of the run failed (lines 310, 323-327).                *)
ReportMatchesRun ==
  [][phase # "idle" /\ phase' = "idle" =>
       /\ hookSet /\ result'.status # "threw" =>
            result'.steps =
              Len(delivered') +
              (IF result'.reason \in {"llm threw", "llm failed", "empty response"}
                 THEN 1 ELSE 0)
       /\ result'.reason = "max steps" => result'.lastError = ~step.ok]_vars

(* total_tokens is the exact sum of all responses' tokens, negative counts  *)
(* taken as 0, capped at the largest int64_t: it never wraps.               *)
TokensExact ==
  totalTokens = IF spent > MaxCount THEN MaxCount ELSE spent

(* run() ends: the loop is bounded by max_steps.                            *)
RunEnds == phase # "idle" ~> phase = "idle"

(* read_file says it can "Read a UTF-8/text or binary file"                 *)
(* (file_tool.cpp:68); then reading one should be observed, like any other  *)
(* tool result, and not end the run with an exception.                      *)
ToolOutputIsObserved == result.reason # "observe"

=============================================================================
