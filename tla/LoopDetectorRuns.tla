-------------------------- MODULE LoopDetectorRuns --------------------------
(***************************************************************************)
(* One LoopDetector used for run after run, as AgentLoop::run uses it:      *)
(* reset(), then observe() for each tool call.  The verdicts, drawn from a  *)
(* bounded window, are compared with the whole sequence of calls.           *)
(***************************************************************************)
EXTENDS LoopDetector

CONSTANT MaxCalls     \* bound: calls of observe() between two resets

VARIABLES
  verdict,            \* what the latest observe() returned
  calls               \* history: every signature observed since reset()

vars == <<history, verdict, calls>>

Init == DetectorInit /\ verdict = NoLoop /\ calls = <<>>

Observe(s) ==
  /\ Len(calls) < MaxCalls
  /\ Observed(s)
  /\ verdict' = Verdict(history')
  /\ calls' = Append(calls, s)

Reset ==
  /\ calls # <<>>
  /\ DetectorReset
  /\ verdict' = NoLoop
  /\ calls' = <<>>

Next == (\E s \in Signatures : Observe(s)) \/ Reset

Spec == Init /\ [][Next]_vars

-----------------------------------------------------------------------------
(* What a loop is, said of the calls and not of the window: the last n are  *)
(* equal; the last 2n alternate between two different signatures.           *)
EndsInRepeat(n) ==
  /\ n <= Len(calls)
  /\ \A i \in (Len(calls) - n + 1)..(Len(calls) - 1) : calls[i] = calls[i + 1]

EndsInPingPong(n) ==
  /\ 2 * n <= Len(calls)
  /\ calls[Len(calls)] # calls[Len(calls) - 1]
  /\ \A i \in (Len(calls) - 2 * n + 1)..(Len(calls) - 2) : calls[i] = calls[i + 2]

Expected ==
  IF calls = <<>> THEN NoLoop
  ELSE IF EndsInRepeat(RepeatCritical)
    THEN [kind |-> "repeat", severity |-> "critical"]
  ELSE IF EndsInRepeat(RepeatWarning)
    THEN [kind |-> "repeat", severity |-> "warning"]
  ELSE IF EndsInPingPong(PingPongCritical)
    THEN [kind |-> "ping-pong", severity |-> "critical"]
  ELSE IF EndsInPingPong(PingPongWarning)
    THEN [kind |-> "ping-pong", severity |-> "warning"]
  ELSE NoLoop

(* The bounded window is enough: whatever was evicted, observe() returns    *)
(* what the whole sequence of this run's calls deserves, and nothing of the *)
(* previous run's.  It is what the max_history check of the constructor     *)
(* (lines 52-57) is for.                                                    *)
VerdictFitsCalls == verdict = Expected

=============================================================================
