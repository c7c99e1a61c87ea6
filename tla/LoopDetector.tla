---------------------------- MODULE LoopDetector ----------------------------
(***************************************************************************)
(* agent/loop_detector.cpp: LoopDetector keeps a bounded window of the most *)
(* recent action signatures and, at each observe(), classifies the end of   *)
(* the window: the same action repeated, or two actions alternating         *)
(* ("ping-pong"), each at warning or critical severity.                     *)
(***************************************************************************)
EXTENDS Naturals, Sequences, FiniteSets

CONSTANTS
  Signatures,                      \* action signatures: tool name and arguments
  RepeatWarning, RepeatCritical,   \* LoopDetectorConfig::repeat
  PingPongWarning, PingPongCritical,
  MaxHistory                       \* LoopDetectorConfig::max_history

ValidThreshold(warning, critical) ==     \* validateThreshold()
  warning \in Nat /\ critical \in Nat /\ warning >= 2 /\ critical > warning

(* The constructor throws for any other configuration.                      *)
ValidConfig ==
  /\ ValidThreshold(RepeatWarning, RepeatCritical)
  /\ ValidThreshold(PingPongWarning, PingPongCritical)
  /\ MaxHistory \in Nat
  /\ MaxHistory >= RepeatCritical
  /\ MaxHistory >= 2 * PingPongCritical

ASSUME DetectorAssumption == ValidConfig

VARIABLE history    \* history_: the window, oldest first

DetectorInit == history = <<>>

(* reset()                                                                  *)
DetectorKept ==           \* a reset() that does nothing
  history' = history

DetectorReset == history' = <<>>

-----------------------------------------------------------------------------
LastOf(S) == IF S = {} THEN 0 ELSE CHOOSE i \in S : \A j \in S : j <= i

(* repeat_count (lines 71-77): how many entries at the end are equal.       *)
RepeatCount(h) ==
  Len(h) - LastOf({i \in 1..(Len(h) - 1) : h[i] # h[i + 1]})

(* alternating_entries (lines 88-97): how many entries at the end equal the *)
(* entry two places later.                                                  *)
AlternatingEntries(h) ==
  Len(h) - LastOf({i \in 1..(Len(h) - 2) : h[i] # h[i + 2]})

(* severityFor()                                                            *)
Severity(n, warning, critical) ==
  IF n >= critical THEN "critical" ELSE IF n >= warning THEN "warning" ELSE "none"

NoLoop == [kind |-> "none", severity |-> "none"]

(* What observe() returns for the window h (lines 71-105): a repetition is  *)
(* looked for first.                                                        *)
Verdict(h) ==
  LET repeat == Severity(RepeatCount(h), RepeatWarning, RepeatCritical)
      cycles == AlternatingEntries(h) \div 2
      pingPong == Severity(cycles, PingPongWarning, PingPongCritical)
  IN IF repeat # "none" THEN [kind |-> "repeat", severity |-> repeat]
     ELSE IF Len(h) < 4 \/ h[Len(h)] = h[Len(h) - 1] \/ pingPong = "none" THEN NoLoop
     ELSE [kind |-> "ping-pong", severity |-> pingPong]

-----------------------------------------------------------------------------
WindowCleared(s) ==       \* a full window emptied instead of shifted
  IF Len(history) = MaxHistory THEN <<s>> ELSE Append(history, s)

(* The window after observe(s): the oldest entry leaves a full one.         *)
Window(s) ==
  Append(IF Len(history) = MaxHistory THEN Tail(history) ELSE history, s)

Observed(s) == history' = Window(s)

=============================================================================
