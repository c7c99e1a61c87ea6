-------------------------- MODULE AgentLoopProofs ---------------------------
(***************************************************************************)
(* Proofs about AgentLoop for every width of the counters, every set of     *)
(* token counts and every configuration of the detector.                    *)
(***************************************************************************)
EXTENDS MCAgentLoop, FiniteSetTheorems, SequenceTheorems, WellFoundedInduction, TLAPS

Capped(n) == IF n > MaxCount THEN MaxCount ELSE n

(* saturatingAdd of two counts that are not negative is their sum, capped.  *)
LEMMA SaturatingAddCaps ==
  ASSUME NEW left \in 0..MaxCount, NEW right \in 0..MaxCount
  PROVE  /\ SaturatingAdd(left, right) = Capped(left + right)
         /\ SaturatingAdd(left, right) \in 0..MaxCount
BY LoopAssumption DEF SaturatingAdd, Capped

(* What saturatingAdd computes stays within the width for all arguments,    *)
(* and none of the differences it forms on the way leaves it.               *)
THEOREM SaturatingAddFits ==
  ASSUME NEW left \in MinCount..MaxCount, NEW right \in MinCount..MaxCount
  PROVE  /\ SaturatingAdd(left, right) \in MinCount..MaxCount
         /\ right > 0 => MaxCount - right \in MinCount..MaxCount
         /\ right < 0 => MinCount - right \in MinCount..MaxCount
         /\ left + right \in MinCount..MaxCount => SaturatingAdd(left, right) = left + right
BY LoopAssumption DEF SaturatingAdd

(* Capping each partial sum is as good as capping the whole.                *)
LEMMA CappedSum ==
  ASSUME NEW m \in Nat, NEW n \in Nat
  PROVE  Capped(Capped(m) + Capped(n)) = Capped(m + n)
BY LoopAssumption DEF Capped

TokensInv ==
  /\ totalTokens \in 0..MaxCount
  /\ spent \in Nat
  /\ totalTokens = Capped(spent)

(* The one step that counts.                                                *)
LEMMA CountStep == ASSUME TokensInv, CountTokens PROVE TokensInv'
<1>1. PICK prompt \in TokenCounts, completion \in TokenCounts :
        /\ totalTokens' = SaturatingAdd(totalTokens,
             SaturatingAdd(NonNegative(prompt), NonNegative(completion)))
        /\ spent' = spent + NonNegative(prompt) + NonNegative(completion)
  BY DEF CountTokens
<1> DEFINE p == NonNegative(prompt)
           c == NonNegative(completion)
<1>2. p \in 0..MaxCount /\ c \in 0..MaxCount
  BY LoopAssumption DEF NonNegative
<1>3. SaturatingAdd(p, c) = Capped(p + c) /\ SaturatingAdd(p, c) \in 0..MaxCount
  BY <1>2, SaturatingAddCaps
<1>4. totalTokens' = Capped(Capped(spent) + Capped(p + c)) /\ totalTokens' \in 0..MaxCount
  BY <1>1, <1>3, SaturatingAddCaps DEF TokensInv
<1>5. spent' = spent + (p + c) /\ p + c \in Nat
  <2> HIDE DEF p, c
  <2>1. spent' = spent + p + c
    BY <1>1 DEF p, c
  <2> QED
    BY <1>2, <2>1 DEF TokensInv
<1>6. Capped(Capped(spent) + Capped(p + c)) = Capped(spent + (p + c))
  <2> HIDE DEF p, c
  <2> QED
    BY <1>5, CappedSum DEF TokensInv
<1> QED
  BY <1>4, <1>5, <1>6 DEF TokensInv

LEMMA TokensInitially == Init => TokensInv
  BY LoopAssumption DEF Init, TokensInv, Capped

LEMMA TokensPreserved ==
  ASSUME TokensInv, [Next]_vars
  PROVE  TokensInv'
<1>1. CASE RunBlankTask \/ RunUnprepared \/ StartRun
  <2>1. totalTokens' = 0 /\ spent' = 0
    BY <1>1 DEF RunBlankTask, RunUnprepared, StartRun, BeginRun
  <2> QED
    BY <2>1, LoopAssumption DEF TokensInv, Capped
<1>2. CASE ThinkFails \/ ThinkReplies
  BY <1>2, CountStep DEF ThinkFails, ThinkReplies
<1>3. CASE UNCHANGED <<totalTokens, spent>>
  BY <1>3 DEF TokensInv
<1> QED
  BY <1>1, <1>2, <1>3
  DEF Next, SetStepHook, SetMaxSteps, RunStep, ThinkThrows, DispatchInvalid,
      DispatchFinal, DispatchCall, Act, NotifyFails, NotifyInvalid, NotifyFinal,
      NotifyStopped, NotifyCall, Observe, ObserveThrows, vars, loopVars, traceVars

(* total_tokens is the exact sum, capped: it never wraps.                   *)
THEOREM TokensAreExact == Spec => []TokensExact
<1>1. TokensInv => TokensExact
  BY DEF TokensInv, TokensExact, Capped
<1>2. TokensInv /\ [Next]_vars => TokensInv'
  BY TokensPreserved
<1> QED
  BY <1>1, <1>2, TokensInitially, PTL DEF Spec

-----------------------------------------------------------------------------
(* A run under way: its step id is below the limit in force, which no setter *)
(* changes before it ends; what a step is.                                   *)
Phases == {"idle", "think", "dispatch", "act", "notify", "observe"}
StepType == [kind : Kinds \cup {"none"}, signature : Signatures \cup {NoSignature},
             ok : BOOLEAN, text : BOOLEAN]

ControlInv ==
  /\ phase \in Phases
  /\ stepId \in Nat /\ maxSteps \in Nat \ {0}
  /\ phase # "idle" => stepId < maxSteps
  /\ hookSet \in BOOLEAN

StepInv ==
  /\ step \in StepType
  /\ phase \in {"dispatch", "act", "notify", "observe"} => step.kind \in Kinds
  /\ phase = "dispatch" => ~step.ok
  /\ phase = "act" => step.kind = "call"
  /\ phase \in {"dispatch", "act"} /\ step.kind = "call" => step.signature \in Signatures
  /\ (phase = "notify" /\ step.kind \in {"invalid", "call"}) \/ phase = "observe" =>
       lastError = ~step.ok

LEMMA NoStepTyped ==
  /\ NoStep \in StepType /\ ~NoStep.ok
  /\ \A kind \in {"invalid", "final"} :
       LET reply == [NoStep EXCEPT !.kind = kind]
       IN reply \in StepType /\ ~reply.ok /\ reply.kind = kind /\ kind \in Kinds
  /\ \A s \in Signatures :
       LET call == [NoStep EXCEPT !.kind = "call", !.signature = s]
       IN call \in StepType /\ ~call.ok /\ call.kind \in Kinds /\ call.signature = s
<1>1. NoStep \in StepType /\ NoStep.ok = FALSE
  BY DEF NoStep, StepType, Kinds
<1>2. ASSUME NEW kind \in {"invalid", "final"}
      PROVE  LET reply == [NoStep EXCEPT !.kind = kind]
             IN reply \in StepType /\ ~reply.ok /\ reply.kind = kind /\ kind \in Kinds
  BY <1>1 DEF StepType, Kinds
<1>3. ASSUME NEW s \in Signatures
      PROVE  LET call == [NoStep EXCEPT !.kind = "call", !.signature = s]
             IN call \in StepType /\ ~call.ok /\ call.kind \in Kinds /\ call.signature = s
  BY <1>1 DEF StepType, Kinds
<1> QED
  BY <1>1, <1>2, <1>3

LEMMA StepUpdates ==
  ASSUME NEW r \in StepType, NEW b \in BOOLEAN, NEW t \in BOOLEAN
  PROVE  /\ [r EXCEPT !.ok = b] \in StepType /\ [r EXCEPT !.ok = b].kind = r.kind
         /\ [r EXCEPT !.kind = "stopped"] \in StepType
         /\ [r EXCEPT !.kind = "stopped"].kind = "stopped"
         /\ [r EXCEPT !.ok = b, !.text = t] \in StepType
         /\ [r EXCEPT !.ok = b, !.text = t].kind = r.kind
         /\ [r EXCEPT !.ok = b, !.text = t].ok = b
  BY DEF StepType, Kinds

LEMMA ActUpdates ==
  ASSUME step \in StepType, Act
  PROVE  \E ok \in BOOLEAN :
           step' \in StepType /\ step'.ok = ok /\ step'.kind = step.kind /\ lastError' = ~ok
<1>1. PICK ok \in BOOLEAN, text \in {TRUE, ~BinaryOutput} :
        step' = [step EXCEPT !.ok = ok, !.text = text] /\ lastError' = ~ok
  BY DEF Act
<1>2. text \in BOOLEAN
  BY LoopAssumption
<1> QED
  BY <1>1, <1>2, StepUpdates

LEMMA ControlStep ==
  ASSUME ControlInv, [Next]_vars
  PROVE  ControlInv'
<1> USE LoopAssumption DEF ControlInv, Phases, loopVars, traceVars
<1>1. CASE SetStepHook
  BY <1>1 DEF SetStepHook
<1>2. CASE SetMaxSteps
  BY <1>2 DEF SetMaxSteps
<1>3. CASE RunBlankTask
  BY <1>3 DEF RunBlankTask, BeginRun, Return
<1>4. CASE RunUnprepared
  BY <1>4 DEF RunUnprepared, BeginRun, Return
<1>5. CASE StartRun
  BY <1>5 DEF StartRun, BeginRun
<1>6. CASE ThinkThrows
  BY <1>6 DEF ThinkThrows, Return
<1>7. CASE ThinkFails
  BY <1>7 DEF ThinkFails, CountTokens, Return
<1>8. CASE ThinkReplies
  BY <1>8 DEF ThinkReplies, CountTokens
<1>9. CASE DispatchInvalid
  BY <1>9 DEF DispatchInvalid
<1>10. CASE DispatchFinal
  BY <1>10 DEF DispatchFinal
<1>11. CASE DispatchCall
  BY <1>11 DEF DispatchCall
<1>12. CASE Act
  BY <1>12 DEF Act
<1>13. CASE NotifyFails
  BY <1>13 DEF NotifyFails, Deliver, Return
<1>14. CASE NotifyInvalid
  <2>1. phase /= "idle" /\ maxSteps' = maxSteps /\ hookSet' = hookSet
    BY <1>14 DEF NotifyInvalid
  <2>2. CASE phase' = "think" /\ stepId' = stepId + 1 /\ stepId + 1 < maxSteps
    BY <2>1, <2>2
  <2>3. CASE phase' = "idle" /\ stepId' = stepId
    BY <2>1, <2>3
  <2> QED
    BY <1>14, <2>2, <2>3 DEF NotifyInvalid, NextIteration
<1>15. CASE NotifyFinal
  BY <1>15 DEF NotifyFinal, Deliver, Return
<1>16. CASE NotifyStopped
  BY <1>16 DEF NotifyStopped, Deliver, Return
<1>17. CASE NotifyCall
  BY <1>17 DEF NotifyCall, Deliver
<1>18. CASE Observe
  <2>1. phase /= "idle" /\ maxSteps' = maxSteps /\ hookSet' = hookSet
    BY <1>18 DEF Observe
  <2>2. CASE phase' = "think" /\ stepId' = stepId + 1 /\ stepId + 1 < maxSteps
    BY <2>1, <2>2
  <2>3. CASE phase' = "idle" /\ stepId' = stepId
    BY <2>1, <2>3
  <2> QED
    BY <1>18, <2>2, <2>3 DEF Observe, NextIteration
<1>19. CASE ObserveThrows
  BY <1>19 DEF ObserveThrows, Return
<1>20. CASE UNCHANGED vars
  BY <1>20 DEF vars
<1> QED
  BY <1>1, <1>2, <1>3, <1>4, <1>5, <1>6, <1>7, <1>8, <1>9, <1>10, <1>11, <1>12, <1>13, <1>14, <1>15, <1>16, <1>17, <1>18, <1>19, <1>20
  DEF Next, RunStep

LEMMA StepStep ==
  ASSUME StepInv, lastError \in BOOLEAN, [Next]_vars
  PROVE  StepInv' /\ lastError' \in BOOLEAN
<1> USE NoStepTyped DEF StepInv, loopVars, traceVars
<1>1. CASE SetStepHook
  BY <1>1 DEF SetStepHook
<1>2. CASE SetMaxSteps
  BY <1>2 DEF SetMaxSteps
<1>3. CASE RunBlankTask
  BY <1>3 DEF RunBlankTask, BeginRun, Return
<1>4. CASE RunUnprepared
  BY <1>4 DEF RunUnprepared, BeginRun, Return
<1>5. CASE StartRun
  BY <1>5 DEF StartRun, BeginRun
<1>6. CASE ThinkThrows
  BY <1>6 DEF ThinkThrows, Return
<1>7. CASE ThinkFails
  BY <1>7 DEF ThinkFails, CountTokens, Return
<1>8. CASE ThinkReplies
  BY <1>8 DEF ThinkReplies, CountTokens
<1>9. CASE DispatchInvalid
  BY <1>9 DEF DispatchInvalid
<1>10. CASE DispatchFinal
  <2>1. step' = [step EXCEPT !.ok = TRUE] /\ step.kind = "final" /\ phase' = "notify" /\ lastError' = lastError
    BY <1>10 DEF DispatchFinal
  <2>2. step' \in StepType /\ step'.kind = "final" /\ "final" \in Kinds
    BY <2>1, StepUpdates DEF Kinds
  <2> QED
    BY <2>1, <2>2
<1>11. CASE DispatchCall
  <2>1. CASE step' = [step EXCEPT !.kind = "stopped"] /\ phase' = "notify"
    <3>1. step' \in StepType /\ step'.kind = "stopped" /\ "stopped" \in Kinds
      BY <2>1, StepUpdates DEF Kinds
    <3> QED
      BY <1>11, <2>1, <3>1 DEF DispatchCall
  <2>2. CASE step' = step /\ phase' = "act"
    BY <1>11, <2>2 DEF DispatchCall
  <2> QED
    BY <1>11, <2>1, <2>2 DEF DispatchCall
<1>12. CASE Act
  <2>1. phase = "act" /\ phase' = "notify" /\ step.kind \in Kinds
    BY <1>12 DEF Act
  <2>2. PICK ok \in BOOLEAN :
          step' \in StepType /\ step'.ok = ok /\ step'.kind = step.kind /\ lastError' = ~ok
    BY <1>12, ActUpdates
  <2>3. lastError' = ~step'.ok /\ lastError' \in BOOLEAN
    BY <2>2
  <2> QED
    BY <2>1, <2>2, <2>3
<1>13. CASE NotifyFails
  BY <1>13 DEF NotifyFails, Deliver, Return
<1>14. CASE NotifyInvalid
  BY <1>14 DEF NotifyInvalid, Deliver, NextIteration
<1>15. CASE NotifyFinal
  BY <1>15 DEF NotifyFinal, Deliver, Return
<1>16. CASE NotifyStopped
  BY <1>16 DEF NotifyStopped, Deliver, Return
<1>17. CASE NotifyCall
  BY <1>17 DEF NotifyCall, Deliver
<1>18. CASE Observe
  BY <1>18 DEF Observe, NextIteration
<1>19. CASE ObserveThrows
  BY <1>19 DEF ObserveThrows, Return
<1>20. CASE UNCHANGED vars
  BY <1>20 DEF vars
<1> QED
  BY <1>1, <1>2, <1>3, <1>4, <1>5, <1>6, <1>7, <1>8, <1>9, <1>10, <1>11, <1>12, <1>13, <1>14, <1>15, <1>16, <1>17, <1>18, <1>19, <1>20
  DEF Next, RunStep

-----------------------------------------------------------------------------
(* The conversation after n messages.                                        *)
Role(i) == IF i = 1 THEN "system" ELSE IF i % 2 = 0 THEN "user" ELSE "assistant"
Turns(n) == [i \in 1..n |-> Role(i)]

ConversationInv ==
  /\ phase = "think" => conversation = Turns(2 * stepId + 2)
  /\ phase \in {"dispatch", "act", "notify", "observe"} => conversation = Turns(2 * stepId + 3)

LEMMA AppendTurn ==
  ASSUME NEW n \in Nat
  PROVE  Append(Turns(n), Role(n + 1)) = Turns(n + 1)
<1>1. Turns(n) \in Seq({"system", "user", "assistant"})
  <2>1. Turns(n) \in [1..n -> {"system", "user", "assistant"}]
    BY DEF Turns, Role
  <2> QED
    BY <2>1
<1>2. Len(Turns(n)) = n
  BY DEF Turns
<1>3. Append(Turns(n), Role(n + 1)) = [i \in 1..(n + 1) |-> IF i = n + 1 THEN Role(n + 1) ELSE Turns(n)[i]]
  BY <1>1, <1>2
<1> QED
  BY <1>3 DEF Turns

LEMMA TurnsOfStep ==
  ASSUME NEW k \in Nat
  PROVE  /\ Append(Turns(2 * k + 2), "assistant") = Turns(2 * k + 3)
         /\ Append(Turns(2 * k + 3), "user") = Turns(2 * (k + 1) + 2)
<1>1. Role((2 * k + 2) + 1) = "assistant" /\ Role((2 * k + 3) + 1) = "user"
  BY DEF Role
<1>2. 2 * k + 2 \in Nat /\ 2 * k + 3 \in Nat
  OBVIOUS
<1>3. (2 * k + 2) + 1 = 2 * k + 3 /\ (2 * k + 3) + 1 = 2 * (k + 1) + 2
  OBVIOUS
<1> QED
  BY <1>1, <1>2, <1>3, AppendTurn

LEMMA FirstTurns == <<"system", "user">> = Turns(2)
  BY DEF Turns, Role

LEMMA ConversationStep ==
  ASSUME ConversationInv, stepId \in Nat, [Next]_vars
  PROVE  ConversationInv'
<1> USE DEF ConversationInv, loopVars, traceVars
<1>1. CASE SetStepHook
  BY <1>1 DEF SetStepHook
<1>2. CASE SetMaxSteps
  BY <1>2 DEF SetMaxSteps
<1>3. CASE RunBlankTask
  BY <1>3 DEF RunBlankTask, BeginRun, Return
<1>4. CASE RunUnprepared
  BY <1>4 DEF RunUnprepared, BeginRun, Return
<1>5. CASE StartRun
  <2>1. phase' = "think" /\ stepId' = 0 /\ conversation' = Turns(2)
    BY <1>5, FirstTurns DEF StartRun
  <2>2. 2 * 0 + 2 = 2
    OBVIOUS
  <2> QED
    BY <2>1, <2>2 DEF ConversationInv
<1>6. CASE ThinkThrows
  BY <1>6 DEF ThinkThrows, Return
<1>7. CASE ThinkFails
  BY <1>7 DEF ThinkFails, CountTokens, Return
<1>8. CASE ThinkReplies
  <2>1. /\ phase = "think" /\ stepId' = stepId /\ phase' = "dispatch"
        /\ conversation' = Append(conversation, "assistant")
    BY <1>8 DEF ThinkReplies
  <2>2. conversation' = Turns(2 * stepId + 3)
    BY <2>1, TurnsOfStep DEF ConversationInv
  <2> QED
    BY <2>1, <2>2 DEF ConversationInv
<1>9. CASE DispatchInvalid
  BY <1>9 DEF DispatchInvalid
<1>10. CASE DispatchFinal
  BY <1>10 DEF DispatchFinal
<1>11. CASE DispatchCall
  BY <1>11 DEF DispatchCall
<1>12. CASE Act
  BY <1>12 DEF Act
<1>13. CASE NotifyFails
  BY <1>13 DEF NotifyFails, Deliver, Return
<1>14. CASE NotifyInvalid
  <2>1. phase = "notify" /\ stepId \in Nat /\ conversation' = Append(conversation, "user")
    BY <1>14 DEF NotifyInvalid
  <2>2. conversation' = Turns(2 * (stepId + 1) + 2)
    BY <2>1, TurnsOfStep DEF ConversationInv
  <2>3. \/ phase' = "think" /\ stepId' = stepId + 1
        \/ phase' = "idle"
    BY <1>14 DEF NotifyInvalid, NextIteration
  <2> QED
    BY <2>2, <2>3 DEF ConversationInv
<1>15. CASE NotifyFinal
  BY <1>15 DEF NotifyFinal, Deliver, Return
<1>16. CASE NotifyStopped
  BY <1>16 DEF NotifyStopped, Deliver, Return
<1>17. CASE NotifyCall
  BY <1>17 DEF NotifyCall, Deliver
<1>18. CASE Observe
  <2>1. phase = "observe" /\ stepId \in Nat /\ conversation' = Append(conversation, "user")
    BY <1>18 DEF Observe
  <2>2. conversation' = Turns(2 * (stepId + 1) + 2)
    BY <2>1, TurnsOfStep DEF ConversationInv
  <2>3. \/ phase' = "think" /\ stepId' = stepId + 1
        \/ phase' = "idle"
    BY <1>18 DEF Observe, NextIteration
  <2> QED
    BY <2>2, <2>3 DEF ConversationInv
<1>19. CASE ObserveThrows
  BY <1>19 DEF ObserveThrows, Return
<1>20. CASE UNCHANGED vars
  BY <1>20 DEF vars
<1> QED
  BY <1>1, <1>2, <1>3, <1>4, <1>5, <1>6, <1>7, <1>8, <1>9, <1>10, <1>11, <1>12, <1>13, <1>14, <1>15, <1>16, <1>17, <1>18, <1>19, <1>20
  DEF Next, RunStep

-----------------------------------------------------------------------------
(* What the report of a run is made of: the hook has had one step per        *)
(* iteration, this one's once notifyStep() is past.                          *)
Delivery == [id : Nat, kind : Kinds, signature : Signatures \cup {NoSignature}]
DeliveredInv ==
  /\ delivered \in Seq(Delivery)
  /\ phase \in {"think", "dispatch", "act", "notify"} /\ hookSet => Len(delivered) = stepId
  /\ phase = "observe" /\ hookSet => Len(delivered) = stepId + 1

LEMMA DeliverAppends ==
  ASSUME Deliver, delivered \in Seq(Delivery), ControlInv, StepInv, phase = "notify"
  PROVE  /\ delivered' \in Seq(Delivery)
         /\ Len(delivered) \in Nat
         /\ hookSet => Len(delivered') = Len(delivered) + 1
<1> DEFINE d == [id |-> stepId, kind |-> step.kind, signature |-> step.signature]
<1>1. d \in Delivery
  BY DEF ControlInv, StepInv, StepType, Delivery
<1>2. delivered' = IF hookSet THEN Append(delivered, d) ELSE delivered
  BY DEF Deliver
<1> HIDE DEF d
<1> QED
  BY <1>1, <1>2, AppendProperties, LenProperties

LEMMA DeliveredStep ==
  ASSUME DeliveredInv, ControlInv, StepInv, [Next]_vars
  PROVE  DeliveredInv'
<1> USE DEF DeliveredInv, loopVars, traceVars
<1>1. CASE SetStepHook
  BY <1>1 DEF SetStepHook
<1>2. CASE SetMaxSteps
  BY <1>2 DEF SetMaxSteps
<1>3. CASE RunBlankTask
  <2>1. delivered' = <<>> /\ phase' = "idle"
    BY <1>3 DEF RunBlankTask, BeginRun, Return
  <2> QED
    BY <2>1, EmptySeq
<1>4. CASE RunUnprepared
  <2>1. delivered' = <<>> /\ phase' = "idle"
    BY <1>4 DEF RunUnprepared, BeginRun, Return
  <2> QED
    BY <2>1, EmptySeq
<1>5. CASE StartRun
  <2>1. delivered' = <<>> /\ stepId' = 0 /\ phase' = "think"
    BY <1>5 DEF StartRun, BeginRun
  <2>2. delivered' \in Seq(Delivery) /\ Len(delivered') = 0
    BY <2>1, EmptySeq
  <2> QED
    BY <2>1, <2>2
<1>6. CASE ThinkThrows
  BY <1>6 DEF ThinkThrows, Return
<1>7. CASE ThinkFails
  BY <1>7 DEF ThinkFails, CountTokens, Return
<1>8. CASE ThinkReplies
  BY <1>8 DEF ThinkReplies, CountTokens
<1>9. CASE DispatchInvalid
  BY <1>9 DEF DispatchInvalid
<1>10. CASE DispatchFinal
  BY <1>10 DEF DispatchFinal
<1>11. CASE DispatchCall
  BY <1>11 DEF DispatchCall
<1>12. CASE Act
  BY <1>12 DEF Act
<1>13. CASE NotifyFails
  <2>1. phase = "notify" /\ hookSet' = hookSet
    BY <1>13 DEF NotifyFails
  <2>2. delivered' \in Seq(Delivery) /\ (hookSet => Len(delivered') = stepId + 1)
    BY <1>13, <2>1, DeliverAppends DEF NotifyFails
  <2>3. phase' = "idle" \/ (phase' = "observe" /\ stepId' = stepId)
        \/ (phase' = "think" /\ stepId' = stepId + 1)
    BY <1>13 DEF NotifyFails, Return
  <2> QED
    BY <2>1, <2>2, <2>3
<1>14. CASE NotifyInvalid
  <2>1. phase = "notify" /\ hookSet' = hookSet
    BY <1>14 DEF NotifyInvalid
  <2>2. delivered' \in Seq(Delivery) /\ (hookSet => Len(delivered') = stepId + 1)
    BY <1>14, <2>1, DeliverAppends DEF NotifyInvalid
  <2>3. phase' = "idle" \/ (phase' = "observe" /\ stepId' = stepId)
        \/ (phase' = "think" /\ stepId' = stepId + 1)
    BY <1>14 DEF NotifyInvalid, NextIteration
  <2> QED
    BY <2>1, <2>2, <2>3
<1>15. CASE NotifyFinal
  <2>1. phase = "notify" /\ hookSet' = hookSet
    BY <1>15 DEF NotifyFinal
  <2>2. delivered' \in Seq(Delivery) /\ (hookSet => Len(delivered') = stepId + 1)
    BY <1>15, <2>1, DeliverAppends DEF NotifyFinal
  <2>3. phase' = "idle" \/ (phase' = "observe" /\ stepId' = stepId)
        \/ (phase' = "think" /\ stepId' = stepId + 1)
    BY <1>15 DEF NotifyFinal, Return
  <2> QED
    BY <2>1, <2>2, <2>3
<1>16. CASE NotifyStopped
  <2>1. phase = "notify" /\ hookSet' = hookSet
    BY <1>16 DEF NotifyStopped
  <2>2. delivered' \in Seq(Delivery) /\ (hookSet => Len(delivered') = stepId + 1)
    BY <1>16, <2>1, DeliverAppends DEF NotifyStopped
  <2>3. phase' = "idle" \/ (phase' = "observe" /\ stepId' = stepId)
        \/ (phase' = "think" /\ stepId' = stepId + 1)
    BY <1>16 DEF NotifyStopped, Return
  <2> QED
    BY <2>1, <2>2, <2>3
<1>17. CASE NotifyCall
  <2>1. phase = "notify" /\ hookSet' = hookSet
    BY <1>17 DEF NotifyCall
  <2>2. delivered' \in Seq(Delivery) /\ (hookSet => Len(delivered') = stepId + 1)
    BY <1>17, <2>1, DeliverAppends DEF NotifyCall
  <2>3. phase' = "idle" \/ (phase' = "observe" /\ stepId' = stepId)
        \/ (phase' = "think" /\ stepId' = stepId + 1)
    BY <1>17 DEF NotifyCall, Return
  <2> QED
    BY <2>1, <2>2, <2>3
<1>18. CASE Observe
  BY <1>18 DEF Observe, NextIteration
<1>19. CASE ObserveThrows
  BY <1>19 DEF ObserveThrows, Return
<1>20. CASE UNCHANGED vars
  BY <1>20 DEF vars
<1> QED
  BY <1>1, <1>2, <1>3, <1>4, <1>5, <1>6, <1>7, <1>8, <1>9, <1>10, <1>11, <1>12, <1>13, <1>14, <1>15, <1>16, <1>17, <1>18, <1>19, <1>20
  DEF Next, RunStep

LEMMA PlusNone ==
  ASSUME NEW a, NEW k \in Nat, a = k
  PROVE  a = k + 0
  OBVIOUS

LEMMA LastStep ==
  ASSUME NEW k \in Nat, NEW m \in Nat, k < m, ~(k + 1 < m)
  PROVE  m = k + 1
  OBVIOUS

(* Every step that ends a run reports it truly.                              *)
Reports ==
  phase # "idle" /\ phase' = "idle" =>
    /\ hookSet /\ result'.status # "threw" =>
         result'.steps =
           Len(delivered') +
           (IF result'.reason \in {"llm threw", "llm failed", "empty response"}
              THEN 1 ELSE 0)
    /\ result'.reason = "max steps" => result'.lastError = ~step.ok

LEMMA ReportStep ==
  ASSUME DeliveredInv, ControlInv, StepInv, [Next]_vars
  PROVE  Reports
<1> USE DEF DeliveredInv, Reports, loopVars, traceVars
<1>1. CASE SetStepHook
  BY <1>1 DEF SetStepHook
<1>2. CASE SetMaxSteps
  BY <1>2 DEF SetMaxSteps
<1>3. CASE RunBlankTask
  BY <1>3 DEF RunBlankTask, BeginRun, Return
<1>4. CASE RunUnprepared
  BY <1>4 DEF RunUnprepared, BeginRun, Return
<1>5. CASE StartRun
  BY <1>5 DEF StartRun, BeginRun
<1>6. CASE ThinkThrows
  <2>1. /\ phase = "think" /\ phase' = "idle" /\ hookSet' = hookSet
        /\ result' = [status |-> "failure", reason |-> "llm threw", steps |-> stepId + 1,
                      tokens |-> totalTokens', lastError |-> FALSE]
    BY <1>6 DEF ThinkThrows, Return
  <2>2. result'.reason = "llm threw" /\ result'.steps = stepId + 1 /\ result'.status = "failure"
    BY <2>1
  <2>3. delivered' = delivered
    BY <1>6 DEF ThinkThrows
  <2> QED
    BY <2>1, <2>2, <2>3
<1>7. CASE ThinkFails
  <2>1. phase = "think" /\ delivered' = delivered
    BY <1>7 DEF ThinkFails
  <2>2. PICK reason \in {"llm failed", "empty response"} :
          result' = [status |-> "failure", reason |-> reason, steps |-> stepId + 1,
                     tokens |-> totalTokens', lastError |-> FALSE]
    BY <1>7 DEF ThinkFails, Return
  <2>3. result'.reason = reason /\ result'.steps = stepId + 1
    BY <2>2
  <2> QED
    BY <2>1, <2>3
<1>8. CASE ThinkReplies
  BY <1>8 DEF ThinkReplies, CountTokens
<1>9. CASE DispatchInvalid
  BY <1>9 DEF DispatchInvalid
<1>10. CASE DispatchFinal
  BY <1>10 DEF DispatchFinal
<1>11. CASE DispatchCall
  BY <1>11 DEF DispatchCall
<1>12. CASE Act
  BY <1>12 DEF Act
<1>13. CASE NotifyFails
  <2>1. /\ phase = "notify" /\ phase' = "idle" /\ hookSet' = hookSet
        /\ result' = [status |-> "failure", reason |-> "hook", steps |-> stepId + 1,
                      tokens |-> totalTokens', lastError |-> FALSE]
    BY <1>13 DEF NotifyFails, Return
  <2>2. result'.reason = "hook" /\ result'.steps = stepId + 1 /\ result'.status = "failure"
    BY <2>1
  <2>3. hookSet => Len(delivered') = stepId + 1
    BY <1>13, <2>1, DeliverAppends DEF NotifyFails
  <2> QED
    BY <2>1, <2>2, <2>3
<1>14. CASE NotifyInvalid
  <2> SUFFICES ASSUME phase' = "idle" PROVE Reports
    OBVIOUS
  <2>0. phase = "notify" /\ NextIteration /\ step' = step /\ step.kind = "invalid"
    BY <1>14 DEF NotifyInvalid
  <2>1. /\ ~(stepId + 1 < maxSteps)
        /\ result' = [status |-> "failure", reason |-> "max steps", steps |-> maxSteps,
                      tokens |-> totalTokens, lastError |-> lastError]
    BY <2>0 DEF NextIteration
  <2>2. result'.reason = "max steps" /\ result'.steps = maxSteps /\ result'.lastError = lastError
    BY <2>1
  <2>3. maxSteps = stepId + 1
    <3>1. stepId \in Nat /\ maxSteps \in Nat /\ stepId < maxSteps
      BY <2>0 DEF ControlInv
    <3>2. ~(stepId + 1 < maxSteps)
      BY <2>1
    <3> QED
      BY <3>1, <3>2, LastStep
  <2>4. hookSet => Len(delivered') = stepId + 1
    BY <1>14, <2>0, DeliverAppends DEF NotifyInvalid
  <2>5. lastError = ~step.ok
    BY <2>0 DEF StepInv
  <2>6. stepId + 1 \in Nat
    BY DEF ControlInv
  <2>7. ASSUME hookSet PROVE result'.steps = Len(delivered') + 0
    <3>1. result'.steps = Len(delivered') /\ Len(delivered') \in Nat
      BY <2>2, <2>3, <2>4, <2>6, <2>7
    <3> QED
      BY <3>1, PlusNone
  <2>8. result'.reason \notin {"llm threw", "llm failed", "empty response"}
    BY <2>2, Zenon
  <2> QED
    BY <2>0, <2>2, <2>5, <2>7, <2>8
<1>15. CASE NotifyFinal
  <2>1. /\ phase = "notify" /\ phase' = "idle" /\ hookSet' = hookSet
        /\ result' = [status |-> "success", reason |-> "", steps |-> stepId + 1,
                      tokens |-> totalTokens', lastError |-> FALSE]
    BY <1>15 DEF NotifyFinal, Return
  <2>2. result'.reason = "" /\ result'.steps = stepId + 1 /\ result'.status = "success"
    BY <2>1
  <2>3. hookSet => Len(delivered') = stepId + 1
    BY <1>15, <2>1, DeliverAppends DEF NotifyFinal
  <2> QED
    <3>1. result'.reason \notin {"llm threw", "llm failed", "empty response", "max steps"}
      BY <2>2, Zenon
    <3>2. stepId + 1 \in Nat
      BY DEF ControlInv
    <3>3. ASSUME hookSet PROVE result'.steps = Len(delivered') + 0
      <4>1. result'.steps = Len(delivered') /\ Len(delivered') \in Nat
        BY <2>2, <2>3, <3>2, <3>3
      <4> QED
        BY <4>1, PlusNone
    <3> QED
      BY <2>1, <3>1, <3>3
<1>16. CASE NotifyStopped
  <2>1. /\ phase = "notify" /\ phase' = "idle" /\ hookSet' = hookSet
        /\ result' = [status |-> "failure", reason |-> "loop", steps |-> stepId + 1,
                      tokens |-> totalTokens', lastError |-> FALSE]
    BY <1>16 DEF NotifyStopped, Return
  <2>2. result'.reason = "loop" /\ result'.steps = stepId + 1 /\ result'.status = "failure"
    BY <2>1
  <2>3. hookSet => Len(delivered') = stepId + 1
    BY <1>16, <2>1, DeliverAppends DEF NotifyStopped
  <2> QED
    BY <2>1, <2>2, <2>3
<1>17. CASE NotifyCall
  BY <1>17 DEF NotifyCall, Deliver
<1>18. CASE Observe
  <2> SUFFICES ASSUME phase' = "idle" PROVE Reports
    OBVIOUS
  <2>0. phase = "observe" /\ NextIteration /\ step' = step
    BY <1>18 DEF Observe
  <2>1. /\ ~(stepId + 1 < maxSteps)
        /\ result' = [status |-> "failure", reason |-> "max steps", steps |-> maxSteps,
                      tokens |-> totalTokens, lastError |-> lastError]
    BY <2>0 DEF NextIteration
  <2>2. result'.reason = "max steps" /\ result'.steps = maxSteps /\ result'.lastError = lastError
    BY <2>1
  <2>3. maxSteps = stepId + 1
    <3>1. stepId \in Nat /\ maxSteps \in Nat /\ stepId < maxSteps
      BY <2>0 DEF ControlInv
    <3>2. ~(stepId + 1 < maxSteps)
      BY <2>1
    <3> QED
      BY <3>1, <3>2, LastStep
  <2>4. hookSet => Len(delivered') = stepId + 1
    BY <1>18, <2>0 DEF Observe
  <2>5. lastError = ~step.ok
    BY <2>0 DEF StepInv
  <2>6. stepId + 1 \in Nat
    BY DEF ControlInv
  <2>7. ASSUME hookSet PROVE result'.steps = Len(delivered') + 0
    <3>1. result'.steps = Len(delivered') /\ Len(delivered') \in Nat
      BY <2>2, <2>3, <2>4, <2>6, <2>7
    <3> QED
      BY <3>1, PlusNone
  <2>8. result'.reason \notin {"llm threw", "llm failed", "empty response"}
    BY <2>2, Zenon
  <2> QED
    BY <2>0, <2>2, <2>5, <2>7, <2>8
<1>19. CASE ObserveThrows
  <2>1. /\ phase = "observe" /\ phase' = "idle" /\ hookSet' = hookSet
        /\ result' = [status |-> "threw", reason |-> "observe", steps |-> 0,
                      tokens |-> totalTokens', lastError |-> FALSE]
    BY <1>19 DEF ObserveThrows, Return
  <2>2. result'.reason = "observe" /\ result'.steps = 0 /\ result'.status = "threw"
    BY <2>1
  <2>3. delivered' = delivered
    BY <1>19 DEF ObserveThrows
  <2> QED
    BY <2>1, <2>2, <2>3
<1>20. CASE UNCHANGED vars
  BY <1>20 DEF vars
<1> QED
  BY <1>1, <1>2, <1>3, <1>4, <1>5, <1>6, <1>7, <1>8, <1>9, <1>10, <1>11, <1>12, <1>13, <1>14, <1>15, <1>16, <1>17, <1>18, <1>19, <1>20
  DEF Next, RunStep

-----------------------------------------------------------------------------
(* The remaining types.                                                      *)
ResultType == [status : {"none", "success", "failure", "threw"}, reason : Reasons,
               steps : Nat, tokens : 0..MaxCount, lastError : BOOLEAN]

LEMMA ThresholdsHold == MaxHistory \in Nat \ {0}
  BY DetectorAssumption DEF ValidConfig, ValidThreshold

LEMMA WindowFits ==
  ASSUME history \in Seq(Signatures), Len(history) <= MaxHistory, NEW s \in Signatures
  PROVE  Window(s) \in Seq(Signatures) /\ Len(Window(s)) <= MaxHistory
<1>1. MaxHistory \in Nat \ {0} /\ Len(history) \in Nat
  BY ThresholdsHold, LenProperties
<1>2. CASE Len(history) = MaxHistory
  <2>1. history # <<>>
    BY <1>1, <1>2
  <2>2. Tail(history) \in Seq(Signatures) /\ Len(Tail(history)) = Len(history) - 1
    BY <2>1, HeadTailProperties
  <2>3. Window(s) = Append(Tail(history), s)
    BY <1>2 DEF Window
  <2> QED
    BY <1>1, <1>2, <2>2, <2>3, AppendProperties
<1>3. CASE Len(history) # MaxHistory
  <2>1. Window(s) = Append(history, s)
    BY <1>3 DEF Window
  <2> QED
    BY <1>1, <1>3, <2>1, AppendProperties
<1> QED
  BY <1>2, <1>3

LEMMA ReturnTyped ==
  ASSUME NEW status \in {"success", "failure", "threw"}, NEW reason \in Reasons, NEW n \in Nat,
         Return(status, reason, n), totalTokens' \in 0..MaxCount
  PROVE  result' \in ResultType
  BY DEF Return, ResultType

LEMMA IterationTyped ==
  ASSUME NextIteration, result \in ResultType, maxSteps \in Nat, lastError \in BOOLEAN,
         totalTokens \in 0..MaxCount
  PROVE  result' \in ResultType
<1>1. "max steps" \in Reasons
  BY DEF Reasons
<1> DEFINE r == [status |-> "failure", reason |-> "max steps", steps |-> maxSteps,
                 tokens |-> totalTokens, lastError |-> lastError]
<1>2. r \in ResultType
  BY <1>1 DEF ResultType
<1>3. result' = result \/ result' = r
  BY DEF NextIteration
<1> QED
  BY <1>2, <1>3

LEMMA WindowStep ==
  ASSUME history \in Seq(Signatures), Len(history) <= MaxHistory, StepInv, [Next]_vars
  PROVE  history' \in Seq(Signatures) /\ Len(history') <= MaxHistory
<1> USE ThresholdsHold, EmptySeq DEF DetectorReset, Observed, loopVars, traceVars
<1>1. CASE SetStepHook
  BY <1>1 DEF SetStepHook
<1>2. CASE SetMaxSteps
  BY <1>2 DEF SetMaxSteps
<1>3. CASE RunBlankTask
  BY <1>3 DEF RunBlankTask, BeginRun, Return
<1>4. CASE RunUnprepared
  BY <1>4 DEF RunUnprepared, BeginRun, Return
<1>5. CASE StartRun
  BY <1>5 DEF StartRun, BeginRun
<1>6. CASE ThinkThrows
  BY <1>6 DEF ThinkThrows, Return
<1>7. CASE ThinkFails
  BY <1>7 DEF ThinkFails, CountTokens, Return
<1>8. CASE ThinkReplies
  BY <1>8 DEF ThinkReplies, CountTokens
<1>9. CASE DispatchInvalid
  BY <1>9 DEF DispatchInvalid
<1>10. CASE DispatchFinal
  BY <1>10 DEF DispatchFinal
<1>11. CASE DispatchCall
  <2>1. step.signature \in Signatures /\ history' = Window(step.signature)
    BY <1>11 DEF DispatchCall, Observed, StepInv
  <2> QED
    BY <2>1, WindowFits
<1>12. CASE Act
  BY <1>12 DEF Act
<1>13. CASE NotifyFails
  BY <1>13 DEF NotifyFails, Deliver, Return
<1>14. CASE NotifyInvalid
  BY <1>14 DEF NotifyInvalid, Deliver, NextIteration
<1>15. CASE NotifyFinal
  BY <1>15 DEF NotifyFinal, Deliver, Return
<1>16. CASE NotifyStopped
  BY <1>16 DEF NotifyStopped, Deliver, Return
<1>17. CASE NotifyCall
  BY <1>17 DEF NotifyCall, Deliver
<1>18. CASE Observe
  BY <1>18 DEF Observe, NextIteration
<1>19. CASE ObserveThrows
  BY <1>19 DEF ObserveThrows, Return
<1>20. CASE UNCHANGED vars
  BY <1>20 DEF vars
<1> QED
  BY <1>1, <1>2, <1>3, <1>4, <1>5, <1>6, <1>7, <1>8, <1>9, <1>10, <1>11, <1>12, <1>13, <1>14, <1>15, <1>16, <1>17, <1>18, <1>19, <1>20
  DEF Next, RunStep

LEMMA SequencesStep ==
  ASSUME conversation \in Seq({"system", "user", "assistant"}), executed \in Seq(Signatures), StepInv, [Next]_vars
  PROVE  conversation' \in Seq({"system", "user", "assistant"}) /\ executed' \in Seq(Signatures)
<1> USE AppendProperties, EmptySeq DEF loopVars, traceVars
<1>1. CASE SetStepHook
  BY <1>1 DEF SetStepHook
<1>2. CASE SetMaxSteps
  BY <1>2 DEF SetMaxSteps
<1>3. CASE RunBlankTask
  BY <1>3 DEF RunBlankTask, BeginRun, Return
<1>4. CASE RunUnprepared
  BY <1>4 DEF RunUnprepared, BeginRun, Return
<1>5. CASE StartRun
  BY <1>5 DEF StartRun, BeginRun
<1>6. CASE ThinkThrows
  BY <1>6 DEF ThinkThrows, Return
<1>7. CASE ThinkFails
  BY <1>7 DEF ThinkFails, CountTokens, Return
<1>8. CASE ThinkReplies
  BY <1>8 DEF ThinkReplies, CountTokens
<1>9. CASE DispatchInvalid
  BY <1>9 DEF DispatchInvalid
<1>10. CASE DispatchFinal
  BY <1>10 DEF DispatchFinal
<1>11. CASE DispatchCall
  BY <1>11 DEF DispatchCall
<1>12. CASE Act
  <2>1. step.signature \in Signatures /\ executed' = Append(executed, step.signature)
        /\ conversation' = conversation
    BY <1>12 DEF Act, StepInv
  <2> QED
    BY <2>1, AppendProperties
<1>13. CASE NotifyFails
  BY <1>13 DEF NotifyFails, Deliver, Return
<1>14. CASE NotifyInvalid
  BY <1>14 DEF NotifyInvalid, Deliver, NextIteration
<1>15. CASE NotifyFinal
  BY <1>15 DEF NotifyFinal, Deliver, Return
<1>16. CASE NotifyStopped
  BY <1>16 DEF NotifyStopped, Deliver, Return
<1>17. CASE NotifyCall
  BY <1>17 DEF NotifyCall, Deliver
<1>18. CASE Observe
  BY <1>18 DEF Observe, NextIteration
<1>19. CASE ObserveThrows
  BY <1>19 DEF ObserveThrows, Return
<1>20. CASE UNCHANGED vars
  BY <1>20 DEF vars
<1> QED
  BY <1>1, <1>2, <1>3, <1>4, <1>5, <1>6, <1>7, <1>8, <1>9, <1>10, <1>11, <1>12, <1>13, <1>14, <1>15, <1>16, <1>17, <1>18, <1>19, <1>20
  DEF Next, RunStep

LEMMA ResultStep ==
  ASSUME result \in ResultType, ControlInv, lastError \in BOOLEAN, totalTokens \in 0..MaxCount, totalTokens' \in 0..MaxCount, [Next]_vars
  PROVE  result' \in ResultType
<1> USE DEF NoResult, loopVars, traceVars
<1>1. CASE SetStepHook
  BY <1>1 DEF SetStepHook
<1>2. CASE SetMaxSteps
  BY <1>2 DEF SetMaxSteps
<1>3. CASE RunBlankTask
  <2>1. \E reason \in {"blank task"} : Return("failure", reason, 0)
    BY <1>3 DEF RunBlankTask
  <2>2. {"blank task"} \subseteq Reasons /\ 0 \in Nat
    BY DEF Reasons, ControlInv
  <2> QED
    BY <2>1, <2>2, ReturnTyped
<1>4. CASE RunUnprepared
  <2>1. \E reason \in {"skills"} : Return("failure", reason, 0)
    BY <1>4 DEF RunUnprepared
  <2>2. {"skills"} \subseteq Reasons /\ 0 \in Nat
    BY DEF Reasons, ControlInv
  <2> QED
    BY <2>1, <2>2, ReturnTyped
<1>5. CASE StartRun
  <2>1. NoResult \in ResultType
    <3>1. 0 \in 0..MaxCount /\ "" \in Reasons
      BY LoopAssumption DEF Reasons
    <3> QED
      BY <3>1 DEF NoResult, ResultType
  <2> QED
    BY <1>5, <2>1 DEF StartRun
<1>6. CASE ThinkThrows
  <2>1. \E reason \in {"llm threw"} : Return("failure", reason, stepId + 1)
    BY <1>6 DEF ThinkThrows
  <2>2. {"llm threw"} \subseteq Reasons /\ stepId + 1 \in Nat
    BY DEF Reasons, ControlInv
  <2> QED
    BY <2>1, <2>2, ReturnTyped
<1>7. CASE ThinkFails
  <2>1. \E reason \in {"llm failed", "empty response"} : Return("failure", reason, stepId + 1)
    BY <1>7 DEF ThinkFails
  <2>2. {"llm failed", "empty response"} \subseteq Reasons /\ stepId + 1 \in Nat
    BY DEF Reasons, ControlInv
  <2> QED
    BY <2>1, <2>2, ReturnTyped
<1>8. CASE ThinkReplies
  BY <1>8 DEF ThinkReplies, CountTokens
<1>9. CASE DispatchInvalid
  BY <1>9 DEF DispatchInvalid
<1>10. CASE DispatchFinal
  BY <1>10 DEF DispatchFinal
<1>11. CASE DispatchCall
  BY <1>11 DEF DispatchCall
<1>12. CASE Act
  BY <1>12 DEF Act
<1>13. CASE NotifyFails
  <2>1. \E reason \in {"hook"} : Return("failure", reason, stepId + 1)
    BY <1>13 DEF NotifyFails
  <2>2. {"hook"} \subseteq Reasons /\ stepId + 1 \in Nat
    BY DEF Reasons, ControlInv
  <2> QED
    BY <2>1, <2>2, ReturnTyped
<1>14. CASE NotifyInvalid
  <2>1. NextIteration /\ maxSteps \in Nat
    BY <1>14 DEF NotifyInvalid, ControlInv
  <2> QED
    BY <2>1, IterationTyped
<1>15. CASE NotifyFinal
  <2>1. \E reason \in {""} : Return("success", reason, stepId + 1)
    BY <1>15 DEF NotifyFinal
  <2>2. {""} \subseteq Reasons /\ stepId + 1 \in Nat
    BY DEF Reasons, ControlInv
  <2> QED
    BY <2>1, <2>2, ReturnTyped
<1>16. CASE NotifyStopped
  <2>1. \E reason \in {"loop"} : Return("failure", reason, stepId + 1)
    BY <1>16 DEF NotifyStopped
  <2>2. {"loop"} \subseteq Reasons /\ stepId + 1 \in Nat
    BY DEF Reasons, ControlInv
  <2> QED
    BY <2>1, <2>2, ReturnTyped
<1>17. CASE NotifyCall
  BY <1>17 DEF NotifyCall, Deliver
<1>18. CASE Observe
  <2>1. NextIteration /\ maxSteps \in Nat
    BY <1>18 DEF Observe, ControlInv
  <2> QED
    BY <2>1, IterationTyped
<1>19. CASE ObserveThrows
  <2>1. \E reason \in {"observe"} : Return("threw", reason, 0)
    BY <1>19 DEF ObserveThrows
  <2>2. {"observe"} \subseteq Reasons /\ 0 \in Nat
    BY DEF Reasons, ControlInv
  <2> QED
    BY <2>1, <2>2, ReturnTyped
<1>20. CASE UNCHANGED vars
  BY <1>20 DEF vars
<1> QED
  BY <1>1, <1>2, <1>3, <1>4, <1>5, <1>6, <1>7, <1>8, <1>9, <1>10, <1>11, <1>12, <1>13, <1>14, <1>15, <1>16, <1>17, <1>18, <1>19, <1>20
  DEF Next, RunStep

LEMMA ScalarsStep ==
  ASSUME runs \in 0..MaxRuns, maxSteps \in StepLimits, [Next]_vars
  PROVE  runs' \in 0..MaxRuns /\ maxSteps' \in StepLimits
<1> USE LoopAssumption DEF loopVars, traceVars
<1>1. CASE SetStepHook
  BY <1>1 DEF SetStepHook
<1>2. CASE SetMaxSteps
  BY <1>2 DEF SetMaxSteps
<1>3. CASE RunBlankTask
  <2>1. runs < MaxRuns /\ runs' = runs + 1 /\ maxSteps' = maxSteps
    BY <1>3 DEF RunBlankTask, BeginRun
  <2> QED
    BY <2>1
<1>4. CASE RunUnprepared
  <2>1. runs < MaxRuns /\ runs' = runs + 1 /\ maxSteps' = maxSteps
    BY <1>4 DEF RunUnprepared, BeginRun
  <2> QED
    BY <2>1
<1>5. CASE StartRun
  <2>1. runs < MaxRuns /\ runs' = runs + 1 /\ maxSteps' = maxSteps
    BY <1>5 DEF StartRun, BeginRun
  <2> QED
    BY <2>1
<1>6. CASE ThinkThrows
  BY <1>6 DEF ThinkThrows, Return
<1>7. CASE ThinkFails
  BY <1>7 DEF ThinkFails, CountTokens, Return
<1>8. CASE ThinkReplies
  BY <1>8 DEF ThinkReplies, CountTokens
<1>9. CASE DispatchInvalid
  BY <1>9 DEF DispatchInvalid
<1>10. CASE DispatchFinal
  BY <1>10 DEF DispatchFinal
<1>11. CASE DispatchCall
  BY <1>11 DEF DispatchCall
<1>12. CASE Act
  BY <1>12 DEF Act
<1>13. CASE NotifyFails
  BY <1>13 DEF NotifyFails, Deliver, Return
<1>14. CASE NotifyInvalid
  BY <1>14 DEF NotifyInvalid, Deliver, NextIteration
<1>15. CASE NotifyFinal
  BY <1>15 DEF NotifyFinal, Deliver, Return
<1>16. CASE NotifyStopped
  BY <1>16 DEF NotifyStopped, Deliver, Return
<1>17. CASE NotifyCall
  BY <1>17 DEF NotifyCall, Deliver
<1>18. CASE Observe
  BY <1>18 DEF Observe, NextIteration
<1>19. CASE ObserveThrows
  BY <1>19 DEF ObserveThrows, Return
<1>20. CASE UNCHANGED vars
  BY <1>20 DEF vars
<1> QED
  BY <1>1, <1>2, <1>3, <1>4, <1>5, <1>6, <1>7, <1>8, <1>9, <1>10, <1>11, <1>12, <1>13, <1>14, <1>15, <1>16, <1>17, <1>18, <1>19, <1>20
  DEF Next, RunStep

-----------------------------------------------------------------------------
(* LoopInv is inductive.                                                     *)
TypesInv ==
  /\ history \in Seq(Signatures) /\ Len(history) <= MaxHistory
  /\ maxSteps \in StepLimits /\ runs \in 0..MaxRuns
  /\ conversation \in Seq({"system", "user", "assistant"})
  /\ executed \in Seq(Signatures)
  /\ result \in ResultType
  /\ lastError \in BOOLEAN

LoopInv ==
  TypesInv /\ TokensInv /\ ControlInv /\ StepInv /\ ConversationInv /\ DeliveredInv

LEMMA LoopInitially == Init => LoopInv
<1> SUFFICES ASSUME Init PROVE LoopInv
  OBVIOUS
<1>1. TokensInv
  BY TokensInitially
<1>2. 0 \in 0..MaxCount /\ 0 \in 0..MaxRuns /\ "" \in Reasons
  BY LoopAssumption DEF Reasons
<1>3. result \in ResultType
  BY <1>2 DEF Init, NoResult, ResultType
<1>4. /\ history \in Seq(Signatures) /\ executed \in Seq(Signatures) /\ delivered \in Seq(Delivery)
      /\ conversation \in Seq({"system", "user", "assistant"}) /\ Len(history) = 0
  BY EmptySeq DEF Init, DetectorInit
<1>5. TypesInv
  <2>1. Len(history) <= MaxHistory
    BY <1>4, ThresholdsHold
  <2>2. maxSteps \in StepLimits /\ runs = 0 /\ lastError = FALSE
    BY DEF Init
  <2> QED
    BY <1>2, <1>3, <1>4, <2>1, <2>2 DEF TypesInv
<1>6. ControlInv /\ ConversationInv
  BY LoopAssumption DEF Init, ControlInv, ConversationInv, Phases
<1>7. StepInv
  BY NoStepTyped DEF Init, StepInv
<1>8. DeliveredInv
  BY <1>4 DEF Init, DeliveredInv
<1> QED
  BY <1>1, <1>5, <1>6, <1>7, <1>8 DEF LoopInv

LEMMA LoopPreserved ==
  ASSUME LoopInv, [Next]_vars
  PROVE  LoopInv'
<1> USE DEF LoopInv
<1>1. TokensInv' /\ totalTokens \in 0..MaxCount /\ totalTokens' \in 0..MaxCount
  BY TokensPreserved DEF TokensInv
<1>2. ControlInv' /\ StepInv' /\ lastError' \in BOOLEAN
  BY ControlStep, StepStep DEF TypesInv
<1>3. ConversationInv' /\ DeliveredInv'
  BY ConversationStep, DeliveredStep DEF ControlInv
<1>4. result' \in ResultType
  BY <1>1, ResultStep DEF TypesInv
<1>5. history' \in Seq(Signatures) /\ Len(history') <= MaxHistory
  BY WindowStep DEF TypesInv
<1>6. conversation' \in Seq({"system", "user", "assistant"}) /\ executed' \in Seq(Signatures)
  BY SequencesStep DEF TypesInv
<1>7. runs' \in 0..MaxRuns /\ maxSteps' \in StepLimits
  BY ScalarsStep DEF TypesInv
<1> QED
  BY <1>1, <1>2, <1>3, <1>4, <1>5, <1>6, <1>7 DEF TypesInv

(* The invariant of run(), for every configuration and any number of runs    *)
(* that the bound on their number allows.                                    *)
THEOREM LoopInvariance == Spec => []LoopInv
<1>1. Init => LoopInv
  BY LoopInitially
<1>2. LoopInv /\ [Next]_vars => LoopInv'
  BY LoopPreserved
<1> QED
  BY <1>1, <1>2, PTL DEF Spec

(* Types.                                                                    *)
THEOREM TypesHold == Spec => []TypeOK
<1>1. LoopInv => TypeOK
  BY DEF LoopInv, TypesInv, TokensInv, ControlInv, StepInv, DeliveredInv, TypeOK, Phases,
     StepType, ResultType, Delivery
<1> QED
  BY <1>1, LoopInvariance, PTL

(* What the LLM is sent alternates, whatever fails in between                *)
(* (agent_loop.cpp:186-362).                                                 *)
THEOREM ConversationIsAlternating == Spec => []ConversationAlternates
<1>1. LoopInv => ConversationAlternates
  BY DEF LoopInv, ConversationInv, ConversationAlternates, Turns, Role
<1> QED
  BY <1>1, LoopInvariance, PTL

(* A run reports the steps the hook saw, and names an error exactly when its *)
(* last step failed (agent_loop.cpp:310, 323-327).                           *)
THEOREM ReportTrue == Spec => ReportMatchesRun
<1>1. LoopInv /\ [Next]_vars => [Reports]_vars
  BY ReportStep DEF LoopInv
<1> QED
  BY <1>1, LoopInvariance, PTL DEF Spec, ReportMatchesRun, Reports

-----------------------------------------------------------------------------
(* The hook.  Number(d, n) of the first n steps in d are calls; they are the *)
(* calls e, in order.                                                        *)
Number(d, n) == Cardinality({i \in 1..n : d[i].kind = "call"})

Seen(d, e) ==
  /\ Len(e) = Number(d, Len(d))
  /\ \A i \in 1..Len(d) : d[i].kind = "call" => e[Number(d, i)] = d[i].signature

InOrder(d) == \A i \in 1..Len(d) : d[i].id = i - 1

LEMMA NumberFacts ==
  ASSUME NEW d, NEW n \in Nat
  PROVE  /\ Number(d, n) \in Nat /\ Number(d, 0) = 0
         /\ d[n + 1].kind = "call" => Number(d, n + 1) = Number(d, n) + 1
         /\ d[n + 1].kind # "call" => Number(d, n + 1) = Number(d, n)
         /\ \A i \in 1..n : /\ Number(d, i) \in Nat /\ Number(d, i) <= Number(d, n)
                            /\ d[i].kind = "call" => Number(d, i) >= 1
<1> DEFINE C(k) == {i \in 1..k : d[i].kind = "call"}
<1>1. ASSUME NEW k \in Nat
      PROVE  IsFiniteSet(C(k)) /\ Cardinality(C(k)) \in Nat /\ Number(d, k) = Cardinality(C(k))
  <2>1. IsFiniteSet(1..k)
    BY FS_Interval
  <2>2. C(k) \subseteq 1..k
    OBVIOUS
  <2>3. IsFiniteSet(C(k))
    BY <2>1, <2>2, FS_Subset
  <2> QED
    BY <2>3, FS_CardinalityType DEF Number
<1>2. C(0) = {} /\ Number(d, 0) = 0
  <2>1. C(0) = {}
    OBVIOUS
  <2>2. Number(d, 0) = Cardinality(C(0))
    BY <1>1
  <2> QED
    BY <2>1, <2>2, FS_EmptySet
<1>3. ASSUME d[n + 1].kind = "call" PROVE Number(d, n + 1) = Number(d, n) + 1
  <2>1. C(n + 1) = C(n) \cup {n + 1} /\ n + 1 \notin C(n) /\ n + 1 \in Nat
    BY <1>3
  <2> HIDE DEF C
  <2>2. Cardinality(C(n) \cup {n + 1}) = Cardinality(C(n)) + 1
    BY <1>1, <2>1, FS_AddElement
  <2> QED
    BY <1>1, <2>1, <2>2
<1>4. ASSUME d[n + 1].kind # "call" PROVE Number(d, n + 1) = Number(d, n)
  <2>1. C(n + 1) = C(n) /\ n + 1 \in Nat
    BY <1>4
  <2> HIDE DEF C
  <2> QED
    BY <1>1, <2>1
<1>5. ASSUME NEW i \in 1..n
      PROVE  /\ Number(d, i) \in Nat /\ Number(d, i) <= Number(d, n)
             /\ d[i].kind = "call" => Number(d, i) >= 1
  <2>1. i \in Nat /\ C(i) \subseteq C(n) /\ (d[i].kind = "call" => i \in C(i))
    OBVIOUS
  <2> HIDE DEF C
  <2>2. Cardinality(C(i)) <= Cardinality(C(n))
    BY <1>1, <2>1, FS_Subset
  <2>3. i \in C(i) => Cardinality(C(i)) # 0
    BY <1>1, <2>1, FS_EmptySet
  <2> QED
    BY <1>1, <2>1, <2>2, <2>3
<1> QED
  BY <1>1, <1>2, <1>3, <1>4, <1>5

(* Numbers read no further than they count.                                  *)
LEMMA NumberLocal ==
  ASSUME NEW d, NEW f, NEW n \in Nat, \A i \in 1..n : d[i] = f[i]
  PROVE  Number(d, n) = Number(f, n)
<1>1. {i \in 1..n : d[i].kind = "call"} = {i \in 1..n : f[i].kind = "call"}
  OBVIOUS
<1> QED
  BY <1>1 DEF Number

LEMMA SeenGrows ==
  ASSUME NEW d \in Seq(Delivery), NEW x \in Delivery, NEW e \in Seq(Signatures), Seen(d, e)
  PROVE  /\ x.kind # "call" => Seen(Append(d, x), e)
         /\ x.kind = "call" /\ x.signature \in Signatures =>
              Seen(Append(d, x), Append(e, x.signature))
<1> DEFINE n == Len(d)
           f == Append(d, x)
           s == x.signature
           g == Append(e, s)
<1>1. n \in Nat /\ Len(f) = n + 1 /\ f[n + 1] = x /\ \A i \in 1..n : f[i] = d[i]
  OBVIOUS
<1>2. s \in Signatures =>
        /\ Len(g) = Len(e) + 1 /\ g[Len(e) + 1] = s
        /\ \A i \in 1..Len(e) : g[i] = e[i]
  OBVIOUS
<1>3. Len(e) \in Nat
  OBVIOUS
<1> HIDE DEF n, f, g, s
<1>4. \A i \in 1..n : /\ Number(f, i) = Number(d, i) /\ Number(d, i) \in Nat
                      /\ Number(d, i) <= Number(d, n)
                      /\ d[i].kind = "call" => Number(d, i) >= 1
  <2> TAKE i \in 1..n
  <2>1. i \in Nat /\ \A j \in 1..i : f[j] = d[j]
    BY <1>1
  <2>2. Number(f, i) = Number(d, i)
    BY <2>1, NumberLocal
  <2> QED
    BY <1>1, <2>2, NumberFacts
<1>5. Number(f, n) = Number(d, n) /\ Number(d, n) \in Nat
  <2>1. Number(f, n) = Number(d, n)
    BY <1>1, NumberLocal
  <2> QED
    BY <1>1, <2>1, NumberFacts
<1>6. Len(e) = Number(d, n) /\ \A i \in 1..n : d[i].kind = "call" => e[Number(d, i)] = d[i].signature
  BY DEF Seen, n
<1>7. ASSUME x.kind # "call" PROVE Seen(f, e)
  <2>1. Number(f, n + 1) = Number(f, n)
    BY <1>1, <1>7, NumberFacts
  <2>2. ASSUME NEW i \in 1..(n + 1), f[i].kind = "call"
        PROVE  e[Number(f, i)] = f[i].signature
    <3>1. i # n + 1
      BY <1>1, <1>7, <2>2
    <3>2. i \in 1..n
      BY <1>1, <3>1
    <3> QED
      BY <1>1, <1>4, <1>6, <2>2, <3>2
  <2> QED
    BY <1>1, <1>5, <1>6, <2>1, <2>2 DEF Seen
<1>8. ASSUME x.kind = "call", s \in Signatures PROVE Seen(f, g)
  <2>1. Number(f, n + 1) = Number(f, n) + 1
    BY <1>1, <1>8, NumberFacts
  <2>2. ASSUME NEW i \in 1..(n + 1), f[i].kind = "call"
        PROVE  g[Number(f, i)] = f[i].signature
    <3>1. CASE i = n + 1
      <4>1. Number(f, i) = Len(e) + 1 /\ f[i] = x
        BY <1>1, <1>5, <1>6, <2>1, <3>1
      <4> QED
        BY <1>2, <1>8, <4>1 DEF s
    <3>2. CASE i # n + 1
      <4>1. i \in 1..n
        BY <1>1, <3>2
      <4>2. /\ Number(f, i) = Number(d, i) /\ Number(d, i) \in 1..Len(e)
            /\ e[Number(d, i)] = f[i].signature
        BY <1>1, <1>3, <1>4, <1>5, <1>6, <2>2, <4>1
      <4> QED
        BY <1>2, <1>8, <4>2
    <3> QED
      BY <3>1, <3>2
  <2>3. Len(g) = Number(f, n + 1)
    BY <1>2, <1>5, <1>6, <1>8, <2>1
  <2> QED
    BY <1>1, <2>2, <2>3 DEF Seen
<1> QED
  BY <1>7, <1>8 DEF f, g, s

(* While a call waits for the hook, the calls seen are all but that one.     *)
HookInv ==
  /\ InOrder(delivered)
  /\ hookSet /\ phase # "idle" =>
       IF phase = "notify" /\ step.kind = "call"
         THEN /\ step.signature \in Signatures
              /\ \E e \in Seq(Signatures) : executed = Append(e, step.signature) /\ Seen(delivered, e)
         ELSE Seen(delivered, executed)

LEMMA NothingSeen == Seen(<<>>, <<>>) /\ InOrder(<<>>)
BY NumberFacts DEF Seen, InOrder

LEMMA HookInitially == Init => HookInv
BY NothingSeen DEF Init, HookInv

(* What a delivery adds.                                                     *)
LEMMA DeliverySeen ==
  ASSUME LoopInv, HookInv, phase = "notify", Deliver
  PROVE  /\ InOrder(delivered')
         /\ hookSet => Seen(delivered', executed)
<1> DEFINE d == [id |-> stepId, kind |-> step.kind, signature |-> step.signature]
<1>1. d \in Delivery /\ d.id = stepId /\ d.kind = step.kind /\ d.signature = step.signature
  BY DEF LoopInv, ControlInv, StepInv, StepType, Delivery
<1>2. delivered' = IF hookSet THEN Append(delivered, d) ELSE delivered
  BY DEF Deliver
<1>3. delivered \in Seq(Delivery) /\ (hookSet => Len(delivered) = stepId)
  BY DEF LoopInv, DeliveredInv
<1>4. executed \in Seq(Signatures)
  BY DEF LoopInv, TypesInv
<1> HIDE DEF d
<1>5. CASE ~hookSet
  BY <1>2, <1>5 DEF HookInv
<1>6. CASE hookSet
  <2>1. delivered' = Append(delivered, d) /\ Len(delivered) = stepId /\ stepId \in Nat
    BY <1>2, <1>3, <1>6
  <2>2. InOrder(delivered')
    <3>1. /\ Len(delivered') = stepId + 1 /\ delivered'[stepId + 1] = d
          /\ \A i \in 1..stepId : delivered'[i] = delivered[i]
      BY <1>1, <1>3, <2>1
    <3>2. \A i \in 1..(stepId + 1) : delivered'[i].id = i - 1
      BY <1>1, <2>1, <3>1 DEF HookInv, InOrder
    <3> QED
      BY <3>1, <3>2 DEF InOrder
  <2>3. Seen(delivered', executed)
    <3>1. CASE step.kind = "call"
      <4>1. step.signature \in Signatures
        BY <1>6, <3>1 DEF HookInv
      <4>2. PICK e \in Seq(Signatures) : executed = Append(e, step.signature) /\ Seen(delivered, e)
        BY <1>6, <3>1 DEF HookInv
      <4> QED
        BY <1>1, <1>3, <2>1, <3>1, <4>1, <4>2, SeenGrows
    <3>2. CASE step.kind # "call"
      <4>1. Seen(delivered, executed)
        BY <1>6, <3>2 DEF HookInv
      <4> QED
        BY <1>1, <1>3, <1>4, <2>1, <3>2, <4>1, SeenGrows
    <3> QED
      BY <3>1, <3>2
  <2> QED
    BY <2>2, <2>3
<1> QED
  BY <1>5, <1>6

LEMMA HookStep ==
  ASSUME LoopInv, HookInv, [Next]_vars
  PROVE  HookInv'
<1> USE DEF loopVars, traceVars
<1>1. CASE SetStepHook \/ SetMaxSteps
  BY <1>1 DEF SetStepHook, SetMaxSteps, HookInv, InOrder
<1>2. CASE RunBlankTask \/ RunUnprepared
  <2>1. phase' = "idle" /\ delivered' = <<>>
    BY <1>2 DEF RunBlankTask, RunUnprepared, BeginRun, Return
  <2> QED
    BY <2>1, NothingSeen DEF HookInv
<1>3. CASE StartRun
  <2>1. delivered' = <<>> /\ executed' = <<>> /\ phase' = "think"
    BY <1>3 DEF StartRun, BeginRun
  <2> QED
    BY <2>1, NothingSeen DEF HookInv
<1>4. CASE ThinkThrows \/ ThinkFails \/ ObserveThrows
  <2>1. phase' = "idle" /\ delivered' = delivered
    <3>1. CASE ThinkThrows
      BY <3>1 DEF ThinkThrows, Return
    <3>2. CASE ThinkFails
      BY <3>2 DEF ThinkFails, CountTokens, Return
    <3>3. CASE ObserveThrows
      BY <3>3 DEF ObserveThrows, Return
    <3> QED
      BY <1>4, <3>1, <3>2, <3>3
  <2> QED
    BY <2>1 DEF HookInv
<1>5. CASE NotifyFails \/ NotifyInvalid \/ NotifyFinal \/ NotifyStopped \/ NotifyCall
  <2>1. /\ phase = "notify" /\ Deliver /\ hookSet' = hookSet /\ executed' = executed
        /\ phase' # "notify"
    <3>1. CASE NotifyFails
      BY <3>1 DEF NotifyFails, Return
    <3>2. CASE NotifyInvalid
      BY <3>2 DEF NotifyInvalid, NextIteration
    <3>3. CASE NotifyFinal
      BY <3>3 DEF NotifyFinal, Return
    <3>4. CASE NotifyStopped
      BY <3>4 DEF NotifyStopped, Return
    <3>5. CASE NotifyCall
      BY <3>5 DEF NotifyCall
    <3> QED
      BY <1>5, <3>1, <3>2, <3>3, <3>4, <3>5
  <2>2. InOrder(delivered') /\ (hookSet => Seen(delivered', executed))
    BY <2>1, DeliverySeen
  <2> QED
    BY <2>1, <2>2 DEF HookInv
<1>6. CASE ThinkReplies \/ DispatchInvalid \/ DispatchFinal \/ DispatchCall \/ Observe
  <2>1. /\ delivered' = delivered /\ hookSet' = hookSet /\ executed' = executed
        /\ phase \in {"think", "dispatch", "observe"}
    <3>1. CASE ThinkReplies
      BY <3>1 DEF ThinkReplies, CountTokens
    <3>2. CASE DispatchInvalid
      BY <3>2 DEF DispatchInvalid
    <3>3. CASE DispatchFinal
      BY <3>3 DEF DispatchFinal
    <3>4. CASE DispatchCall
      BY <3>4 DEF DispatchCall
    <3>5. CASE Observe
      BY <3>5 DEF Observe, NextIteration
    <3> QED
      BY <1>6, <3>1, <3>2, <3>3, <3>4, <3>5
  <2>2. ~(phase' = "notify" /\ step'.kind = "call")
    <3>1. CASE ThinkReplies
      BY <3>1 DEF ThinkReplies, CountTokens
    <3>2. CASE DispatchInvalid
      BY <3>2 DEF DispatchInvalid
    <3>3. CASE DispatchFinal
      <4>1. step' = [step EXCEPT !.ok = TRUE] /\ step.kind = "final"
        BY <3>3 DEF DispatchFinal
      <4>2. step'.kind = "final"
        BY <4>1, StepUpdates DEF LoopInv, StepInv
      <4> QED
        BY <4>2
    <3>4. CASE DispatchCall
      <4>1. \/ step' = [step EXCEPT !.kind = "stopped"]
            \/ phase' = "act"
        BY <3>4 DEF DispatchCall
      <4>2. CASE step' = [step EXCEPT !.kind = "stopped"]
        BY <4>2, StepUpdates DEF LoopInv, StepInv
      <4> QED
        BY <4>1, <4>2
    <3>5. CASE Observe
      BY <3>5 DEF Observe, NextIteration
    <3> QED
      BY <1>6, <3>1, <3>2, <3>3, <3>4, <3>5
  <2> QED
    BY <2>1, <2>2 DEF HookInv
<1>7. CASE Act
  <2>1. /\ phase = "act" /\ phase' = "notify" /\ step.kind = "call" /\ step \in StepType
        /\ delivered' = delivered /\ hookSet' = hookSet
        /\ executed' = Append(executed, step.signature)
        /\ step.signature \in Signatures /\ executed \in Seq(Signatures)
    BY <1>7 DEF Act, LoopInv, StepInv, TypesInv
  <2>2. step'.signature = step.signature /\ step'.kind = "call"
    BY <1>7, <2>1 DEF Act, StepType
  <2>3. InOrder(delivered') /\ (hookSet => Seen(delivered', executed))
    BY <2>1 DEF HookInv
  <2>4. hookSet' => \E e \in Seq(Signatures) :
                       executed' = Append(e, step'.signature) /\ Seen(delivered', e)
    BY <2>1, <2>2, <2>3
  <2>5. step'.signature \in Signatures
    BY <2>1, <2>2
  <2> QED
    BY <2>1, <2>2, <2>3, <2>4, <2>5, Zenon DEF HookInv
<1>8. CASE UNCHANGED vars
  BY <1>8 DEF vars, HookInv
<1> QED
  BY <1>1, <1>2, <1>3, <1>4, <1>5, <1>6, <1>7, <1>8 DEF Next, RunStep

(* The latest step delivered is the one under way, until the LLM replies.    *)
LatestInv == hookSet /\ phase \in {"think", "observe"} => LatestIsLast

LEMMA DeliveryLatest ==
  ASSUME LoopInv, phase = "notify", Deliver, hookSet, step' = step
  PROVE  LatestIsLast'
<1> DEFINE d == [id |-> stepId, kind |-> step.kind, signature |-> step.signature]
<1>1. d \in Delivery /\ d.kind = step.kind /\ d.signature = step.signature
  BY DEF LoopInv, ControlInv, StepInv, StepType, Delivery
<1>2. delivered' = Append(delivered, d) /\ delivered \in Seq(Delivery)
  BY DEF Deliver, LoopInv, DeliveredInv
<1> HIDE DEF d
<1>3. Len(delivered) \in Nat /\ Len(delivered') = Len(delivered) + 1
      /\ delivered'[Len(delivered) + 1] = d
  BY <1>1, <1>2
<1> QED
  BY <1>1, <1>3 DEF LatestIsLast

LEMMA LatestStep ==
  ASSUME LoopInv, LatestInv, [Next]_vars
  PROVE  LatestInv'
<1> USE DEF loopVars, traceVars
<1>1. CASE SetStepHook \/ SetMaxSteps \/ RunBlankTask \/ RunUnprepared
  <2>1. phase' = "idle"
    BY <1>1 DEF SetStepHook, SetMaxSteps, RunBlankTask, RunUnprepared, Return
  <2> QED
    BY <2>1 DEF LatestInv
<1>2. CASE StartRun
  <2>1. delivered' = <<>>
    BY <1>2 DEF StartRun, BeginRun
  <2>2. Len(delivered') = 0
    BY <2>1
  <2> QED
    BY <2>2 DEF LatestInv, LatestIsLast
<1>3. CASE ThinkThrows \/ ThinkFails \/ ThinkReplies \/ DispatchInvalid \/ DispatchFinal
           \/ DispatchCall \/ Act \/ ObserveThrows
  <2>1. phase' \notin {"think", "observe"}
    BY <1>3 DEF ThinkThrows, ThinkFails, ThinkReplies, DispatchInvalid, DispatchFinal,
       DispatchCall, Act, ObserveThrows, Return
  <2> QED
    BY <2>1 DEF LatestInv
<1>4. CASE NotifyFails \/ NotifyInvalid \/ NotifyFinal \/ NotifyStopped \/ NotifyCall
  <2>1. phase = "notify" /\ Deliver /\ hookSet' = hookSet /\ step' = step
    BY <1>4 DEF NotifyFails, NotifyInvalid, NotifyFinal, NotifyStopped, NotifyCall
  <2> QED
    BY <2>1, DeliveryLatest DEF LatestInv
<1>5. CASE Observe
  <2>1. phase = "observe" /\ delivered' = delivered /\ hookSet' = hookSet /\ step' = step
    BY <1>5 DEF Observe
  <2> QED
    BY <2>1 DEF LatestInv, LatestIsLast
<1>6. CASE UNCHANGED vars
  BY <1>6 DEF vars, LatestInv, LatestIsLast
<1> QED
  BY <1>1, <1>2, <1>3, <1>4, <1>5, <1>6 DEF Next, RunStep

(* Where a step of run() may come back to the LLM or return from.            *)
LEMMA Returning ==
  ASSUME [Next]_vars, phase # "idle", phase' \in {"think", "idle"}, ~UNCHANGED vars
  PROVE  /\ executed' = executed
         /\ \/ phase = "think" /\ delivered' = delivered /\ step' = step
            \/ phase = "observe" /\ delivered' = delivered /\ step' = step
            \/ phase = "notify" /\ Deliver /\ step' = step
<1> USE DEF loopVars, traceVars
<1>1. CASE ThinkThrows
  BY <1>1 DEF ThinkThrows
<1>2. CASE ThinkFails
  BY <1>2 DEF ThinkFails
<1>3. CASE NotifyFails \/ NotifyInvalid \/ NotifyFinal \/ NotifyStopped \/ NotifyCall
  BY <1>3 DEF NotifyFails, NotifyInvalid, NotifyFinal, NotifyStopped, NotifyCall
<1>4. CASE Observe \/ ObserveThrows
  BY <1>4 DEF Observe, ObserveThrows
<1>5. CASE ThinkReplies \/ DispatchInvalid \/ DispatchFinal \/ DispatchCall \/ Act
  BY <1>5 DEF ThinkReplies, DispatchInvalid, DispatchFinal, DispatchCall, Act
<1>6. CASE SetStepHook \/ SetMaxSteps \/ RunBlankTask \/ RunUnprepared \/ StartRun
  BY <1>6 DEF SetStepHook, SetMaxSteps, RunBlankTask, RunUnprepared, StartRun, BeginRun
<1> QED
  BY <1>1, <1>2, <1>3, <1>4, <1>5, <1>6 DEF Next, RunStep

(* Seen, of what a step delivers, is what HookSeesRun says of the calls.     *)
LEMMA SeenDelivered ==
  ASSUME DeliveredInv', Seen(delivered', executed'), InOrder(delivered')
  PROVE  StepsInOrder' /\ CallsDelivered'
<1>1. DOMAIN delivered' = 1..Len(delivered')
  BY DEF DeliveredInv
<1>2. \A n : CallsUpTo(n)' = Number(delivered', n)
  BY DEF CallsUpTo, Number
<1>3. StepsInOrder'
  BY <1>1 DEF StepsInOrder, InOrder
<1>4. CallsDelivered'
  BY <1>1, <1>2 DEF CallsDelivered, CallsUpTo, Number, Seen
<1> QED
  BY <1>3, <1>4

(* A hook is given a step for every reply of a run, the last one too, and in *)
(* them every executed call once and in order, however the run goes on or    *)
(* returns (agent_loop.cpp:146-165, 254-322).                                *)
THEOREM HookIsTold == Spec => HookSeesRun
<1> DEFINE Complete == hookSet /\ phase # "idle" /\ phase' \in {"think", "idle"} =>
             /\ Len(delivered') = IF phase = "think" THEN stepId ELSE stepId + 1
             /\ StepsInOrder' /\ LatestIsLast' /\ CallsDelivered'
<1>1. ASSUME LoopInv, LoopInv', HookInv, LatestInv, [Next]_vars PROVE [Complete]_vars
  <2> SUFFICES ASSUME hookSet, phase # "idle", phase' \in {"think", "idle"}, ~UNCHANGED vars
               PROVE  /\ Len(delivered') = IF phase = "think" THEN stepId ELSE stepId + 1
                      /\ StepsInOrder' /\ LatestIsLast' /\ CallsDelivered'
    OBVIOUS
  <2>1. DeliveredInv' /\ executed' = executed
    BY <1>1, Returning DEF LoopInv
  <2>2. CASE phase \in {"think", "observe"}
    <3>1. delivered' = delivered /\ step' = step
      BY <1>1, <2>2, Returning
    <3>2. InOrder(delivered') /\ Seen(delivered', executed')
      BY <1>1, <2>1, <2>2, <3>1 DEF HookInv
    <3>3. Len(delivered') = IF phase = "think" THEN stepId ELSE stepId + 1
      BY <1>1, <2>2, <3>1 DEF LoopInv, DeliveredInv
    <3>4. LatestIsLast'
      BY <1>1, <2>2, <3>1 DEF LatestInv, LatestIsLast
    <3> QED
      BY <2>1, <3>2, <3>3, <3>4, SeenDelivered
  <2>3. CASE phase = "notify"
    <3>1. Deliver /\ step' = step
      BY <1>1, <2>3, Returning
    <3>2. InOrder(delivered') /\ Seen(delivered', executed')
      BY <1>1, <2>1, <2>3, <3>1, DeliverySeen
    <3>3. Len(delivered') = stepId + 1
      BY <1>1, <2>3, <3>1, DeliverAppends DEF LoopInv, DeliveredInv
    <3>4. LatestIsLast'
      BY <1>1, <2>3, <3>1, DeliveryLatest
    <3> QED
      BY <2>1, <2>3, <3>2, <3>3, <3>4, SeenDelivered
  <2> QED
    BY <1>1, <2>2, <2>3, Returning
<1>2. LoopInv /\ LoopInv' /\ HookInv /\ LatestInv /\ [Next]_vars => [Complete]_vars
  BY <1>1
<1>3. Init => LatestInv
  BY DEF Init, LatestInv
<1>4. LoopInv /\ HookInv /\ [Next]_vars => HookInv'
  BY HookStep
<1>5. LoopInv /\ LatestInv /\ [Next]_vars => LatestInv'
  BY LatestStep
<1> QED
  BY <1>2, <1>3, <1>4, <1>5, HookInitially, LoopInvariance, PTL DEF Spec, HookSeesRun

-----------------------------------------------------------------------------
(* The loop detector.                                                        *)

(* A set of numbers that is not empty has a least one.                       *)
LEMMA LeastOf ==
  ASSUME NEW S \in SUBSET Nat, S # {}
  PROVE  \E i \in S : \A j \in S : i <= j
<1> DEFINE R == OpToRel(<, Nat)
<1>1. IsWellFoundedOn(R, Nat)
  BY NatLessThanWellFounded
<1> HIDE DEF R
<1>2. PICK i \in S : \A j \in S : <<j, i>> \notin R
  BY <1>1, WFMin
<1>3. \A j \in S : ~(j < i)
  BY <1>2 DEF R, OpToRel
<1> QED
  BY <1>3

(* LastOf is the greatest of a bounded set of positive numbers, or 0.        *)
LEMMA LastOfFacts ==
  ASSUME NEW n \in Nat, NEW S \in SUBSET (1..n)
  PROVE  /\ LastOf(S) \in 0..n
         /\ \A j \in S : j <= LastOf(S)
         /\ LastOf(S) # 0 => LastOf(S) \in S
<1>1. CASE S = {}
  BY <1>1 DEF LastOf
<1>2. CASE S # {}
  <2> DEFINE T == {k \in 0..n : n - k \in S}
  <2>1. T \in SUBSET Nat /\ T # {}
    <3>1. PICK i \in S : TRUE
      BY <1>2
    <3>2. n - i \in 0..n /\ n - (n - i) \in S
      BY <3>1
    <3>3. n - i \in T
      BY <3>2
    <3>4. T \in SUBSET Nat
      OBVIOUS
    <3> HIDE DEF T
    <3> QED
      BY <3>3, <3>4
  <2>2. PICK k \in T : \A l \in T : k <= l
    BY <2>1, LeastOf
  <2>3. n - k \in S /\ \A j \in S : j <= n - k
    <3>1. ASSUME NEW j \in S PROVE j <= n - k
      <4>1. n - j \in 0..n /\ n - (n - j) = j
        OBVIOUS
      <4>2. n - j \in T
        BY <4>1
      <4> QED
        BY <2>2, <4>2
    <3> QED
      BY <3>1
  <2>4. \E i \in S : \A j \in S : j <= i
    BY <2>3
  <2>5. LastOf(S) \in S /\ \A j \in S : j <= LastOf(S)
    BY <1>2, <2>4, Zenon DEF LastOf
  <2> HIDE DEF T
  <2>6. LastOf(S) \in 1..n
    BY <2>5
  <2> QED
    BY <2>5, <2>6
<1> QED
  BY <1>1, <1>2

(* So the count of what is equal, or alternates, at the end of a window, less *)
(* than its length, reaches n exactly when the last n places do.             *)
LEMMA CountAtEnd ==
  ASSUME NEW l \in Nat, NEW m \in Nat, NEW S \in SUBSET (1..m), m <= l, NEW n \in Nat
  PROVE  /\ l - LastOf(S) \in 0..l
         /\ l - LastOf(S) >= n <=> n <= l /\ \A i \in (l - n + 1)..m : i \notin S
<1>1. /\ LastOf(S) \in 0..m
      /\ \A j \in S : j <= LastOf(S)
      /\ LastOf(S) # 0 => LastOf(S) \in S
  BY LastOfFacts
<1> HIDE DEF LastOf
<1>2. ASSUME l - LastOf(S) >= n, NEW i \in (l - n + 1)..m, i \in S
      PROVE  FALSE
  BY <1>1, <1>2
<1>3. ASSUME n <= l, \A i \in (l - n + 1)..m : i \notin S, ~(l - LastOf(S) >= n)
      PROVE  FALSE
  <2>1. LastOf(S) \in (l - n + 1)..m /\ LastOf(S) # 0
    BY <1>1, <1>3
  <2> QED
    BY <1>1, <1>3, <2>1
<1>4. l - LastOf(S) \in 0..l
  BY <1>1
<1>5. l - LastOf(S) >= n => n <= l
  BY <1>1
<1> QED
  BY <1>2, <1>3, <1>4, <1>5

(* What the detector counts is how the window ends.                          *)
LEMMA CountsFacts ==
  ASSUME NEW S, NEW h \in Seq(S), Len(h) > 0, NEW n \in Nat \ {0}
  PROVE  /\ RepeatCount(h) \in Nat
         /\ RepeatCount(h) >= n <=> IsRepeat(h, n)
         /\ AlternatingEntries(h) \div 2 \in Nat
         /\ Len(h) > 1 /\ h[Len(h)] # h[Len(h) - 1] =>
              (AlternatingEntries(h) \div 2 >= n <=> IsPingPong(h, n))
<1> DEFINE l == Len(h)
           S1 == {i \in 1..(l - 1) : h[i] # h[i + 1]}
           S2 == {i \in 1..(l - 2) : h[i] # h[i + 2]}
<1>l. l \in Nat /\ l > 0 /\ 2 * n \in Nat
  OBVIOUS
<1>1. /\ l - LastOf(S1) \in 0..l
      /\ l - LastOf(S1) >= n <=> n <= l /\ \A i \in (l - n + 1)..(l - 1) : i \notin S1
  <2> DEFINE m == l - 1
  <2>1. S1 \in SUBSET (1..m) /\ m \in Nat /\ m <= l
    BY <1>l
  <2> HIDE DEF S1, l, m
  <2>2. /\ l - LastOf(S1) \in 0..l
        /\ l - LastOf(S1) >= n <=> n <= l /\ \A i \in (l - n + 1)..m : i \notin S1
    BY <1>l, <2>1, CountAtEnd
  <2> QED
    BY <2>2 DEF m
<1>2. \A i \in (l - n + 1)..(l - 1) : n <= l => (i \notin S1 <=> h[i] = h[i + 1])
  <2> HIDE DEF l
  <2> QED
    BY <1>l
<1>3. /\ l - LastOf(S2) \in 0..l
      /\ l - LastOf(S2) >= 2 * n <=>
           2 * n <= l /\ \A i \in (l - 2 * n + 1)..(l - 2) : i \notin S2
  <2>1. CASE l >= 2
    <3> DEFINE m == l - 2
               k == 2 * n
    <3>1. S2 \in SUBSET (1..m) /\ m \in Nat /\ m <= l /\ k \in Nat
      BY <1>l, <2>1
    <3> HIDE DEF S2, l, m, k
    <3>2. /\ l - LastOf(S2) \in 0..l
          /\ l - LastOf(S2) >= k <=> k <= l /\ \A i \in (l - k + 1)..m : i \notin S2
      BY <1>l, <3>1, CountAtEnd
    <3> QED
      BY <3>2 DEF m, k
  <2>2. CASE l < 2
    <3>1. S2 = {}
      BY <1>l, <2>2
    <3>2. LastOf(S2) = 0
      BY <3>1 DEF LastOf
    <3> HIDE DEF S2, l
    <3> QED
      BY <1>l, <2>2, <3>2
  <2> HIDE DEF l
  <2> QED
    BY <1>l, <2>1, <2>2
<1>4. \A i \in (l - 2 * n + 1)..(l - 2) : 2 * n <= l => (i \notin S2 <=> h[i] = h[i + 2])
  <2> HIDE DEF l
  <2> QED
    BY <1>l
<1>5. RepeatCount(h) = l - LastOf(S1) /\ AlternatingEntries(h) = l - LastOf(S2)
  BY DEF RepeatCount, AlternatingEntries
<1> HIDE DEF S1, S2
<1>6. RepeatCount(h) \in Nat /\ AlternatingEntries(h) \in Nat
  BY <1>1, <1>3, <1>5
<1>7. RepeatCount(h) >= n <=> IsRepeat(h, n)
  BY <1>1, <1>2, <1>5 DEF IsRepeat
<1>8. AlternatingEntries(h) \div 2 >= n <=> AlternatingEntries(h) >= 2 * n
  <2> DEFINE a == AlternatingEntries(h)
  <2> HIDE DEF a
  <2>1. a \in Nat
    BY <1>6 DEF a
  <2> QED
    BY <2>1 DEF a
<1>9. ASSUME h[l] # h[l - 1]
      PROVE  AlternatingEntries(h) >= 2 * n <=> IsPingPong(h, n)
  BY <1>3, <1>4, <1>5, <1>9 DEF IsPingPong
<1> QED
  BY <1>6, <1>7, <1>8, <1>9

(* The window is the end of the calls, and as much of them as fits.          *)
IsWindow(h, calls_) ==
  /\ Len(h) = IF Len(calls_) < MaxHistory THEN Len(calls_) ELSE MaxHistory
  /\ \A i \in 1..Len(h) : h[i] = calls_[Len(calls_) - Len(h) + i]

Shifted(h, s) == Append(IF Len(h) = MaxHistory THEN Tail(h) ELSE h, s)

LEMMA ThresholdFacts ==
  /\ RepeatWarning \in Nat \ {0, 1} /\ RepeatCritical \in Nat
  /\ RepeatCritical > RepeatWarning
  /\ PingPongWarning \in Nat \ {0, 1} /\ PingPongCritical \in Nat
  /\ PingPongCritical > PingPongWarning
  /\ MaxHistory \in Nat \ {0}
  /\ MaxHistory >= RepeatCritical /\ MaxHistory >= 2 * PingPongCritical
BY DetectorAssumption DEF ValidConfig, ValidThreshold

(* observe() keeps it so.                                                    *)
LEMMA WindowFollows ==
  ASSUME NEW S, NEW h \in Seq(S), NEW calls_ \in Seq(S), NEW s \in S, IsWindow(h, calls_)
  PROVE  Shifted(h, s) \in Seq(S) /\ IsWindow(Shifted(h, s), Append(calls_, s))
<1> DEFINE l == Len(calls_)
           all == Append(calls_, s)
<1>1. /\ l \in Nat /\ Len(h) \in Nat
      /\ Len(all) = l + 1 /\ all[l + 1] = s /\ \A i \in 1..l : all[i] = calls_[i]
      /\ MaxHistory \in Nat \ {0}
  BY ThresholdFacts
<1>2. CASE Len(h) = MaxHistory
  <2>1. h # <<>> /\ l >= MaxHistory
    BY <1>1, <1>2 DEF IsWindow
  <2>2. /\ Shifted(h, s) = Append(Tail(h), s)
        /\ Tail(h) \in Seq(S) /\ Len(Tail(h)) = MaxHistory - 1
        /\ \A i \in 1..(MaxHistory - 1) : Tail(h)[i] = h[i + 1]
    BY <1>1, <1>2, <2>1 DEF Shifted
  <2>3. /\ Shifted(h, s) \in Seq(S) /\ Len(Shifted(h, s)) = MaxHistory
        /\ Shifted(h, s)[MaxHistory] = s
        /\ \A i \in 1..(MaxHistory - 1) : Shifted(h, s)[i] = h[i + 1]
    <3>1. \A t \in Seq(S) : /\ Append(t, s) \in Seq(S) /\ Len(Append(t, s)) = Len(t) + 1
                            /\ Append(t, s)[Len(t) + 1] = s
                            /\ \A i \in 1..Len(t) : Append(t, s)[i] = t[i]
      OBVIOUS
    <3> QED
      BY <1>1, <2>2, <3>1
  <2>4. \A i \in 1..MaxHistory : Shifted(h, s)[i] = all[l + 1 - MaxHistory + i]
    <3> SUFFICES ASSUME NEW i \in 1..MaxHistory
                 PROVE  Shifted(h, s)[i] = all[l + 1 - MaxHistory + i]
      OBVIOUS
    <3> HIDE DEF l, all
    <3>1. CASE i = MaxHistory
      BY <1>1, <2>3, <3>1
    <3>2. CASE i # MaxHistory
      <4>1. i + 1 \in 1..Len(h) /\ l - MaxHistory + (i + 1) \in 1..l
            /\ l - MaxHistory + (i + 1) = l + 1 - MaxHistory + i
        <5>1. l \in Nat /\ MaxHistory \in Nat /\ l >= MaxHistory /\ Len(h) = MaxHistory
          BY <1>1, <1>2, <2>1
        <5> QED
          BY <3>2, <5>1
      <4>2. h[i + 1] = calls_[l - MaxHistory + (i + 1)]
        BY <1>2, <4>1 DEF IsWindow, l
      <4> QED
        BY <1>1, <2>3, <3>2, <4>1, <4>2
    <3> QED
      BY <3>1, <3>2
  <2> DEFINE g == Shifted(h, s)
  <2>5. g \in Seq(S) /\ Len(g) = MaxHistory /\ \A i \in 1..MaxHistory : g[i] = all[l + 1 - MaxHistory + i]
    BY <2>3, <2>4
  <2> HIDE DEF all, g, l
  <2>6. /\ Len(g) = IF Len(all) < MaxHistory THEN Len(all) ELSE MaxHistory
        /\ \A i \in 1..Len(g) : g[i] = all[Len(all) - Len(g) + i]
    <3>1. /\ l \in Nat /\ MaxHistory \in Nat \ {0} /\ l >= MaxHistory /\ Len(all) = l + 1
          /\ Len(g) = MaxHistory
          /\ \A i \in 1..MaxHistory : g[i] = all[l + 1 - MaxHistory + i]
      BY <1>1, <2>1, <2>5
    <3> QED
      BY <3>1
  <2> QED
    BY <2>5, <2>6 DEF IsWindow, all, g
<1>3. CASE Len(h) # MaxHistory
  <2>1. Len(h) = l /\ l < MaxHistory
    BY <1>1, <1>3 DEF IsWindow
  <2>2. /\ Shifted(h, s) \in Seq(S) /\ Len(Shifted(h, s)) = l + 1
        /\ Shifted(h, s)[l + 1] = s
        /\ \A i \in 1..l : Shifted(h, s)[i] = h[i]
    BY <1>3, <2>1 DEF Shifted
  <2>3. \A i \in 1..l : h[i] = calls_[i]
    BY <2>1 DEF IsWindow
  <2> DEFINE g == Shifted(h, s)
  <2> HIDE DEF all, g, l
  <2>4. \A i \in 1..(l + 1) : g[i] = all[i]
    BY <1>1, <2>2, <2>3 DEF g
  <2>5. /\ Len(g) = IF Len(all) < MaxHistory THEN Len(all) ELSE MaxHistory
        /\ \A i \in 1..Len(g) : g[i] = all[Len(all) - Len(g) + i]
    BY <1>1, <2>1, <2>2, <2>4 DEF g
  <2> QED
    BY <2>2, <2>5 DEF IsWindow, all, g
<1> QED
  BY <1>2, <1>3

(* It is enough to see whether the calls end in a loop.                      *)
LEMMA WindowSuffices ==
  ASSUME NEW S, NEW h \in Seq(S), NEW calls_ \in Seq(S), IsWindow(h, calls_), NEW n \in Nat \ {0}
  PROVE  /\ n <= MaxHistory => (IsRepeat(h, n) <=> IsRepeat(calls_, n))
         /\ 2 * n <= MaxHistory => (IsPingPong(h, n) <=> IsPingPong(calls_, n))
         /\ Len(h) > 1 => (h[Len(h)] = h[Len(h) - 1] <=>
                             calls_[Len(calls_)] = calls_[Len(calls_) - 1])
<1> DEFINE k == Len(h)
           l == Len(calls_)
<1>0. k \in Nat /\ l \in Nat /\ MaxHistory \in Nat /\ k = IF l < MaxHistory THEN l ELSE MaxHistory
  BY ThresholdFacts DEF IsWindow
<1>1. /\ k \in Nat /\ l \in Nat /\ MaxHistory \in Nat /\ k <= l /\ k <= MaxHistory
      /\ \A m \in Nat : m <= MaxHistory => (m <= k <=> m <= l)
      /\ \A i \in 1..k : h[i] = calls_[l - k + i]
  <2>1. \A i \in 1..k : h[i] = calls_[l - k + i]
    BY DEF IsWindow
  <2> HIDE DEF k, l
  <2> QED
    BY <1>0, <2>1
<1> HIDE DEF k, l
<1>2. k > 1 => h[k] = calls_[l] /\ h[k - 1] = calls_[l - 1]
  <2>1. k > 1 => k \in 1..k /\ k - 1 \in 1..k /\ l - k + k = l /\ l - k + (k - 1) = l - 1
    BY <1>1
  <2> QED
    BY <1>1, <2>1
<1>3. ASSUME NEW m \in Nat, m <= k, NEW d \in Nat
      PROVE  (\A i \in (k - m + 1)..(k - d) : h[i] = h[i + d]) <=>
             (\A i \in (l - m + 1)..(l - d) : calls_[i] = calls_[i + d])
  <2>1. ASSUME NEW i \in (k - m + 1)..(k - d)
        PROVE  /\ l - k + i \in (l - m + 1)..(l - d)
               /\ h[i] = calls_[l - k + i] /\ h[i + d] = calls_[(l - k + i) + d]
    <3>1. /\ i \in 1..k /\ i + d \in 1..k /\ l - k + i \in (l - m + 1)..(l - d)
          /\ l - k + (i + d) = (l - k + i) + d
      BY <1>1, <1>3
    <3> QED
      BY <1>1, <3>1
  <2>2. ASSUME NEW j \in (l - m + 1)..(l - d)
        PROVE  j - l + k \in (k - m + 1)..(k - d) /\ l - k + (j - l + k) = j
    BY <1>1, <1>3
  <2> DEFINE one == (k - m + 1)..(k - d)
             two == (l - m + 1)..(l - d)
  <2>3. ASSUME \A j \in two : calls_[j] = calls_[j + d], NEW i \in one
        PROVE  h[i] = h[i + d]
    BY <2>1, <2>3
  <2>4. ASSUME \A i \in one : h[i] = h[i + d], NEW j \in two
        PROVE  calls_[j] = calls_[j + d]
    <3> DEFINE i == j - l + k
    <3>1. i \in one /\ l - k + i = j
      BY <2>2
    <3>2. h[i] = h[i + d]
      BY <2>4, <3>1
    <3>3. h[i] = calls_[l - k + i] /\ h[i + d] = calls_[(l - k + i) + d]
      BY <2>1, <3>1
    <3> HIDE DEF i
    <3> QED
      BY <3>1, <3>2, <3>3
  <2> QED
    BY <2>3, <2>4
<1>4. n <= MaxHistory => (IsRepeat(h, n) <=> IsRepeat(calls_, n))
  <2> SUFFICES ASSUME n <= MaxHistory PROVE IsRepeat(h, n) <=> IsRepeat(calls_, n)
    OBVIOUS
  <2>1. n <= k <=> n <= l
    BY <1>1
  <2>2. n <= k => ((\A i \in (k - n + 1)..(k - 1) : h[i] = h[i + 1]) <=>
                   (\A i \in (l - n + 1)..(l - 1) : calls_[i] = calls_[i + 1]))
    BY <1>3
  <2> QED
    BY <2>1, <2>2 DEF IsRepeat, k, l
<1>5. ASSUME 2 * n <= MaxHistory PROVE IsPingPong(h, n) <=> IsPingPong(calls_, n)
  <2> DEFINE m == 2 * n
  <2>1. m \in Nat /\ m <= MaxHistory /\ m > 1
    BY <1>5
  <2> HIDE DEF m
  <2>2. m <= k => ((\A i \in (k - m + 1)..(k - 2) : h[i] = h[i + 2]) <=>
                   (\A i \in (l - m + 1)..(l - 2) : calls_[i] = calls_[i + 2]))
    BY <1>3, <2>1
  <2>3. m <= k <=> m <= l
    BY <1>1, <2>1
  <2>4. m <= k => (h[k] # h[k - 1] <=> calls_[l] # calls_[l - 1])
    BY <1>1, <1>2, <2>1
  <2> QED
    BY <2>2, <2>3, <2>4 DEF IsPingPong, k, l, m
<1> QED
  BY <1>2, <1>4, <1>5 DEF k, l

(* What observe() returns is what the calls deserve.                         *)
LEMMA VerdictOfCalls ==
  ASSUME NEW S, NEW h \in Seq(S), NEW calls_ \in Seq(S), IsWindow(h, calls_), calls_ # <<>>
  PROVE  Verdict(h) =
           IF IsRepeat(calls_, RepeatCritical)
             THEN [kind |-> "repeat", severity |-> "critical"]
           ELSE IF IsRepeat(calls_, RepeatWarning)
             THEN [kind |-> "repeat", severity |-> "warning"]
           ELSE IF IsPingPong(calls_, PingPongCritical)
             THEN [kind |-> "ping-pong", severity |-> "critical"]
           ELSE IF IsPingPong(calls_, PingPongWarning)
             THEN [kind |-> "ping-pong", severity |-> "warning"]
           ELSE NoLoop
<1>1. Len(h) > 0 /\ Len(h) \in Nat /\ Len(calls_) \in Nat
  BY ThresholdFacts DEF IsWindow
<1>2. /\ RepeatCount(h) \in Nat
      /\ RepeatCount(h) >= RepeatCritical <=> IsRepeat(calls_, RepeatCritical)
      /\ RepeatCount(h) >= RepeatWarning <=> IsRepeat(calls_, RepeatWarning)
  <2>1. \A n \in Nat \ {0} :
          /\ RepeatCount(h) \in Nat
          /\ RepeatCount(h) >= n <=> IsRepeat(h, n)
          /\ n <= MaxHistory => (IsRepeat(h, n) <=> IsRepeat(calls_, n))
    BY <1>1, CountsFacts, WindowSuffices
  <2>2. /\ RepeatCritical \in Nat \ {0} /\ RepeatCritical <= MaxHistory
        /\ RepeatWarning \in Nat \ {0} /\ RepeatWarning <= MaxHistory
    BY ThresholdFacts
  <2> QED
    BY <2>1, <2>2
<1> DEFINE cycles == AlternatingEntries(h) \div 2
           turns == Len(h) > 1 /\ h[Len(h)] # h[Len(h) - 1]
<1>3. /\ cycles \in Nat
      /\ turns => /\ cycles >= PingPongCritical <=> IsPingPong(calls_, PingPongCritical)
                  /\ cycles >= PingPongWarning <=> IsPingPong(calls_, PingPongWarning)
  <2>1. \A n \in Nat \ {0} :
          /\ cycles \in Nat
          /\ turns => (cycles >= n <=> IsPingPong(h, n))
          /\ 2 * n <= MaxHistory => (IsPingPong(h, n) <=> IsPingPong(calls_, n))
    BY <1>1, CountsFacts, WindowSuffices
  <2>2. /\ PingPongCritical \in Nat \ {0} /\ 2 * PingPongCritical <= MaxHistory
        /\ PingPongWarning \in Nat \ {0} /\ 2 * PingPongWarning <= MaxHistory
    BY ThresholdFacts
  <2> QED
    BY <2>1, <2>2
<1>4. \A n \in {PingPongCritical, PingPongWarning} :
        IsPingPong(calls_, n) => turns /\ Len(h) >= 4
  <2>1. \A n \in {PingPongCritical, PingPongWarning} :
          n \in Nat \ {0, 1} /\ 2 * n <= MaxHistory
    BY ThresholdFacts
  <2>2. \A n \in {PingPongCritical, PingPongWarning} :
          IsPingPong(calls_, n) => IsPingPong(h, n)
    BY <2>1, WindowSuffices
  <2>3. \A n \in {PingPongCritical, PingPongWarning} :
          IsPingPong(h, n) => 2 * n <= Len(h) /\ h[Len(h)] # h[Len(h) - 1]
    BY DEF IsPingPong
  <2>4. \A n \in {PingPongCritical, PingPongWarning} : 2 * n <= Len(h) => Len(h) >= 4
    BY <1>1, <2>1
  <2> QED
    BY <1>1, <2>2, <2>3, <2>4
<1> HIDE DEF cycles
<1>5. Severity(RepeatCount(h), RepeatWarning, RepeatCritical) =
        IF IsRepeat(calls_, RepeatCritical) THEN "critical"
        ELSE IF IsRepeat(calls_, RepeatWarning) THEN "warning" ELSE "none"
  BY <1>2 DEF Severity
<1>6. turns => Severity(cycles, PingPongWarning, PingPongCritical) =
        IF IsPingPong(calls_, PingPongCritical) THEN "critical"
        ELSE IF IsPingPong(calls_, PingPongWarning) THEN "warning" ELSE "none"
  BY <1>3 DEF Severity
<1>7. Len(h) < 4 \/ h[Len(h)] = h[Len(h) - 1] <=> ~(turns /\ Len(h) >= 4)
  BY <1>1
<1> HIDE DEF turns
<1>8. Verdict(h) =
        IF Severity(RepeatCount(h), RepeatWarning, RepeatCritical) # "none"
          THEN [kind |-> "repeat",
                severity |-> Severity(RepeatCount(h), RepeatWarning, RepeatCritical)]
        ELSE IF ~(turns /\ Len(h) >= 4)
                \/ Severity(cycles, PingPongWarning, PingPongCritical) = "none" THEN NoLoop
        ELSE [kind |-> "ping-pong",
              severity |-> Severity(cycles, PingPongWarning, PingPongCritical)]
  BY <1>7 DEF Verdict, cycles
<1> QED
  BY <1>4, <1>5, <1>6, <1>8

LEMMA CriticalVerdict ==
  ASSUME NEW S, NEW h \in Seq(S), NEW calls_ \in Seq(S), IsWindow(h, calls_), calls_ # <<>>
  PROVE  Verdict(h).severity = "critical" <=> IsCriticalLoop(calls_)
<1>1. IsRepeat(calls_, RepeatWarning) =>
        ~IsPingPong(calls_, PingPongCritical)
  <2> SUFFICES ASSUME IsRepeat(calls_, RepeatWarning), IsPingPong(calls_, PingPongCritical)
               PROVE  FALSE
    OBVIOUS
  <2>1. Len(calls_) \in Nat /\ RepeatWarning <= Len(calls_) /\ RepeatWarning >= 2
    BY ThresholdFacts DEF IsRepeat
  <2>2. Len(calls_) - 1 \in (Len(calls_) - RepeatWarning + 1)..(Len(calls_) - 1)
    BY <2>1, ThresholdFacts
  <2>3. calls_[Len(calls_) - 1] = calls_[Len(calls_) - 1 + 1] /\ Len(calls_) - 1 + 1 = Len(calls_)
    BY <2>1, <2>2 DEF IsRepeat
  <2> QED
    BY <2>3 DEF IsPingPong
<1> QED
  BY <1>1, VerdictOfCalls DEF IsCriticalLoop, NoLoop
-----------------------------------------------------------------------------
(* The calls the detector has seen in this run: those executed, and the one  *)
(* in hand once it is dispatched.                                            *)
Asked ==
  IF phase = "act" \/ (phase = "notify" /\ step.kind = "stopped")
    THEN Append(executed, step.signature) ELSE executed

RefusalInv ==
  /\ phase # "idle" => IsWindow(history, Asked)
  /\ ~IsCriticalLoop(executed)
  /\ phase = "act" => ~IsCriticalLoop(Asked)
  /\ phase = "notify" /\ step.kind = "stopped" => IsCriticalLoop(Asked)

LEMMA NoCalls == IsWindow(<<>>, <<>>) /\ ~IsCriticalLoop(<<>>)
BY ThresholdFacts DEF IsWindow, IsCriticalLoop, IsRepeat, IsPingPong

LEMMA RefusalInitially == Init => RefusalInv
BY NoCalls DEF Init, DetectorInit, RefusalInv

(* The one step that asks the detector.                                      *)
LEMMA DispatchRefuses ==
  ASSUME LoopInv, RefusalInv, DispatchCall
  PROVE  RefusalInv'
<1> DEFINE s == step.signature
           all == Append(executed, s)
<1>1. /\ phase = "dispatch" /\ step.kind = "call" /\ executed' = executed
      /\ history' = Shifted(history, s)
  BY DEF DispatchCall, Observed, Window, Shifted, traceVars
<1>2. /\ s \in Signatures /\ history \in Seq(Signatures) /\ executed \in Seq(Signatures)
      /\ step \in StepType
  BY <1>1 DEF LoopInv, StepInv, TypesInv
<1>3. IsWindow(history, executed) /\ ~IsCriticalLoop(executed)
  BY <1>1 DEF RefusalInv, Asked
<1>4. history' \in Seq(Signatures) /\ IsWindow(history', all)
  BY <1>1, <1>2, <1>3, WindowFollows
<1>5. all \in Seq(Signatures) /\ all # <<>>
  BY <1>2
<1> HIDE DEF all
<1>6. Verdict(history').severity = "critical" <=> IsCriticalLoop(all)
  BY <1>4, <1>5, CriticalVerdict
<1>7. CASE Verdict(history').severity = "critical"
  <2>1. step' = [step EXCEPT !.kind = "stopped"] /\ phase' = "notify"
    BY <1>7 DEF DispatchCall
  <2>2. step'.kind = "stopped" /\ step'.signature = s
    BY <1>2, <2>1 DEF StepType
  <2>3. Asked' = all
    BY <1>1, <2>1, <2>2 DEF Asked, all
  <2> QED
    BY <1>1, <1>3, <1>4, <1>6, <1>7, <2>1, <2>3 DEF RefusalInv
<1>8. CASE Verdict(history').severity # "critical"
  <2>1. step' = step /\ phase' = "act"
    BY <1>8 DEF DispatchCall
  <2>2. Asked' = all
    BY <1>1, <2>1 DEF Asked, all
  <2> QED
    BY <1>1, <1>3, <1>4, <1>6, <1>8, <2>1, <2>2 DEF RefusalInv
<1> QED
  BY <1>7, <1>8

LEMMA RefusalStep ==
  ASSUME LoopInv, RefusalInv, [Next]_vars
  PROVE  RefusalInv'
<1> USE DEF loopVars, traceVars
<1>1. CASE SetStepHook \/ SetMaxSteps
  BY <1>1 DEF SetStepHook, SetMaxSteps, RefusalInv
<1>2. CASE RunBlankTask \/ RunUnprepared
  <2>1. phase' = "idle" /\ executed' = <<>>
    BY <1>2 DEF RunBlankTask, RunUnprepared, BeginRun, Return
  <2> QED
    BY <2>1, NoCalls DEF RefusalInv
<1>3. CASE StartRun
  <2>1. history' = <<>> /\ executed' = <<>> /\ phase' = "think"
    BY <1>3 DEF StartRun, BeginRun, DetectorReset
  <2> QED
    BY <2>1, NoCalls DEF RefusalInv, Asked
<1>4. CASE ThinkThrows \/ ThinkFails \/ NotifyFails \/ NotifyFinal \/ NotifyStopped \/ ObserveThrows
  <2>1. phase' = "idle" /\ executed' = executed
    <3>1. CASE ThinkThrows
      BY <3>1 DEF ThinkThrows, Return
    <3>2. CASE ThinkFails
      BY <3>2 DEF ThinkFails, CountTokens, Return
    <3>3. CASE NotifyFails
      BY <3>3 DEF NotifyFails, Deliver, Return
    <3>4. CASE NotifyFinal
      BY <3>4 DEF NotifyFinal, Deliver, Return
    <3>5. CASE NotifyStopped
      BY <3>5 DEF NotifyStopped, Deliver, Return
    <3>6. CASE ObserveThrows
      BY <3>6 DEF ObserveThrows, Return
    <3> QED
      BY <1>4, <3>1, <3>2, <3>3, <3>4, <3>5, <3>6
  <2> QED
    BY <2>1 DEF RefusalInv
<1>5. CASE ThinkReplies \/ DispatchInvalid \/ DispatchFinal \/ NotifyInvalid \/ NotifyCall \/ Observe
  <2>1. /\ history' = history /\ executed' = executed
        /\ phase # "idle" /\ phase # "act" /\ ~(phase = "notify" /\ step.kind = "stopped")
    <3>1. CASE ThinkReplies
      BY <3>1 DEF ThinkReplies, CountTokens
    <3>2. CASE DispatchInvalid
      BY <3>2 DEF DispatchInvalid
    <3>3. CASE DispatchFinal
      BY <3>3 DEF DispatchFinal
    <3>4. CASE NotifyInvalid
      BY <3>4 DEF NotifyInvalid, Deliver, NextIteration
    <3>5. CASE NotifyCall
      BY <3>5 DEF NotifyCall, Deliver
    <3>6. CASE Observe
      BY <3>6 DEF Observe, NextIteration
    <3> QED
      BY <1>5, <3>1, <3>2, <3>3, <3>4, <3>5, <3>6
  <2>2. phase' # "act" /\ ~(phase' = "notify" /\ step'.kind = "stopped")
    <3>1. CASE ThinkReplies
      BY <3>1 DEF ThinkReplies, CountTokens
    <3>2. CASE DispatchInvalid
      BY <3>2 DEF DispatchInvalid
    <3>3. CASE DispatchFinal
      <4>1. step' = [step EXCEPT !.ok = TRUE] /\ step.kind = "final" /\ phase' = "notify"
        BY <3>3 DEF DispatchFinal
      <4>2. step'.kind = "final"
        BY <4>1, StepUpdates DEF LoopInv, StepInv
      <4> QED
        BY <4>1, <4>2
    <3>4. CASE NotifyInvalid
      BY <3>4 DEF NotifyInvalid, Deliver, NextIteration
    <3>5. CASE NotifyCall
      BY <3>5 DEF NotifyCall, Deliver
    <3>6. CASE Observe
      BY <3>6 DEF Observe, NextIteration
    <3> QED
      BY <1>5, <3>1, <3>2, <3>3, <3>4, <3>5, <3>6
  <2> QED
    BY <2>1, <2>2 DEF RefusalInv, Asked
<1>6. CASE DispatchCall
  BY <1>6, DispatchRefuses
<1>7. CASE Act
  <2>1. /\ phase = "act" /\ phase' = "notify" /\ history' = history
        /\ executed' = Append(executed, step.signature) /\ step.kind = "call"
    BY <1>7 DEF Act, LoopInv, StepInv
  <2>2. step'.kind = "call"
    BY <1>7, <2>1, ActUpdates DEF LoopInv, StepInv
  <2>3. executed' = Asked /\ Asked' = Asked
    BY <2>1, <2>2 DEF Asked
  <2> QED
    BY <2>1, <2>2, <2>3 DEF RefusalInv
<1>8. CASE UNCHANGED vars
  BY <1>8 DEF vars, RefusalInv, Asked
<1> QED
  BY <1>1, <1>2, <1>3, <1>4, <1>5, <1>6, <1>7, <1>8 DEF Next, RunStep

(* The tools never see a critical loop, and a run is stopped as a loop only  *)
(* for its own calls (loop_detector.cpp:60-105, agent_loop.cpp:286-300), for *)
(* every configuration the detector accepts.                                 *)
THEOREM LoopsAreRefused == Spec => []OwnLoopsAreRefused
<1>1. RefusalInv => OwnLoopsAreRefused
  BY DEF RefusalInv, OwnLoopsAreRefused, Asked
<1>2. LoopInv /\ RefusalInv /\ [Next]_vars => RefusalInv'
  BY RefusalStep
<1> QED
  BY <1>1, <1>2, RefusalInitially, LoopInvariance, PTL DEF Spec

-----------------------------------------------------------------------------
(* The detector on its own, run after run (LoopDetectorRuns).                *)
ObservedInv ==
  /\ window \in Seq(Observable) /\ calls \in Seq(Observable)
  /\ IsWindow(window, calls)
  /\ Detector!VerdictFitsCalls

LEMMA SameDetector ==
  /\ \A h : Detector!Verdict(h) = Verdict(h)
  /\ \A s : Detector!Window(s) = Shifted(window, s)
<1>1. ASSUME NEW h PROVE Detector!Verdict(h) = Verdict(h)
  BY DEF Verdict, Severity, RepeatCount, AlternatingEntries, LastOf, NoLoop,
         Detector!Verdict, Detector!Severity, Detector!RepeatCount,
         Detector!AlternatingEntries, Detector!LastOf, Detector!NoLoop
<1>2. ASSUME NEW s PROVE Detector!Window(s) = Shifted(window, s)
  BY DEF Detector!Window, Shifted
<1> QED
  BY <1>1, <1>2

(* The verdict expected is the one VerdictOfCalls gives.                     *)
LEMMA ExpectedVerdict ==
  ASSUME ObservedInv, NEW s \in Observable, Detector!Observe(s)
  PROVE  ObservedInv'
<1>1. /\ window' = Shifted(window, s) /\ verdict' = Verdict(window')
      /\ calls' = Append(calls, s)
  BY SameDetector DEF Detector!Observe, Detector!Observed
<1>2. /\ window' \in Seq(Observable) /\ IsWindow(window', calls')
  BY <1>1, WindowFollows DEF ObservedInv
<1>3. calls' \in Seq(Observable) /\ calls' # <<>>
  BY <1>1 DEF ObservedInv
<1>4. Verdict(window') =
           IF IsRepeat(calls', RepeatCritical)
             THEN [kind |-> "repeat", severity |-> "critical"]
           ELSE IF IsRepeat(calls', RepeatWarning)
             THEN [kind |-> "repeat", severity |-> "warning"]
           ELSE IF IsPingPong(calls', PingPongCritical)
             THEN [kind |-> "ping-pong", severity |-> "critical"]
           ELSE IF IsPingPong(calls', PingPongWarning)
             THEN [kind |-> "ping-pong", severity |-> "warning"]
           ELSE NoLoop
  BY <1>2, <1>3, VerdictOfCalls
<1>5. Detector!Expected' = Verdict(window')
  BY <1>3, <1>4
  DEF Detector!Expected, Detector!EndsInRepeat, Detector!EndsInPingPong, Detector!NoLoop,
      IsRepeat, IsPingPong, NoLoop
<1> QED
  BY <1>1, <1>2, <1>3, <1>5 DEF ObservedInv, Detector!VerdictFitsCalls

LEMMA NothingObserved ==
  ASSUME window = <<>>, calls = <<>>, verdict = Detector!NoLoop
  PROVE  ObservedInv
BY NoCalls DEF ObservedInv, Detector!VerdictFitsCalls, Detector!Expected

(* Whatever the window has lost, observe() returns what the whole sequence   *)
(* of calls since reset() deserves (loop_detector.cpp:52-105): for every set *)
(* of signatures and every configuration the constructor accepts.            *)
THEOREM VerdictsFit == Detector!Spec => []VerdictFitsCalls
<1>1. Detector!Init => ObservedInv
  BY NothingObserved DEF Detector!Init, Detector!DetectorInit
<1>2. ASSUME ObservedInv, [Detector!Next]_(Detector!vars) PROVE ObservedInv'
  <2>1. ASSUME NEW s \in Observable, Detector!Observe(s) PROVE ObservedInv'
    BY <1>2, <2>1, ExpectedVerdict
  <2>2. CASE Detector!Reset
    <3>1. window' = <<>> /\ calls' = <<>> /\ verdict' = Detector!NoLoop
      BY <2>2 DEF Detector!Reset, Detector!DetectorReset
    <3>2. Detector!VerdictFitsCalls'
      BY <3>1 DEF Detector!VerdictFitsCalls, Detector!Expected
    <3> QED
      BY <3>1, <3>2, NoCalls DEF ObservedInv
  <2>3. CASE UNCHANGED Detector!vars
    BY <1>2, <2>3
    DEF ObservedInv, Detector!vars, Detector!VerdictFitsCalls, Detector!Expected,
        Detector!EndsInRepeat, Detector!EndsInPingPong
  <2> QED
    BY <1>2, <2>1, <2>2, <2>3 DEF Detector!Next
<1>3. ObservedInv => VerdictFitsCalls
  BY DEF ObservedInv, VerdictFitsCalls
<1> QED
  BY <1>1, <1>2, <1>3, PTL DEF Detector!Spec

-----------------------------------------------------------------------------
(* The registry of tools: what the entries and the two lists are, said by the *)
(* log of the calls.                                                         *)
RegistryCall ==
  [call : {"register"}, name : Names, factory : Factories, replace : BOOLEAN]
    \cup [call : {"unregister"}, name : Names]
    \cup [call : {"allowOnly", "deny"}, names : SUBSET (Names \cup {Empty})]
    \cup [call : {"clearPolicy"}]

InForce(l, n, f) ==
  \E d \in Registry!Registrations(l, n) : Registry!Decisive(l, n) = {d} /\ l[d].factory = f

EntriesLogged ==
  /\ DOMAIN entries \subseteq Names
  /\ \A n \in DOMAIN entries :
       /\ entries[n] = Registry!Entry(entries[n].factory)
       /\ entries[n].factory \in Factories
       /\ InForce(log, n, entries[n].factory)
  /\ \A n \in Names \ DOMAIN entries : Registry!Registrations(log, n) = {}

RegistryInv ==
  /\ log \in Seq(RegistryCall)
  /\ allow_list = Registry!Setting(log, "allowOnly")
  /\ deny_list = Registry!Setting(log, "deny")
  /\ EntriesLogged

LEMMA CallAppended ==
  ASSUME NEW l \in Seq(RegistryCall), NEW c \in RegistryCall
  PROVE  /\ Append(l, c) \in Seq(RegistryCall)
         /\ DOMAIN Append(l, c) = DOMAIN l \cup {Len(l) + 1}
         /\ Len(l) + 1 \in Nat
         /\ \A i \in DOMAIN l : i \in Nat /\ i < Len(l) + 1 /\ Append(l, c)[i] = l[i]
         /\ Append(l, c)[Len(l) + 1] = c
<1>1. Len(l) \in Nat /\ DOMAIN l = 1..Len(l)
  OBVIOUS
<1> HIDE DEF RegistryCall
<1> QED
  BY <1>1, AppendProperties

LEMMA LatestIsNew ==
  ASSUME NEW S, NEW k \in Nat, \A i \in S : i \in Nat /\ i < k
  PROVE  Registry!Latest(S \cup {k}) = {k}
<1>1. \A i \in S : ~(k <= i)
  OBVIOUS
<1> QED
  BY <1>1 DEF Registry!Latest

LEMMA EarliestStays ==
  ASSUME NEW S, NEW k \in Nat, NEW d \in S, \A i \in S : i \in Nat /\ i < k,
         Registry!Earliest(S) = {d}
  PROVE  Registry!Earliest(S \cup {k}) = {d}
<1>1. \A j \in S : d <= j
  BY DEF Registry!Earliest
<1>2. d <= k /\ ~(k <= d)
  OBVIOUS
<1>3. d \in Registry!Earliest(S \cup {k})
  BY <1>1, <1>2 DEF Registry!Earliest
<1>4. Registry!Earliest(S \cup {k}) \subseteq Registry!Earliest(S)
  BY <1>2 DEF Registry!Earliest
<1> QED
  BY <1>3, <1>4

(* A policy call decides its own list, clearPolicy both, any other neither.  *)
LEMMA SettingAppended ==
  ASSUME NEW l \in Seq(RegistryCall), NEW c \in RegistryCall,
         NEW kind \in {"allowOnly", "deny"}
  PROVE  Registry!Setting(Append(l, c), kind) =
           IF c.call = kind THEN c.names \ {Empty}
           ELSE IF c.call = "clearPolicy" THEN {}
           ELSE Registry!Setting(l, kind)
<1> DEFINE m == Append(l, c)
           k == Len(l) + 1
           Of(s) == {i \in DOMAIN s : s[i].call \in {kind, "clearPolicy"}}
<1>1. /\ DOMAIN m = DOMAIN l \cup {k} /\ k \in Nat /\ m[k] = c
      /\ \A i \in DOMAIN l : i \in Nat /\ i < k /\ m[i] = l[i]
  BY CallAppended
<1>2. \A s : Registry!Setting(s, kind) =
        UNION {s[i].names \ {Empty} :
                 i \in {j \in Registry!Latest(Of(s)) : s[j].call = kind}}
  BY DEF Registry!Setting
<1> HIDE DEF m, k
<1>3. CASE c.call \in {kind, "clearPolicy"}
  <2>1. Of(m) = Of(l) \cup {k}
    BY <1>1, <1>3
  <2>2. \A i \in Of(l) : i \in Nat /\ i < k
    BY <1>1
  <2> HIDE DEF Of
  <2>3. Registry!Latest(Of(m)) = {k}
    BY <1>1, <2>1, <2>2, LatestIsNew
  <2> DEFINE decisive == {j \in Registry!Latest(Of(m)) : m[j].call = kind}
  <2>4. decisive = IF c.call = kind THEN {k} ELSE {}
    BY <1>1, <2>3
  <2>5. Registry!Setting(m, kind) = UNION {m[i].names \ {Empty} : i \in decisive}
    BY <1>2
  <2> HIDE DEF decisive
  <2>6. Registry!Setting(m, kind) = IF c.call = kind THEN c.names \ {Empty} ELSE {}
    BY <1>1, <2>4, <2>5
  <2> QED
    BY <1>3, <2>6 DEF m
<1>4. CASE c.call \notin {kind, "clearPolicy"}
  <2>1. Of(m) = Of(l)
    BY <1>1, <1>4
  <2> DEFINE decisive(s) == {j \in Registry!Latest(Of(s)) : s[j].call = kind}
  <2>2. \A i \in Registry!Latest(Of(l)) : m[i] = l[i]
    BY <1>1 DEF Registry!Latest
  <2>3. decisive(m) = decisive(l) /\ \A i \in decisive(l) : m[i] = l[i]
    BY <2>1, <2>2
  <2>4. {m[i].names \ {Empty} : i \in decisive(m)} = {l[i].names \ {Empty} : i \in decisive(l)}
    BY <2>3
  <2> HIDE DEF Of
  <2>5. Registry!Setting(m, kind) = Registry!Setting(l, kind)
    BY <1>2, <2>4
  <2> QED
    BY <1>4, <2>5 DEF m
<1> QED
  BY <1>3, <1>4

(* What a call on another name, or on none, leaves alone.                    *)
LEMMA OtherNames ==
  ASSUME NEW l \in Seq(RegistryCall), NEW c \in RegistryCall, NEW n,
         c.call \in {"register", "unregister"} => c.name # n
  PROVE  /\ Registry!Registrations(Append(l, c), n) = Registry!Registrations(l, n)
         /\ \A f : InForce(l, n, f) => InForce(Append(l, c), n, f)
<1> DEFINE m == Append(l, c)
           k == Len(l) + 1
<1>1. /\ DOMAIN m = DOMAIN l \cup {k} /\ m[k] = c
      /\ \A i \in DOMAIN l : m[i] = l[i]
  BY CallAppended
<1> HIDE DEF m, k
<1>2. \A kind \in {"register", "unregister"} :
        Registry!CallsOn(m, kind, n) = Registry!CallsOn(l, kind, n)
  BY <1>1 DEF Registry!CallsOn
<1>3. Registry!Registrations(m, n) = Registry!Registrations(l, n)
  BY <1>2 DEF Registry!Registrations
<1>4. \A i \in Registry!Registrations(l, n) : m[i] = l[i]
  BY <1>1 DEF Registry!Registrations, Registry!CallsOn
<1>5. {i \in Registry!Registrations(m, n) : m[i].replace} =
        {i \in Registry!Registrations(l, n) : l[i].replace}
  BY <1>3, <1>4
<1>6. Registry!Decisive(m, n) = Registry!Decisive(l, n)
  BY <1>3, <1>5 DEF Registry!Decisive
<1> QED
  BY <1>3, <1>4, <1>6 DEF InForce, m

LEMMA UnregisterFrees ==
  ASSUME NEW l \in Seq(RegistryCall), NEW c \in RegistryCall, c.call = "unregister"
  PROVE  Registry!Registrations(Append(l, c), c.name) = {}
<1> DEFINE m == Append(l, c)
           k == Len(l) + 1
<1>1. /\ DOMAIN m = DOMAIN l \cup {k} /\ k \in Nat /\ m[k] = c
      /\ \A i \in DOMAIN l : i \in Nat /\ i < k
  BY CallAppended
<1> HIDE DEF m, k
<1>2. k \in Registry!CallsOn(m, "unregister", c.name)
  BY <1>1 DEF Registry!CallsOn
<1>3. \A i \in DOMAIN m : ~(k < i)
  BY <1>1
<1> QED
  BY <1>2, <1>3 DEF Registry!Registrations, Registry!CallsOn, m

LEMMA RegistrationAppended ==
  ASSUME NEW l \in Seq(RegistryCall), NEW c \in RegistryCall, c.call = "register"
  PROVE  /\ Registry!Registrations(Append(l, c), c.name) =
              Registry!Registrations(l, c.name) \cup {Len(l) + 1}
         /\ \A i \in Registry!Registrations(l, c.name) :
              i \in Nat /\ i < Len(l) + 1 /\ Append(l, c)[i] = l[i]
<1> DEFINE m == Append(l, c)
           k == Len(l) + 1
<1>1. /\ DOMAIN m = DOMAIN l \cup {k} /\ k \in Nat /\ m[k] = c
      /\ \A i \in DOMAIN l : i \in Nat /\ i < k /\ m[i] = l[i]
  BY CallAppended
<1> HIDE DEF m, k
<1>2. Registry!CallsOn(m, "register", c.name) =
        Registry!CallsOn(l, "register", c.name) \cup {k}
  BY <1>1 DEF Registry!CallsOn
<1>3. Registry!CallsOn(m, "unregister", c.name) = Registry!CallsOn(l, "unregister", c.name)
  BY <1>1 DEF Registry!CallsOn
<1>4. \A j \in Registry!CallsOn(l, "unregister", c.name) : j < k
  BY <1>1 DEF Registry!CallsOn
<1>5. Registry!Registrations(m, c.name) = Registry!Registrations(l, c.name) \cup {k}
  BY <1>2, <1>3, <1>4 DEF Registry!Registrations
<1>6. Registry!Registrations(l, c.name) \subseteq DOMAIN l
  BY DEF Registry!Registrations, Registry!CallsOn
<1> QED
  BY <1>1, <1>5, <1>6 DEF m, k

(* A registration takes a free name, or one it asks to replace; a name that is*)
(* taken and not to be replaced keeps its factory.                           *)
LEMMA RegistrationDecides ==
  ASSUME NEW l \in Seq(RegistryCall), NEW c \in RegistryCall, c.call = "register"
  PROVE  /\ c.replace \/ Registry!Registrations(l, c.name) = {} =>
              InForce(Append(l, c), c.name, c.factory)
         /\ ~c.replace =>
              \A f : InForce(l, c.name, f) => InForce(Append(l, c), c.name, f)
<1> DEFINE m == Append(l, c)
           k == Len(l) + 1
           old == Registry!Registrations(l, c.name)
           new == Registry!Registrations(m, c.name)
           Replacing(s, R) == {i \in R : s[i].replace}
<1>1. k \in Nat /\ m[k] = c
  BY CallAppended
<1>2. new = old \cup {k} /\ \A i \in old : i \in Nat /\ i < k /\ m[i] = l[i]
  BY RegistrationAppended
<1>3. /\ Registry!Decisive(m, c.name) =
           IF Replacing(m, new) = {} THEN Registry!Earliest(new)
           ELSE Registry!Latest(Replacing(m, new))
      /\ Registry!Decisive(l, c.name) =
           IF Replacing(l, old) = {} THEN Registry!Earliest(old)
           ELSE Registry!Latest(Replacing(l, old))
  BY DEF Registry!Decisive
<1>4. /\ \A f : InForce(m, c.name, f) <=>
                  \E d \in new : Registry!Decisive(m, c.name) = {d} /\ m[d].factory = f
      /\ \A f : InForce(l, c.name, f) <=>
                  \E d \in old : Registry!Decisive(l, c.name) = {d} /\ l[d].factory = f
  BY DEF InForce
<1> HIDE DEF m, k, old, new
<1>5. CASE c.replace
  <2>1. Replacing(m, new) = Replacing(l, old) \cup {k}
    BY <1>1, <1>2, <1>5
  <2>2. \A i \in Replacing(l, old) : i \in Nat /\ i < k
    BY <1>2
  <2> HIDE DEF Replacing
  <2>3. Registry!Latest(Replacing(m, new)) = {k}
    BY <1>1, <2>1, <2>2, LatestIsNew
  <2>4. Registry!Decisive(m, c.name) = {k}
    BY <1>3, <2>1, <2>3
  <2> QED
    BY <1>1, <1>2, <1>4, <1>5, <2>4 DEF m
<1>6. CASE ~c.replace
  <2>1. Replacing(m, new) = Replacing(l, old)
    BY <1>1, <1>2, <1>6
  <2>2. ASSUME old = {} PROVE InForce(m, c.name, c.factory)
    <3>1. new = {k} /\ Replacing(m, new) = {}
      BY <1>2, <2>1, <2>2
    <3>2. Registry!Earliest(new) = {k}
      BY <1>1, <3>1 DEF Registry!Earliest
    <3> QED
      BY <1>1, <1>3, <1>4, <3>1, <3>2
  <2>3. ASSUME NEW f, InForce(l, c.name, f) PROVE InForce(m, c.name, f)
    <3>1. PICK d \in old : Registry!Decisive(l, c.name) = {d} /\ l[d].factory = f
      BY <1>4, <2>3
    <3>2. Registry!Decisive(m, c.name) = {d}
      <4>1. CASE Replacing(l, old) = {}
        <5>1. Registry!Earliest(old) = {d}
          BY <1>3, <3>1, <4>1
        <5>2. Registry!Earliest(old \cup {k}) = {d}
          BY <1>1, <1>2, <5>1, EarliestStays
        <5> QED
          BY <1>2, <1>3, <2>1, <4>1, <5>2
      <4>2. CASE Replacing(l, old) # {}
        BY <1>3, <2>1, <3>1, <4>2
      <4> QED
        BY <4>1, <4>2
    <3> QED
      BY <1>2, <1>4, <3>1, <3>2
  <2> QED
    BY <1>6, <2>2, <2>3 DEF m, old
<1> QED
  BY <1>5, <1>6

(* The factory under a name is the one in force.                             *)
LEMMA FactoryOfEntry ==
  ASSUME EntriesLogged, NEW n \in Names
  PROVE  Registry!FactoryOf(n) = IF n \in DOMAIN entries THEN entries[n].factory ELSE None
<1>1. CASE n \in DOMAIN entries
  <2>1. PICK d \in Registry!Registrations(log, n) :
          Registry!Decisive(log, n) = {d} /\ log[d].factory = entries[n].factory
    BY <1>1 DEF EntriesLogged, InForce
  <2>2. (CHOOSE i \in Registry!Decisive(log, n) : TRUE) = d
    BY <2>1
  <2> QED
    BY <1>1, <2>1, <2>2 DEF Registry!FactoryOf
<1>2. CASE n \notin DOMAIN entries
  BY <1>2 DEF EntriesLogged, Registry!FactoryOf
<1> QED
  BY <1>1, <1>2

LEMMA RegistryInitially == Registry!Init => RegistryInv
<1> SUFFICES ASSUME Registry!Init PROVE RegistryInv
  OBVIOUS
<1>1. log = <<>> /\ log \in Seq(RegistryCall) /\ DOMAIN log = {}
  BY DEF Registry!Init
<1>2. \A kind : Registry!Setting(log, kind) = {}
  BY <1>1 DEF Registry!Setting, Registry!Latest
<1>3. \A n : Registry!Registrations(log, n) = {}
  BY <1>1 DEF Registry!Registrations, Registry!CallsOn
<1>4. DOMAIN entries = {}
  BY DEF Registry!Init
<1> QED
  BY <1>1, <1>2, <1>3, <1>4 DEF Registry!Init, RegistryInv, EntriesLogged

(* A call that is no registration leaves the entries of every name in force.  *)
LEMMA PolicyKeepsEntries ==
  ASSUME RegistryInv, NEW c \in RegistryCall, c.call \notin {"register", "unregister"},
         log' = Append(log, c), UNCHANGED entries
  PROVE  EntriesLogged'
<1>1. \A n : /\ Registry!Registrations(log', n) = Registry!Registrations(log, n)
             /\ \A f : InForce(log, n, f) => InForce(log', n, f)
  BY OtherNames DEF RegistryInv
<1> QED
  BY <1>1 DEF RegistryInv, EntriesLogged, Registry!Entry, Registry!Description

(* What the step of each call makes of the two lists.                        *)
LEMMA ListsOfStep ==
  ASSUME RegistryInv, NEW c \in RegistryCall, log' = Append(log, c),
         c.call = "allowOnly" => allow_list' = c.names \ {Empty} /\ UNCHANGED deny_list,
         c.call = "deny" => deny_list' = c.names \ {Empty} /\ UNCHANGED allow_list,
         c.call = "clearPolicy" => allow_list' = {} /\ deny_list' = {},
         c.call \in {"register", "unregister"} => UNCHANGED <<allow_list, deny_list>>
  PROVE  /\ log' \in Seq(RegistryCall)
         /\ allow_list' = Registry!Setting(log', "allowOnly")
         /\ deny_list' = Registry!Setting(log', "deny")
<1>1. log' \in Seq(RegistryCall)
  BY CallAppended DEF RegistryInv
<1>2. \A kind \in {"allowOnly", "deny"} :
        Registry!Setting(log', kind) =
          IF c.call = kind THEN c.names \ {Empty}
          ELSE IF c.call = "clearPolicy" THEN {}
          ELSE Registry!Setting(log, kind)
  BY SettingAppended DEF RegistryInv
<1>3. c.call \in {"register", "unregister", "allowOnly", "deny", "clearPolicy"}
  BY DEF RegistryCall
<1> QED
  BY <1>1, <1>2, <1>3 DEF RegistryInv

LEMMA RegisterStep ==
  ASSUME RegistryInv, NEW n \in Names, NEW f \in Factories, NEW replace \in BOOLEAN,
         Registry!RegisterFactory(n, f, replace)
  PROVE  RegistryInv'
<1> DEFINE c == [call |-> "register", name |-> n, factory |-> f, replace |-> replace]
<1>1. c \in RegistryCall /\ c.call = "register" /\ c.name = n /\ c.factory = f
        /\ c.replace = replace
  BY DEF RegistryCall
<1>2. log' = Append(log, c) /\ UNCHANGED <<allow_list, deny_list>>
  BY DEF Registry!RegisterFactory, Registry!Logged
<1>3. entries' = IF n \in DOMAIN entries /\ ~replace THEN entries
                 ELSE [m \in DOMAIN entries \cup {n} |->
                         IF m = n THEN Registry!Entry(f) ELSE entries[m]]
  BY DEF Registry!RegisterFactory, Registry!Registered, Registry!With, Registry!contains
<1> HIDE DEF c
<1>4. /\ log' \in Seq(RegistryCall)
      /\ allow_list' = Registry!Setting(log', "allowOnly")
      /\ deny_list' = Registry!Setting(log', "deny")
  BY <1>1, <1>2, ListsOfStep
<1>5. log \in Seq(RegistryCall) /\ EntriesLogged
  BY DEF RegistryInv
<1>6. \A m : m # n =>
        /\ Registry!Registrations(log', m) = Registry!Registrations(log, m)
        /\ \A g : InForce(log, m, g) => InForce(log', m, g)
  BY <1>1, <1>2, <1>5, OtherNames
<1>7. /\ replace \/ Registry!Registrations(log, n) = {} => InForce(log', n, f)
      /\ ~replace => \A g : InForce(log, n, g) => InForce(log', n, g)
  BY <1>1, <1>2, <1>5, RegistrationDecides
<1>8. EntriesLogged'
  <2>1. CASE n \in DOMAIN entries /\ ~replace
    <3>1. entries' = entries
      BY <1>3, <2>1
    <3>2. \A m \in DOMAIN entries : InForce(log', m, entries[m].factory)
      BY <1>5, <1>6, <1>7, <2>1 DEF EntriesLogged
    <3>3. \A m \in Names \ DOMAIN entries : Registry!Registrations(log', m) = {}
      BY <1>5, <1>6, <2>1 DEF EntriesLogged
    <3> QED
      BY <1>5, <3>1, <3>2, <3>3 DEF EntriesLogged, Registry!Entry, Registry!Description
  <2>2. CASE ~(n \in DOMAIN entries /\ ~replace)
    <3>1. /\ DOMAIN entries' = DOMAIN entries \cup {n}
          /\ entries'[n] = Registry!Entry(f)
          /\ \A m \in DOMAIN entries : m # n => entries'[m] = entries[m]
      BY <1>3, <2>2
    <3>2. Registry!Entry(f).factory = f
      BY DEF Registry!Entry
    <3>3. InForce(log', n, f)
      BY <1>5, <1>7, <2>2 DEF EntriesLogged
    <3>4. \A m \in DOMAIN entries' :
            /\ entries'[m].factory \in Factories
            /\ InForce(log', m, entries'[m].factory)
      BY <1>5, <1>6, <3>1, <3>2, <3>3 DEF EntriesLogged
    <3>5. \A m \in DOMAIN entries' :
            entries'[m] = Registry!Entry(entries'[m].factory)
      BY <1>5, <3>1, <3>2 DEF EntriesLogged
    <3>6. \A m \in Names \ DOMAIN entries' : Registry!Registrations(log', m) = {}
      BY <1>5, <1>6, <3>1 DEF EntriesLogged
    <3>7. DOMAIN entries' \subseteq Names
      BY <1>5, <3>1 DEF EntriesLogged
    <3> QED
      BY <3>4, <3>5, <3>6, <3>7 DEF EntriesLogged, Registry!Entry, Registry!Description
  <2> QED
    BY <2>1, <2>2
<1> QED
  BY <1>4, <1>8 DEF RegistryInv

LEMMA UnregisterStep ==
  ASSUME RegistryInv, NEW n \in Names, Registry!UnregisterTool(n)
  PROVE  RegistryInv'
<1> DEFINE c == [call |-> "unregister", name |-> n]
<1>1. c \in RegistryCall /\ c.call = "unregister" /\ c.name = n
  BY DEF RegistryCall
<1>2. log' = Append(log, c) /\ UNCHANGED <<allow_list, deny_list>>
  BY DEF Registry!UnregisterTool, Registry!Logged
<1>3. entries' = [m \in DOMAIN entries \ {n} |-> entries[m]]
  BY DEF Registry!UnregisterTool
<1> HIDE DEF c
<1>4. /\ log' \in Seq(RegistryCall)
      /\ allow_list' = Registry!Setting(log', "allowOnly")
      /\ deny_list' = Registry!Setting(log', "deny")
  BY <1>1, <1>2, ListsOfStep
<1>5. log \in Seq(RegistryCall) /\ EntriesLogged
  BY DEF RegistryInv
<1>6. \A m : m # n =>
        /\ Registry!Registrations(log', m) = Registry!Registrations(log, m)
        /\ \A g : InForce(log, m, g) => InForce(log', m, g)
  BY <1>1, <1>2, <1>5, OtherNames
<1>7. Registry!Registrations(log', n) = {}
  BY <1>1, <1>2, <1>5, UnregisterFrees
<1>8. /\ DOMAIN entries' = DOMAIN entries \ {n}
      /\ \A m \in DOMAIN entries' : m # n /\ entries'[m] = entries[m]
  BY <1>3
<1>9. EntriesLogged'
  <2>1. \A m \in DOMAIN entries' :
          /\ entries'[m] = Registry!Entry(entries'[m].factory)
          /\ entries'[m].factory \in Factories
          /\ InForce(log', m, entries'[m].factory)
    BY <1>5, <1>6, <1>8 DEF EntriesLogged
  <2>2. \A m \in Names \ DOMAIN entries' : Registry!Registrations(log', m) = {}
    BY <1>5, <1>6, <1>7, <1>8 DEF EntriesLogged
  <2>3. DOMAIN entries' \subseteq Names
    BY <1>5, <1>8 DEF EntriesLogged
  <2> QED
    BY <2>1, <2>2, <2>3 DEF EntriesLogged, Registry!Entry, Registry!Description
<1> QED
  BY <1>4, <1>9 DEF RegistryInv

LEMMA PolicyStep ==
  ASSUME RegistryInv,
         \/ \E names \in SUBSET (Names \cup {Empty}) :
              Registry!AllowOnly(names) \/ Registry!Deny(names)
         \/ Registry!ClearPolicy
  PROVE  RegistryInv'
<1>1. ASSUME NEW names \in SUBSET (Names \cup {Empty}), Registry!AllowOnly(names)
      PROVE  RegistryInv'
  <2> DEFINE c == [call |-> "allowOnly", names |-> names]
  <2>1. c \in RegistryCall /\ c.call = "allowOnly" /\ c.names = names
    BY DEF RegistryCall
  <2>2. /\ log' = Append(log, c) /\ allow_list' = names \ {Empty}
        /\ UNCHANGED <<entries, deny_list>>
    BY <1>1 DEF Registry!AllowOnly, Registry!Logged
  <2> HIDE DEF c
  <2> QED
    BY <2>1, <2>2, ListsOfStep, PolicyKeepsEntries DEF RegistryInv
<1>2. ASSUME NEW names \in SUBSET (Names \cup {Empty}), Registry!Deny(names)
      PROVE  RegistryInv'
  <2> DEFINE c == [call |-> "deny", names |-> names]
  <2>1. c \in RegistryCall /\ c.call = "deny" /\ c.names = names
    BY DEF RegistryCall
  <2>2. /\ log' = Append(log, c) /\ deny_list' = names \ {Empty}
        /\ UNCHANGED <<entries, allow_list>>
    BY <1>2 DEF Registry!Deny, Registry!Logged
  <2> HIDE DEF c
  <2> QED
    BY <2>1, <2>2, ListsOfStep, PolicyKeepsEntries DEF RegistryInv
<1>3. ASSUME Registry!ClearPolicy PROVE RegistryInv'
  <2> DEFINE c == [call |-> "clearPolicy"]
  <2>1. c \in RegistryCall /\ c.call = "clearPolicy"
    BY DEF RegistryCall
  <2>2. log' = Append(log, c) /\ allow_list' = {} /\ deny_list' = {} /\ UNCHANGED entries
    BY <1>3 DEF Registry!ClearPolicy, Registry!Logged
  <2> HIDE DEF c
  <2> QED
    BY <2>1, <2>2, ListsOfStep, PolicyKeepsEntries DEF RegistryInv
<1> QED
  BY <1>1, <1>2, <1>3

LEMMA RegistryStays ==
  ASSUME RegistryInv, UNCHANGED <<entries, allow_list, deny_list, log>>
  PROVE  RegistryInv'
BY DEF RegistryInv, EntriesLogged, InForce, Registry!Registrations, Registry!Decisive,
       Registry!CallsOn, Registry!Setting, Registry!Latest, Registry!Earliest,
       Registry!Entry, Registry!Description

LEMMA RegistryPreserved ==
  ASSUME RegistryInv, [Registry!Next]_(Registry!vars)
  PROVE  RegistryInv'
<1>1. ASSUME NEW n \in Names, NEW f \in Factories, NEW replace \in BOOLEAN,
             Registry!RegisterFactory(n, f, replace)
      PROVE  RegistryInv'
  BY <1>1, RegisterStep
<1>2. ASSUME NEW n \in Names, Registry!UnregisterTool(n) PROVE RegistryInv'
  BY <1>2, UnregisterStep
<1>3. ASSUME NEW names \in SUBSET (Names \cup {Empty}),
             Registry!AllowOnly(names) \/ Registry!Deny(names)
      PROVE  RegistryInv'
  BY <1>3, PolicyStep
<1>4. CASE Registry!ClearPolicy
  BY <1>4, PolicyStep
<1>5. CASE Registry!RegisterInvalid
  BY <1>5, RegistryStays DEF Registry!RegisterInvalid, Registry!vars
<1>6. CASE Registry!Offer
  BY <1>6, RegistryStays DEF Registry!Offer
<1>7. ASSUME NEW n \in Names \cup {Empty}, Registry!Execute(n) PROVE RegistryInv'
  BY <1>7, RegistryStays DEF Registry!Execute
<1>8. CASE UNCHANGED Registry!vars
  BY <1>8, RegistryStays DEF Registry!vars
<1> QED
  BY <1>1, <1>2, <1>3, <1>4, <1>5, <1>6, <1>7, <1>8 DEF Registry!Next

(* isAllowed says what the latest settings permit.                           *)
LEMMA AllowedIsPermitted ==
  ASSUME RegistryInv
  PROVE  \A n : Registry!IsAllowed(n) <=> Registry!Permitted(n)
BY DEF RegistryInv, Registry!IsAllowed, Registry!Permitted

(* Whatever registrations, removals and settings come in whatever order, a    *)
(* tool that execute() runs is the one of the registration in force, permitted*)
(* by the latest deny() and allowOnly() (tool_registry.h:44), and the prompt  *)
(* of a run lists those tools exactly, each with the description of the tool  *)
(* that would run.                                                           *)
THEOREM LatestDecide == Registry!Spec => LatestCallsDecide
<1>1. ASSUME RegistryInv, NEW n \in Names, Registry!Execute(n), ran' # None
      PROVE  Registry!Permitted(n) /\ ran' = Registry!FactoryOf(n)
  <2>1. n \in DOMAIN entries /\ Registry!IsAllowed(n) /\ ran' = entries[n].factory
    BY <1>1 DEF Registry!Execute, Registry!contains
  <2> QED
    BY <1>1, <2>1, AllowedIsPermitted, FactoryOfEntry DEF RegistryInv
<1>2. ASSUME RegistryInv, Registry!Offer
      PROVE  offered' = [n \in {m \in Names : /\ Registry!Permitted(m)
                                              /\ Registry!FactoryOf(m) # None} |->
                           Registry!Description(Registry!FactoryOf(n))]
  <2>1. offered' = [n \in {m \in DOMAIN entries : Registry!IsAllowed(m)} |->
                      entries[n].description]
    BY <1>2 DEF Registry!Offer
  <2>2. \A n \in Names :
          Registry!FactoryOf(n) = IF n \in DOMAIN entries THEN entries[n].factory ELSE None
    BY <1>2, FactoryOfEntry DEF RegistryInv
  <2>3. /\ DOMAIN entries \subseteq Names
        /\ \A n \in DOMAIN entries :
             /\ entries[n].factory # None
             /\ entries[n].description = Registry!Description(entries[n].factory)
    BY <1>2, RegistryAssumption DEF RegistryInv, EntriesLogged, Registry!Entry
  <2>4. {m \in DOMAIN entries : Registry!IsAllowed(m)} =
          {m \in Names : Registry!Permitted(m) /\ Registry!FactoryOf(m) # None}
    BY <1>2, <2>2, <2>3, AllowedIsPermitted
  <2>5. \A n \in DOMAIN entries :
          entries[n].description = Registry!Description(Registry!FactoryOf(n))
    BY <2>2, <2>3
  <2> HIDE DEF Registry!Description, Registry!FactoryOf
  <2> QED
    BY <2>1, <2>4, <2>5
<1> DEFINE Decided ==
             /\ \A n \in Names : Registry!Execute(n) /\ ran' # None =>
                  Registry!Permitted(n) /\ ran' = Registry!FactoryOf(n)
             /\ Registry!Offer =>
                  offered' =
                    [n \in {m \in Names : Registry!Permitted(m) /\ Registry!FactoryOf(m) # None} |->
                       Registry!Description(Registry!FactoryOf(n))]
<1>3. RegistryInv => Decided
  BY <1>1, <1>2
<1>4. RegistryInv /\ [Registry!Next]_(Registry!vars) => [Decided]_(Registry!vars)
  BY <1>3
<1>5. Registry!Init => RegistryInv
  BY RegistryInitially
<1>6. RegistryInv /\ [Registry!Next]_(Registry!vars) => RegistryInv'
  BY RegistryPreserved
<1> QED
  BY <1>4, <1>5, <1>6, PTL DEF Registry!Spec, LatestCallsDecide, Registry!LatestCallsDecide

=============================================================================
