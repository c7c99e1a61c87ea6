--------------------------- MODULE ResultExchange ---------------------------
(***************************************************************************)
(* What MultiAgentCoordinator::run promises, without threads, mailboxes or  *)
(* notifications: two sides each reach at most one outcome, publish it at   *)
(* most once, and may read the outcome the other side published; the        *)
(* exchange then ends, by returning both results or by an exception, and    *)
(* nothing changes after its end.                                           *)
(***************************************************************************)
CONSTANTS
  First, Second,   \* the two sides
  Outcomes,        \* the possible AgentRunResults
  NoOutcome        \* nothing yet

Sides == {First, Second}
Other(s) == IF s = First THEN Second ELSE First

VARIABLES
  outcome,     \* outcome[s]: the outcome side s reached
  published,   \* published[s]: what s sent to the other side
  obtained,    \* obtained[s]: what s knows of the other side's outcome
  phase        \* "open", "returned" or "thrown"

vars == <<outcome, published, obtained, phase>>

Init ==
  /\ outcome = [s \in Sides |-> NoOutcome]
  /\ published = [s \in Sides |-> NoOutcome]
  /\ obtained = [s \in Sides |-> NoOutcome]
  /\ phase = "open"

Decide(s) ==
  /\ phase = "open"
  /\ outcome[s] = NoOutcome
  /\ \E o \in Outcomes : outcome' = [outcome EXCEPT ![s] = o]
  /\ UNCHANGED <<published, obtained, phase>>

Publish(s) ==
  /\ phase = "open"
  /\ outcome[s] # NoOutcome
  /\ published[s] = NoOutcome
  /\ published' = [published EXCEPT ![s] = outcome[s]]
  /\ UNCHANGED <<outcome, obtained, phase>>

(* A side reads only after it has published, so that neither can withhold   *)
(* its own outcome once it knows the other's.                               *)
Obtain(s) ==
  /\ phase = "open"
  /\ published[s] # NoOutcome
  /\ published[Other(s)] # NoOutcome
  /\ obtained[s] = NoOutcome
  /\ obtained' = [obtained EXCEPT ![s] = published[Other(s)]]
  /\ UNCHANGED <<outcome, published, phase>>

End ==
  /\ phase = "open"
  /\ phase' \in {"returned", "thrown"}
  /\ UNCHANGED <<outcome, published, obtained>>

Next == (\E s \in Sides : Decide(s) \/ Publish(s) \/ Obtain(s)) \/ End

(* The exchange is over in the end, whatever happens to the two sides.      *)
Spec == Init /\ [][Next]_vars /\ WF_vars(End)

=============================================================================
