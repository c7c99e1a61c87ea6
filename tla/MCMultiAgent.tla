---------------------------- MODULE MCMultiAgent ----------------------------
(* Two workers; agent.run succeeds, fails, or throws.                       *)
EXTENDS MultiAgent

Answered(text) == [success |-> TRUE, final_answer |-> text, error_message |-> ""]
Failed(text) == [success |-> FALSE, final_answer |-> "", error_message |-> text]

MCAgentResults == {Answered("answer a"), Answered("answer b"), Failed("max steps")}
MCThrownResult == Failed("agent thread failed")
MCDefaultResult == Failed("")
=============================================================================
