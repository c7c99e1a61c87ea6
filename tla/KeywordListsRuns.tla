--------------------------- MODULE KeywordListsRuns ---------------------------
(***************************************************************************)
(* Every short list of keywords and every short answer of an agent, written  *)
(* character by character, and the verdicts of both evaluators.              *)
(***************************************************************************)
EXTENDS KeywordLists

CONSTANTS MaxKeywords, MaxKeyword, MaxOutput      \* bounds on the lengths

VARIABLES
  form,       \* the keywords are given as "json" or separated by "commas"
  keywords, output

vars == <<form, keywords, output>>

Init == form \in {"json", "commas"} /\ keywords = <<>> /\ output = <<>>

AddKeyword ==
  /\ Len(keywords) < MaxKeywords
  /\ keywords' = Append(keywords, <<>>)
  /\ UNCHANGED <<form, output>>

TypeKeyword(c) ==
  /\ keywords # <<>> /\ Len(keywords[Len(keywords)]) < MaxKeyword
  /\ keywords' = [keywords EXCEPT ![Len(keywords)] = Append(@, c)]
  /\ UNCHANGED <<form, output>>

TypeOutput(c) ==
  /\ Len(output) < MaxOutput
  /\ output' = Append(output, c)
  /\ UNCHANGED <<form, keywords>>

Next == AddKeyword \/ \E c \in Characters : TypeKeyword(c) \/ TypeOutput(c)

Spec == Init /\ [][Next]_vars

-----------------------------------------------------------------------------
Joined ==
  FlattenSeq([i \in DOMAIN keywords |->
                (IF i = 1 THEN <<>> ELSE <<"comma", "space">>) \o keywords[i]])
Metadata == IF form = "json" THEN Dumped(keywords) ELSE Joined

(* A list of keywords a task can have; separated by commas, a keyword has    *)
(* none of its own and no blanks at its ends.                                *)
Listed ==
  /\ keywords # <<>>
  /\ form = "commas" => \A i \in DOMAIN keywords :
       /\ keywords[i] # <<>>
       /\ \A j \in DOMAIN keywords[i] :
            /\ keywords[i][j] # "comma"
            /\ j \in {1, Len(keywords[i])} => keywords[i][j] # "space"

SameLetter(c, d) == c = d \/ {c, d} = {"a", "A"}
Mentioned(keyword) ==
  \E start \in 0..(Len(output) - Len(keyword)) :
    \A j \in DOMAIN keyword : SameLetter(keyword[j], output[start + j])

(* Both evaluators pass an answer exactly when it mentions every keyword of  *)
(* the task, whatever the case of its letters and whatever quotation marks,  *)
(* backslashes and commas the keywords contain: the scanner of VLMEvaluator  *)
(* reads the JSON that the harness writes as the JSON library does.          *)
VerdictsFollowList ==
  Listed =>
    LET mentioned == \A i \in DOMAIN keywords : Mentioned(keywords[i])
        dumped == IF form = "json" THEN keywords ELSE <<>>
    IN /\ Passed(ParseKeywords(Metadata, dumped), output) = mentioned
       /\ Passed(ParseList(Metadata), output) = mentioned

=============================================================================
