--------------------------- MODULE SkillMatchRuns ----------------------------
(***************************************************************************)
(* Every task and keyword up to a length, typed character by character, and *)
(* the score the keyword gets, against a definition in terms of words.      *)
(***************************************************************************)
EXTENDS SkillMatch

CONSTANTS MaxTask, MaxKeyword      \* bounds on the lengths of the two texts

VARIABLES task, keyword
vars == <<task, keyword>>

Init == task = <<>> /\ keyword = <<>>

TypeTask(c) ==
  /\ Len(task) < MaxTask
  /\ task' = Append(task, c)
  /\ UNCHANGED keyword

TypeKeyword(c) ==
  /\ Len(keyword) < MaxKeyword
  /\ keyword' = Append(keyword, c)
  /\ UNCHANGED task

Next == \E c \in Characters : TypeTask(c) \/ TypeKeyword(c)

Spec == Init /\ [][Next]_vars

-----------------------------------------------------------------------------
(* The words of a text: its longest stretches without a gap, in order, each *)
(* folded.                                                                  *)
Gap(text, i) == i \notin DOMAIN text \/ Fold(text[i]) = "space"
Begins(text) == {i \in DOMAIN text : ~Gap(text, i) /\ Gap(text, i - 1)}
WordAt(text, i) ==
  LET end == CHOOSE j \in i..Len(text) :
               Gap(text, j + 1) /\ \A k \in i..j : ~Gap(text, k)
  IN [k \in 1..(end - i + 1) |-> Fold(text[i + k - 1])]
Words(text) ==
  [n \in 1..Cardinality(Begins(text)) |->
     WordAt(text, CHOOSE i \in Begins(text) :
                    Cardinality({j \in Begins(text) : j <= i}) = n)]

(* A keyword scores exactly when its words appear in the task, whole, next  *)
(* to each other and in that order, whatever separates them and whatever    *)
(* their case and accents; it then scores 10 and one more for each further  *)
(* word.  Padding, squeezed spaces and trimmed ends have to agree for this  *)
(* (normalizeForMatch and keywordScore).                                    *)
KeywordMatchesWords ==
  Points(task, keyword) =
    IF Words(keyword) # <<>> /\ Occurs(Words(keyword), Words(task))
      THEN 9 + Len(Words(keyword)) ELSE 0

=============================================================================
