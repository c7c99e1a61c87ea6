----------------------------- MODULE SkillMatch ------------------------------
(***************************************************************************)
(* skills/skill_loader.cpp: how a keyword is looked for in a task.  A text  *)
(* is a sequence of characters, each a member of Characters: enough of them *)
(* to tell letter case, accents and separators apart.                       *)
(***************************************************************************)
EXTENDS Naturals, Sequences, FiniteSets

Characters == {"a", "A_accented", "b", "space", "dash"}

(* A letter or digit in lower case without its accent, or a gap: what        *)
(* decodeUtf8, tolower and foldVietnamese make of a character.               *)
Fold(c) == CASE c \in {"a", "A_accented"} -> "a"
             [] c = "b" -> "b"
             [] OTHER -> "space"

NormalizedUntrimmed(text) ==     \* the trailing space left in place
  LET upTo[n \in 0..Len(text)] ==
        IF n = 0 THEN <<>>
        ELSE IF Fold(text[n]) = "space"
                  /\ (upTo[n - 1] = <<>> \/ upTo[n - 1][Len(upTo[n - 1])] = "space")
          THEN upTo[n - 1]
        ELSE Append(upTo[n - 1], Fold(text[n]))
  IN upTo[Len(text)]

(* normalizeForMatch(): folded, with single spaces and none at either end.  *)
Normalized(text) ==
  LET all == NormalizedUntrimmed(text)
  IN IF all # <<>> /\ all[Len(all)] = "space" THEN SubSeq(all, 1, Len(all) - 1) ELSE all

Occurs(needle, text) ==          \* std::string::find
  \E i \in 0..(Len(text) - Len(needle)) : SubSeq(text, i + 1, i + Len(needle)) = needle

Padded(text) == <<"space">> \o text \o <<"space">>

(* One keyword's part of keywordScore(): whole words only, and more of them *)
(* count for more.                                                          *)
Points(task, keyword) ==
  LET word == Normalized(keyword) IN
  IF word # <<>> /\ Occurs(Padded(word), Padded(Normalized(task)))
    THEN 10 + Cardinality({i \in DOMAIN word : word[i] = "space"})
    ELSE 0

KeywordScore(task, keywords) ==
  LET upTo[n \in 0..Len(keywords)] ==
        IF n = 0 THEN 0 ELSE upTo[n - 1] + Points(task, keywords[n])
  IN upTo[Len(keywords)]

=============================================================================
