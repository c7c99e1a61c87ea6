----------------------------- MODULE KeywordLists -----------------------------
(***************************************************************************)
(* How a task's expected keywords get from the harness to the keyword and    *)
(* the VLM evaluator and decide (harness/harness_runner.cpp,                 *)
(* harness/keyword_evaluator.cpp, harness/vlm_evaluator.cpp).  The harness   *)
(* writes a JSON array; KeywordEvaluator reads it with the JSON library,     *)
(* VLMEvaluator with a scanner of its own.  Texts are sequences of           *)
(* characters.                                                               *)
(***************************************************************************)
EXTENDS Naturals, Sequences, SequencesExt

Characters == {"a", "A", "comma", "space", "quote", "backslash"}
Lower(text) == [i \in DOMAIN text |-> IF text[i] = "A" THEN "a" ELSE text[i]]
Occurs(needle, text) ==
  \E i \in 0..(Len(text) - Len(needle)) : SubSeq(text, i + 1, i + Len(needle)) = needle

(* nlohmann::json(keywords).dump().                                          *)
Escaped(text) ==
  FlattenSeq([i \in DOMAIN text |->
    IF text[i] \in {"quote", "backslash"} THEN <<"backslash", text[i]>> ELSE <<text[i]>>])
Dumped(keywords) ==
  LET Item(i) == (IF i = 1 THEN <<>> ELSE <<"comma">>)
                   \o <<"quote">> \o Escaped(keywords[i]) \o <<"quote">>
  IN <<"[">> \o FlattenSeq([i \in DOMAIN keywords |-> Item(i)]) \o <<"]">>

-----------------------------------------------------------------------------
(* A text split at its commas, each part without blanks at its ends, parts   *)
(* of nothing but blanks left out.                                           *)
Trimmed(text) ==
  LET kept == {i \in DOMAIN text : text[i] # "space"}
  IN IF kept = {} THEN <<>>
     ELSE SubSeq(text, CHOOSE i \in kept : \A j \in kept : i <= j,
                       CHOOSE i \in kept : \A j \in kept : j <= i)

Split(parts, c) ==
  IF c = "comma" THEN Append(parts, <<>>)
  ELSE [parts EXCEPT ![Len(parts)] = Append(@, c)]
Keep(kept, part) ==
  IF Trimmed(part) = <<>> THEN kept ELSE Append(kept, Trimmed(part))
CommaSeparated(text) == FoldLeft(Keep, <<>>, FoldLeft(Split, << <<>> >>, text))

ScanStepUnescaped(scan, c) ==  \* a backslash is a character like any other
  CASE ~scan.in_string /\ c = "quote" -> [scan EXCEPT !.in_string = TRUE, !.current = <<>>]
    [] scan.in_string /\ c = "quote" ->
         [scan EXCEPT !.in_string = FALSE, !.values = Append(@, scan.current)]
    [] scan.in_string /\ c # "quote" -> [scan EXCEPT !.current = Append(@, c)]
    [] OTHER -> scan

(* One character of VLMEvaluator's scan of a text that begins with a bracket.*)
ScanStep(scan, c) ==
  CASE scan.escaped -> [scan EXCEPT !.current = Append(@, c), !.escaped = FALSE]
    [] scan.in_string /\ ~scan.escaped /\ c = "backslash" ->
         [scan EXCEPT !.escaped = TRUE]
    [] OTHER -> ScanStepUnescaped(scan, c)

(* VLMEvaluator::parseList.                                                  *)
ParseList(text) ==
  LET begin == [in_string |-> FALSE, escaped |-> FALSE, current |-> <<>>, values |-> <<>>]
      found == FoldLeft(ScanStep, begin, text).values
  IN IF text # <<>> /\ text[1] = "[" /\ found # <<>> THEN found ELSE CommaSeparated(text)

(* KeywordEvaluator::parseKeywords: Json::parse undoes dump(); what is not a *)
(* JSON array is separated by commas.                                        *)
ParseKeywords(text, dumped) ==
  IF dumped # <<>> /\ text = Dumped(dumped) THEN dumped ELSE CommaSeparated(text)

-----------------------------------------------------------------------------
(* evaluate() of either, without an expected action.                         *)
Passed(keywords, output) ==
  keywords # <<>> /\ \A i \in DOMAIN keywords : Occurs(Lower(keywords[i]), Lower(output))

=============================================================================
