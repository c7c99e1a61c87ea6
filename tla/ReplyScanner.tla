----------------------------- MODULE ReplyScanner -----------------------------
(***************************************************************************)
(* findJsonObject (agent/agent_loop.cpp): how the JSON objects are found in  *)
(* the reply of an LLM that wraps them in prose.  A reply is a sequence of   *)
(* characters; letter stands for every character that matters to nobody.    *)
(***************************************************************************)
EXTENDS Naturals, Sequences

Open == "{"     Close == "}"     Quote == "quote"     Escape == "backslash"
Letter == "letter"

(* JSON objects, as far as the scanner and Json::parse must agree on them:   *)
(* at most one member, whose value is a string or an object.  A string may   *)
(* hold braces and, escaped, the characters that are special in it.          *)
Quoted(body) == <<Quote>> \o body \o <<Quote>>
Strings == {Quoted(body) : body \in {<<Letter>>, <<Open>>, <<Close>>, <<Escape, Quote>>,
                                     <<Escape, Escape>>}}
Member(value) == <<Open>> \o Quoted(<<Letter>>) \o value \o <<Close>>
Flat == {<<Open, Close>>} \cup {Member(s) : s \in Strings}
Objects == Flat \cup {Member(o) : o \in Flat}

TryParseObject(text) == text \in Objects

-----------------------------------------------------------------------------
AdvanceUnescaped(scan, c) ==   \* a backslash is like any other character
  IF scan.in_string THEN [scan EXCEPT !.in_string = c # Quote]
  ELSE CASE c = Quote -> [scan EXCEPT !.in_string = TRUE]
         [] c = Open  -> [scan EXCEPT !.depth = @ + 1]
         [] c = Close -> [scan EXCEPT !.depth = @ - 1]
         [] OTHER     -> scan

(* One character of the scan that began at an opening brace.                 *)
Advance(scan, c) ==
  CASE scan.escaped -> [scan EXCEPT !.escaped = FALSE]
    [] scan.in_string /\ c = Escape /\ ~scan.escaped -> [scan EXCEPT !.escaped = TRUE]
    [] OTHER -> AdvanceUnescaped(scan, c)

(* Where the brace at start is closed again, 0 if it is not.                 *)
Matching(text, start) ==
  LET scan[i \in (start - 1)..Len(text)] ==
        IF i < start
          THEN [depth |-> 0, in_string |-> FALSE, escaped |-> FALSE, length |-> 0]
          ELSE LET before == scan[i - 1]
               IN IF before.depth = 0 /\ i > start THEN before
                  ELSE [Advance(before, text[i]) EXCEPT !.length = @ + 1]
      end == scan[Len(text)]
  IN IF end.depth = 0 THEN start + end.length - 1 ELSE 0

(* The objects found, in order.  What is between matching braces is skipped, *)
(* whether it parses or not; a brace without a match is passed over.         *)
FoundInProse(text) ==
  LET after[start \in 0..Len(text)] ==
        IF start = 0 THEN [next |-> 1, found |-> <<>>]
        ELSE LET before == after[start - 1]
                 end == Matching(text, start)
                 object == SubSeq(text, start, end)
             IN IF start < before.next \/ text[start] # Open \/ end = 0 THEN before
                ELSE [next |-> end + 1,
                      found |-> IF TryParseObject(object) THEN Append(before.found, object)
                                ELSE before.found]
  IN after[Len(text)].found

Found(text) == IF TryParseObject(text) THEN <<text>> ELSE FoundInProse(text)

=============================================================================
