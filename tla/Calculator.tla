------------------------------ MODULE Calculator ------------------------------
(***************************************************************************)
(* The parser of calculator (tools/calculator_tool.cpp).  An expression is a *)
(* sequence of characters, a value the fraction <<n, d>> that a double of    *)
(* the code stands for; rounding and results out of range are left out.      *)
(***************************************************************************)
EXTENDS Integers, Sequences, SequencesExt

CONSTANT Reciprocal      \* of the least magnitude of a divisor: 10^12 in the code

Digits == {"0", "2"}
Signs == {"+", "-"}
Characters == Digits \cup Signs \cup {".", "*", "/", "(", ")", "space"}

DigitValue(c) == IF c = "0" THEN 0 ELSE 2

Combine(op, a, b) ==
  CASE op = "+" -> <<a[1] * b[2] + b[1] * a[2], a[2] * b[2]>>
    [] op = "-" -> <<a[1] * b[2] - b[1] * a[2], a[2] * b[2]>>
    [] op = "*" -> <<a[1] * b[1], a[2] * b[2]>>
    [] op = "/" -> <<a[1] * b[2], a[2] * b[1]>>

Magnitude(n) == IF n < 0 THEN -n ELSE n
IsNearZero(a) == Magnitude(a[1]) * Reciprocal < Magnitude(a[2])
Same(a, b) == a = b \/ a[1] * b[2] = b[1] * a[2]

-----------------------------------------------------------------------------
(* What a parsing function leaves: its value and the position after it, or   *)
(* that it threw.                                                            *)
Threw == [ok |-> FALSE, value |-> <<0, 1>>, position |-> 0]
Parsed(value, position) == [ok |-> TRUE, value |-> value, position |-> position]
At(text, p) == IF p \in DOMAIN text THEN text[p] ELSE "end"

Skip(text, p, characters) == Min({q \in p..Len(text) + 1 : At(text, q) \notin characters})
SkipSpaces(text, p) == Skip(text, p, {"space"})
SkipDigits(text, p) == Skip(text, p, Digits)

Decimal(digits, places) ==     \* std::stod
  FoldLeft(LAMBDA v, c : <<10 * v[1] + DigitValue(c), v[2]>>, <<0, 10^places>>, digits)

ParseNumber(text, p) ==
  LET whole == SkipDigits(text, p)
      end == IF At(text, whole) = "." THEN SkipDigits(text, whole + 1) ELSE whole
      fraction == SubSeq(text, whole + 1, end - 1)
      digits == SubSeq(text, p, whole - 1) \o fraction
  IN IF digits = <<>> THEN Threw
     ELSE Parsed(Decimal(digits, Len(fraction)), end)

(* The parsing functions call one another: the loops continue from what is on *)
(* their left.  parse[f, left] is the result of f from the position of left. *)
Results == [ok : BOOLEAN, value : Int \X Int, position : Nat]
From(p) == Parsed(<<0, 1>>, p)

ParseFactor(parse, text, from) ==
  LET p == SkipSpaces(text, from) IN
  CASE At(text, p) = "+" -> parse["factor", From(p + 1)]
    [] At(text, p) = "-" ->
         LET r == parse["factor", From(p + 1)]
         IN [r EXCEPT !.value = <<-@[1], @[2]>>]
    [] At(text, p) = "(" ->
         LET r == parse["expression", From(p + 1)]
             closing == SkipSpaces(text, r.position)
         IN IF r.ok /\ At(text, closing) = ")" THEN Parsed(r.value, closing + 1) ELSE Threw
    [] OTHER -> ParseNumber(text, p)

MoreFactors(parse, text, left) ==     \* the loop of parseTerm
  LET p == SkipSpaces(text, left.position)
      right == parse["factor", From(p + 1)]
  IN IF ~left.ok \/ At(text, p) \notin {"*", "/"} THEN left
     ELSE IF ~right.ok \/ (At(text, p) = "/" /\ IsNearZero(right.value)) THEN Threw
     ELSE parse["moreFactors",
                Parsed(Combine(text[p], left.value, right.value), right.position)]

ParseTerm(parse, left) == parse["moreFactors", parse["factor", left]]

MoreTermsFromRight(parse, text, left) ==  \* what follows an operator is one operand
  LET p == SkipSpaces(text, left.position)
      right == parse["expression", From(p + 1)]
  IN IF ~left.ok \/ At(text, p) \notin Signs THEN left
     ELSE IF ~right.ok THEN Threw
     ELSE Parsed(Combine(text[p], left.value, right.value), right.position)

MoreTerms(parse, text, left) ==       \* the loop of parseExpression
  LET p == SkipSpaces(text, left.position)
      right == parse["term", From(p + 1)]
  IN IF ~left.ok \/ At(text, p) \notin Signs THEN left
     ELSE IF ~right.ok THEN Threw
     ELSE parse["moreTerms",
                Parsed(Combine(text[p], left.value, right.value), right.position)]

ParseExpression(parse, left) == parse["moreTerms", parse["term", left]]

ExpressionParser(text) ==
  LET parse[f \in {"factor", "moreFactors", "term", "moreTerms", "expression"},
            left \in Results] ==
        CASE f = "factor" -> ParseFactor(parse, text, left.position)
          [] f = "moreFactors" -> MoreFactors(parse, text, left)
          [] f = "term" -> ParseTerm(parse, left)
          [] f = "moreTerms" -> MoreTerms(parse, text, left)
          [] f = "expression" -> ParseExpression(parse, left)
  IN parse

(* parse(): all of the text is one expression.                               *)
Parse(text) ==
  LET r == ExpressionParser(text)["expression", From(1)]
  IN IF r.ok /\ SkipSpaces(text, r.position) <= Len(text) THEN Threw ELSE r

=============================================================================
