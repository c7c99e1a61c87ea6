---------------------------- MODULE CalculatorRuns ----------------------------
(***************************************************************************)
(* Every expression up to a length, typed character by character, and its    *)
(* value, against the grammar.                                               *)
(***************************************************************************)
EXTENDS Calculator

CONSTANT MaxLength       \* bound on the expression

VARIABLE expression

Init == expression = <<>>

Type(c) == Len(expression) < MaxLength /\ expression' = Append(expression, c)

Next == \E c \in Characters : Type(c)

Spec == Init /\ [][Next]_expression

-----------------------------------------------------------------------------
(* The values that the grammar in the comment of the parser derives for a    *)
(* text, Undefined among them when a part divides by what the calculator     *)
(* takes for zero.                                                           *)
Undefined == <<0, 0>>
IsUndefined(v) == v[2] = 0

Trimmed(text) ==
  LET kept == {i \in DOMAIN text : text[i] # "space"}
  IN IF kept = {} THEN <<>>
     ELSE SubSeq(text, CHOOSE i \in kept : \A j \in kept : i <= j,
                       CHOOSE i \in kept : \A j \in kept : j <= i)

Apply(op, a, b) ==
  IF IsUndefined(a) \/ IsUndefined(b) \/ (op = "/" /\ IsNearZero(b)) THEN Undefined
  ELSE Combine(op, a, b)

(* number = digits with at most one point somewhere.                         *)
Number(text) ==
  LET points == {i \in DOMAIN text : text[i] = "."}
      digits == SelectSeq(text, LAMBDA c : c # ".")
      point == IF points = {} THEN Len(text) ELSE CHOOSE i \in points : TRUE
  IN IF digits = <<>> \/ (\E i, j \in points : i # j) \/ (\E i \in DOMAIN digits : digits[i] \notin Digits)
       THEN {}
       ELSE {Decimal(digits, Len(text) - point)}

Derived[rule \in {"expression", "term", "factor"}, text \in Seq(Characters)] ==
  LET n == Len(text)
      Binary(operators, left, right) ==
        UNION {{Apply(text[i], a, b) : a \in Derived[left, SubSeq(text, 1, i - 1)],
                                       b \in Derived[right, SubSeq(text, i + 1, n)]} :
               i \in {k \in 1..n : text[k] \in operators}}
      inner == Trimmed(text)
      First(c) == inner # <<>> /\ Head(inner) = c
      Signed == Derived["factor", Tail(inner)]
  IN CASE rule = "expression" ->
            Derived["term", text] \cup Binary(Signs, "expression", "term")
       [] rule = "term" ->
            Derived["factor", text] \cup Binary({"*", "/"}, "term", "factor")
       [] rule = "factor" ->
            Number(inner)
              \cup (IF First("(") /\ Last(inner) = ")"
                     THEN Derived["expression", SubSeq(inner, 2, Len(inner) - 1)] ELSE {})
              \cup (IF First("+") THEN Signed ELSE {})
              \cup (IF First("-") THEN {<<-v[1], v[2]>> : v \in Signed} ELSE {})

(* The parser accepts exactly the expressions of the grammar that it states  *)
(* (calculator_tool.cpp:29) and gives each the value the grammar does:       *)
(* operators of a kind from left to right, signs before products before      *)
(* sums, spaces anywhere but in a number.  The one departure is a divisor    *)
(* other than zero but below 1/Reciprocal: dividing by it is an error, as    *)
(* by zero (calculator_tool.cpp:54).                                         *)
MatchesGrammar ==
  LET values == Derived["expression", expression]
      parsed == Parse(expression)
  IN /\ parsed.ok <=> values # {} /\ \A v \in values : ~IsUndefined(v)
     /\ parsed.ok => \A v \in values : Same(v, parsed.value)

=============================================================================
