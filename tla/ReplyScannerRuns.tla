--------------------------- MODULE ReplyScannerRuns ---------------------------
(***************************************************************************)
(* An LLM writes a reply, a character of prose or an object at a time.       *)
(***************************************************************************)
EXTENDS ReplyScanner

CONSTANT MaxPieces       \* bound on the pieces of a reply

VARIABLES
  text,
  written,   \* the objects in it, in order
  stray,     \* the prose has an opening brace that nothing closes
  pieces

vars == <<text, written, stray, pieces>>

Init == text = <<>> /\ written = <<>> /\ stray = FALSE /\ pieces = 0

More == pieces < MaxPieces /\ pieces' = pieces + 1

WriteProse(c) ==
  /\ More
  /\ text' = Append(text, c)
  /\ UNCHANGED <<written, stray>>

(* Prose with a brace in it is followed by no quotation marks of its own:    *)
(* with one, the code loses an object that has a closing brace in a string.  *)
WriteStray ==
  /\ More
  /\ ~stray /\ stray' = TRUE
  /\ text' = Append(text, Open)
  /\ UNCHANGED written

WriteObject(o) ==
  /\ More
  /\ text' = text \o o /\ written' = Append(written, o)
  /\ UNCHANGED stray

Next ==
  \/ \E c \in {Letter, Quote, Escape} : (stray => c # Quote) /\ WriteProse(c)
  \/ WriteStray
  \/ \E o \in Objects : WriteObject(o)

Spec == Init /\ [][Next]_vars

-----------------------------------------------------------------------------
(* With quotation marks, apostrophes or backslashes in the prose, before,    *)
(* between and after, or an opening brace too many that no quotation mark of *)
(* the prose comes after, the objects found are the objects written, each of *)
(* them once, in their order, and no part of one: braces and escaped         *)
(* quotation marks in their strings neither end nor prolong them.            *)
ObjectsInProseFound == Found(text) = written

=============================================================================
