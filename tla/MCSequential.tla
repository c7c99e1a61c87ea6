---------------------------- MODULE MCSequential ----------------------------
(***************************************************************************)
(* The components that one thread runs from beginning to end, each against   *)
(* everything that can be done to it.  They share no state, so that one of   *)
(* them moves in a behaviour, the one in focus, and the others stay as they  *)
(* are: their interleavings would add states and no case.                    *)
(***************************************************************************)
EXTENDS SkillLoader

(* Two files, and a task that contains the keyword of one content and twice *)
(* that of the other; a file without keywords is found by its name.         *)
MCFiles == <<[name |-> 1, fallback |-> <<"a", "space", "b">>],
             [name |-> 2, fallback |-> <<"b">>]>>
MCContents ==
  {[readable |-> FALSE, first |-> <<>>, rest |-> <<>>],
   [readable |-> TRUE, first |-> <<>>, rest |-> <<>>],
   [readable |-> TRUE, first |-> <<<<"a">>>>, rest |-> <<<<"A_accented", "dash">>>>]}
MCTasks == {<<"b", "space", "a", "space", "b">>}

CONSTANTS
  MaxChanges,            \* bound: contents other programs put during a run()
  MaxTask, MaxKeyword,   \* bounds: characters of a task, of a keyword of a skill
  MaxPieces,             \* bound: pieces of a reply
  MaxListed, MaxLetters, \* bounds: keywords of a list, characters of one
  MaxOutput,             \* bound: characters of an answer
  MaxArgs,               \* bound: words of a command line
  Width                  \* bits of a number on it

ASSUME LineAssumption == MaxArgs \in Nat

VARIABLES
  focus,                                                   \* the component that moves
  typedTask, typedKeyword,                                 \* Match
  expression,                                              \* Calculator
  text, written, stray, pieces,                            \* Scanner
  form, keywords, output,                                  \* Lists
  args, env, index, options, positional, stage             \* Line

(* The bounds: two files that change, or one that changes twice, while a run *)
(* goes on; a task of three words and a keyword of two; three numbers and    *)
(* two operators, or a difference in parentheses; two objects with prose     *)
(* before and between them; two keywords of two characters, for an escaped   *)
(* pair, a blank at an end and a separator; an option with its value and two *)
(* more words.  Of five characters can be made a divisor at the least that   *)
(* the calculator divides by, 1/5 for the 1/10^12 of the code, and below it. *)
MCReciprocal == 5
Match == INSTANCE SkillMatchRuns WITH task <- typedTask, keyword <- typedKeyword
Calculator == INSTANCE CalculatorRuns WITH MaxLength <- 5, Reciprocal <- MCReciprocal
Scanner == INSTANCE ReplyScannerRuns
Lists == INSTANCE KeywordListsRuns WITH MaxKeywords <- MaxListed, MaxKeyword <- MaxLetters
Line == INSTANCE CommandLine WITH phase <- stage

Components == {"skills", "match", "calculator", "scanner", "lists", "line"}

(* Out of focus there is one state: no file, no words.                       *)
MCInit ==
  /\ focus \in Components
  /\ Init
  /\ focus # "skills" => disk = [p \in Paths |-> Absent]
  /\ Match!Init /\ Calculator!Init /\ Scanner!Init
  /\ Lists!Init
  /\ focus # "lists" => form = "json"
  /\ IF focus = "line" THEN Line!Init
     ELSE /\ args = <<>> /\ env = [model |-> "", max_steps |-> ""]
          /\ index = 1 /\ options = Line!Defaults /\ positional = <<>>
          /\ stage = "environment"

matchVars == <<typedTask, typedKeyword>>
scannerVars == <<text, written, stray, pieces>>
listsVars == <<form, keywords, output>>
lineVars == <<args, env, index, options, positional, stage>>
MCVars == <<focus, vars, matchVars, expression, scannerVars, listsVars, lineVars>>

FewChanges == phase' = "idle" \/
  \A p, q \in Paths : p # q =>
    Cardinality(seen'[p]) + Cardinality(seen'[q]) <= 2 + MaxChanges

(* Everything but the component in focus stays.                              *)
Focus(component) ==
  /\ focus = component
  /\ focus' = focus
  /\ IF focus = "skills" THEN TRUE ELSE UNCHANGED vars
  /\ IF focus = "match" THEN TRUE ELSE UNCHANGED matchVars
  /\ IF focus = "calculator" THEN TRUE ELSE UNCHANGED expression
  /\ IF focus = "scanner" THEN TRUE ELSE UNCHANGED scannerVars
  /\ IF focus = "lists" THEN TRUE ELSE UNCHANGED listsVars
  /\ IF focus = "line" THEN TRUE ELSE UNCHANGED lineVars

(* The texts stop at their bounds.                                           *)
Typed == {"match", "calculator", "scanner", "lists"}
Finished == focus \in Typed /\ UNCHANGED MCVars

MCNext ==
  \/ Focus("skills") /\ Next /\ FewChanges
  \/ Focus("match") /\ Match!Next
  \/ Focus("calculator") /\ Calculator!Next
  \/ Focus("scanner") /\ Scanner!Next
  \/ Focus("lists") /\ Lists!Next
  \/ Focus("line") /\ Line!Next
  \/ Finished

MCSpec == MCInit /\ [][MCNext]_MCVars

-----------------------------------------------------------------------------
(* A keyword scores exactly when its words stand in the task, whatever their *)
(* case, accents and separators (SkillMatchRuns).                            *)
KeywordMatchesWords == Match!KeywordMatchesWords
(* The calculator accepts what its grammar derives and gives the value of    *)
(* the derivation (CalculatorRuns).                                          *)
MatchesGrammar == Calculator!MatchesGrammar
(* The objects found in a reply are those written, whatever surrounds them,  *)
(* quotation marks after a stray brace excepted (ReplyScannerRuns).          *)
ObjectsInProseFound == Scanner!ObjectsInProseFound
(* Both evaluators pass an answer exactly when it mentions every keyword of  *)
(* the task's list (KeywordListsRuns).                                       *)
VerdictsFollowList == Lists!VerdictsFollowList
(* A command line does what it says when it is read as a whole (CommandLine).*)
LineMeansWhatItSays == Line!LineMeansWhatItSays
=============================================================================
