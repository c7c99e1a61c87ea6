----------------------------- MODULE CommandLine ------------------------------
(***************************************************************************)
(* The oop_agent program (main.cpp): options from the environment, then from *)
(* the command line, the start of the parts, and what the program ends with. *)
(* --model stands for every option that takes a text, and --other for every  *)
(* word that looks like an option and is none.                               *)
(***************************************************************************)
EXTENDS Integers, Sequences, FiniteSetsExt

CONSTANTS
  MaxArgs,     \* bound: words after the program's name
  Width        \* bits of unsigned long long and of size_t

WithValue == {"--task", "--model", "--max-steps"}
Number == [w \in {"0", "7", "-1"} |-> CASE w = "0" -> 0 [] w = "7" -> 7 [] w = "-1" -> -1]
Unknown == {"--other", "-1"}                 \* as options
Plain == {"", "word", "0", "7"}
Words == WithValue \cup {"--help", "--list-tools"} \cup Unknown \cup Plain

(* How the program can end, and its exit status.                             *)
Ends == [help |-> 0, tools |-> 0, answered |-> 0, usage |-> 1,
         rejected |-> 2, failed |-> 2]

VARIABLES
  args,        \* the words of the command line
  env,         \* OOP_AGENT_MODEL and OOP_AGENT_MAX_STEPS; "" when not set
  index,       \* the word that is next
  options,     \* CliOptions; a text that was joined is the sequence of its parts
  positional,  \* positional_task
  phase        \* "environment", "arguments", "main", "agent", or an end

vars == <<args, env, index, options, positional, phase>>

Defaults == [task |-> <<>>, model |-> "default", max_steps |-> 10, list_tools |-> FALSE]

Init ==
  /\ args \in UNION {[1..n -> Words] : n \in 0..MaxArgs}
  /\ env \in [model : {"", "word"}, max_steps : {"", "7", "0", "-1", "word"}]
  /\ index = 1 /\ options = Defaults /\ positional = <<>>
  /\ phase = "environment"

-----------------------------------------------------------------------------
Invalid == 0

(* std::stoull negates a number with a minus sign as an unsigned one.        *)
ParsePositiveSize(w) ==
  IF w \in DOMAIN Number THEN Number[w] % 2^Width ELSE Invalid

IsEmpty(text) == text \in {<<>>, <<"">>}

End(how) == phase' = how /\ UNCHANGED <<args, env, index, options, positional>>

(* A number in the environment that is none ends the program, --help or not. *)
ReadEnvironment ==
  /\ phase = "environment"
  /\ IF env.max_steps # "" /\ ParsePositiveSize(env.max_steps) = Invalid
       THEN End("rejected")
       ELSE /\ options' =
                 [options EXCEPT
                    !.model = IF env.model = "" THEN @ ELSE env.model,
                    !.max_steps = IF env.max_steps = "" THEN @
                                  ELSE ParsePositiveSize(env.max_steps)]
            /\ phase' = "arguments"
            /\ UNCHANGED <<args, env, index, positional>>

NextIs(words) == phase = "arguments" /\ index <= Len(args) /\ args[index] \in words

Help == NextIs({"--help"}) /\ End("help")

ListTools ==
  /\ NextIs({"--list-tools"})
  /\ options' = [options EXCEPT !.list_tools = TRUE]
  /\ index' = index + 1
  /\ UNCHANGED <<args, env, positional, phase>>

(* The word after the option is its value, whatever it looks like.           *)
TakeValue ==
  /\ NextIs(WithValue) /\ index < Len(args)
  /\ LET value == args[index + 1]
         Set == CASE args[index] = "--task" -> [options EXCEPT !.task = <<value>>]
                  [] args[index] = "--model" -> [options EXCEPT !.model = value]
                  [] OTHER -> [options EXCEPT !.max_steps = ParsePositiveSize(value)]
     IN IF Set.max_steps = Invalid
          THEN End("rejected")
          ELSE /\ options' = Set
               /\ index' = index + 2
               /\ UNCHANGED <<args, env, positional, phase>>

MissingValue == NextIs(WithValue) /\ index = Len(args) /\ End("rejected")

UnknownOption == NextIs(Unknown) /\ End("rejected")

TakePositional ==
  /\ NextIs(Plain)
  /\ positional' = Append(positional, args[index])
  /\ index' = index + 1
  /\ UNCHANGED <<args, env, options, phase>>

EndOfArgumentsJoining ==       \* positional words replace a given task
  /\ phase = "arguments" /\ index > Len(args)
  /\ options' = [options EXCEPT !.task = IF positional # <<>> THEN positional ELSE @]
  /\ phase' = "main"
  /\ UNCHANGED <<args, env, index, positional>>

EndOfArguments ==
  /\ phase = "arguments" /\ index > Len(args)
  /\ options' = [options EXCEPT !.task =
                   IF IsEmpty(@) /\ positional # <<>> THEN positional ELSE @]
  /\ phase' = "main"
  /\ UNCHANGED <<args, env, index, positional>>

(* Directories, clients, memory store and registry are made; then the tools  *)
(* are listed, or the usage is printed, or the agent runs the task.          *)
StartFails == phase = "main" /\ End("failed")

Start ==
  /\ phase = "main"
  /\ End(IF options.list_tools THEN "tools"
         ELSE IF IsEmpty(options.task) THEN "usage" ELSE "agent")

(* run() succeeds, or it, or the change of the directory before it, fails.   *)
AgentEnds == phase = "agent" /\ \E how \in {"answered", "failed"} : End(how)

Next ==
  \/ ReadEnvironment
  \/ Help \/ ListTools \/ TakeValue \/ MissingValue \/ UnknownOption
  \/ TakePositional \/ EndOfArguments
  \/ StartFails \/ Start \/ AgentEnds
  \/ phase \in DOMAIN Ends /\ UNCHANGED vars

Spec == Init /\ [][Next]_vars

-----------------------------------------------------------------------------
(* The command line read as a whole.  A word is a value when an odd number   *)
(* of words that take a value stand right before it.                         *)
IsValue(i) == (i - 1 - Max({0} \cup {j \in 1..i - 1 : args[j] \notin WithValue})) % 2 = 1
Places(words) == {i \in DOMAIN args : ~IsValue(i) /\ args[i] \in words}

Errors ==
  Places(Unknown)
  \cup {i \in Places(WithValue) : i = Len(args)}
  \cup {i \in Places({"--max-steps"}) : i < Len(args) /\ ParsePositiveSize(args[i + 1]) = Invalid}

EnvironmentIsWrong == env.max_steps # "" /\ ParsePositiveSize(env.max_steps) = Invalid

LastValue(option, otherwise) ==
  IF Places({option}) = {} THEN otherwise ELSE args[Max(Places({option})) + 1]

(* The words that are neither options nor values, in order.                  *)
FreeWords ==
  LET free == Places(Plain)
      Rank(i) == Cardinality({j \in free : j <= i})
  IN [n \in 1..Cardinality(free) |-> args[CHOOSE i \in free : Rank(i) = n]]

(* A line is rejected exactly for an error that no --help precedes, or for   *)
(* the environment.  One that is not: the last value given for an option     *)
(* counts, before the environment's, before the default; the task is the     *)
(* last --task, or, when that is missing or empty, all free words; the usage *)
(* is printed only when these give no task, and the agent runs only with it. *)
LineMeansWhatItSays ==
  LET Preceded(S, T) == \E i \in S : \A j \in T : i < j
      help == Places({"--help"})
      accepted == phase \in {"main", "agent", "tools", "usage", "answered", "failed"}
      task == LastValue("--task", "")
      meant == IF task # "" THEN <<task>> ELSE FreeWords
  IN /\ phase = "rejected" => EnvironmentIsWrong \/ Preceded(Errors, help)
     /\ phase = "help" => ~EnvironmentIsWrong /\ Preceded(help, Errors)
     /\ accepted =>
          /\ ~EnvironmentIsWrong /\ help = {} /\ Errors = {}
          /\ options.model =
               LastValue("--model", IF env.model = "" THEN Defaults.model ELSE env.model)
          /\ LET steps == LastValue("--max-steps", env.max_steps)
             IN options.max_steps =
                  IF steps = "" THEN Defaults.max_steps ELSE ParsePositiveSize(steps)
     /\ phase = "tools" => Places({"--list-tools"}) # {}
     /\ phase = "usage" => IsEmpty(meant) /\ Places({"--list-tools"}) = {}
     /\ phase \in {"agent", "answered"} =>
          options.task = meant /\ ~IsEmpty(meant) /\ Places({"--list-tools"}) = {}

(* "--max-steps must be a positive integer" (main.cpp:134): an agent that    *)
(* runs was given none that is not.                                          *)
MaxStepsArePositive ==
  phase = "agent" =>
    \A i \in Places({"--max-steps"}) : Number[args[i + 1]] > 0

=============================================================================
