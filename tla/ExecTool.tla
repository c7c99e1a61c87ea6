------------------------------- MODULE ExecTool -------------------------------
(***************************************************************************)
(* exec (tools/exec_tool.cpp): a command line runs in a shell of its own     *)
(* while the tool reads what comes through a pipe of limited size, then the  *)
(* tool collects the shell's exit code.                                      *)
(***************************************************************************)
EXTENDS Naturals, Sequences

CONSTANTS
  MaxCommands,      \* bound on the commands of a command line
  Capacity          \* texts that fit in the pipe

(* A command of the line "c1; c2 & ..." writes some texts to its standard    *)
(* output or its standard error and ends with an exit code.                  *)
Commands ==
  [writes : {<<>>, <<"out">>, <<"err">>, <<"out", "out">>, <<"err", "out">>},
   background : BOOLEAN, code : {0, 1}]
Lines == UNION {[1..n -> Commands] : n \in 1..MaxCommands}

VARIABLES
  pc,          \* of execute(): "start", "reading", "closing" or "done"
  line,        \* the command line
  started,     \* how many of its commands the shell has started
  todo,        \* todo[i]: what command i has still to write
  running,     \* the started commands that have not ended
  shell,       \* the shell runs
  pipe,        \* written and not yet read
  output,      \* what the tool has read
  result,      \* "none", "ok" or "failed"
  piped        \* history: everything written to the pipe

vars == <<pc, line, started, todo, running, shell, pipe, output, result, piped>>

Init ==
  /\ pc = "start" /\ line \in Lines
  /\ started = 0 /\ todo = [i \in DOMAIN line |-> line[i].writes] /\ running = {}
  /\ shell = FALSE /\ pipe = <<>> /\ output = <<>> /\ result = "none" /\ piped = <<>>

(* The tool appends 2>&1 to the line, so the last command writes its errors  *)
(* to the pipe; after an & the 2>&1 stands alone and redirects nothing.      *)
ToPipe(i, text) == text = "out" \/ (i = Len(line) /\ ~line[i].background)

ExitCode == IF line[Len(line)].background THEN 0 ELSE line[Len(line)].code

-----------------------------------------------------------------------------
(* The command is there and not empty, and popen starts the shell.           *)
Start ==
  /\ pc = "start"
  /\ pc' = "reading" /\ shell' = TRUE
  /\ UNCHANGED <<line, started, todo, running, pipe, output, result, piped>>

Refuse ==
  /\ pc = "start"
  /\ pc' = "done" /\ result' = "failed"
  /\ UNCHANGED <<line, started, todo, running, shell, pipe, output, piped>>

(* fgets                                                                     *)
Read ==
  /\ pc = "reading" /\ pipe # <<>>
  /\ output' = Append(output, Head(pipe)) /\ pipe' = Tail(pipe)
  /\ UNCHANGED <<pc, line, started, todo, running, shell, result, piped>>

ReadEndAtExit ==                 \* the end of the shell is the end of the output
  /\ pc = "reading" /\ pipe = <<>> /\ ~shell
  /\ pc' = "closing"
  /\ UNCHANGED <<line, started, todo, running, shell, pipe, output, result, piped>>

(* fgets finds the end: nobody has the pipe open for writing any more, the   *)
(* shell and the commands in the background included.                        *)
ReadEnd ==
  /\ pc = "reading" /\ pipe = <<>> /\ ~shell /\ running = {}
  /\ pc' = "closing"
  /\ UNCHANGED <<line, started, todo, running, shell, pipe, output, result, piped>>

(* pclose gives the exit code, or cannot.                                    *)
ClosePipe ==
  /\ pc = "closing"
  /\ result' \in {IF ExitCode = 0 THEN "ok" ELSE "failed", "failed"}
  /\ pc' = "done"
  /\ UNCHANGED <<line, started, todo, running, shell, pipe, output, piped>>

-----------------------------------------------------------------------------
(* The shell starts the next command when the one before is in the           *)
(* background or has ended, and exits after the last.                        *)
Waiting == started > 0 /\ ~line[started].background /\ started \in running

ShellStarts ==
  /\ shell /\ ~Waiting /\ started < Len(line)
  /\ started' = started + 1 /\ running' = running \cup {started + 1}
  /\ UNCHANGED <<pc, line, todo, shell, pipe, output, result, piped>>

ShellExits ==
  /\ shell /\ ~Waiting /\ started = Len(line)
  /\ shell' = FALSE
  /\ UNCHANGED <<pc, line, started, todo, running, pipe, output, result, piped>>

(* A command that writes to a full pipe waits.                               *)
Write(i) ==
  /\ i \in running /\ todo[i] # <<>>
  /\ todo' = [todo EXCEPT ![i] = Tail(@)]
  /\ IF ToPipe(i, Head(todo[i]))
       THEN /\ Len(pipe) < Capacity
            /\ pipe' = Append(pipe, <<i, Head(todo[i])>>)
            /\ piped' = Append(piped, <<i, Head(todo[i])>>)
       ELSE UNCHANGED <<pipe, piped>>
  /\ UNCHANGED <<pc, line, started, running, shell, output, result>>

End(i) ==
  /\ i \in running /\ todo[i] = <<>>
  /\ running' = running \ {i}
  /\ UNCHANGED <<pc, line, started, todo, shell, pipe, output, result, piped>>

Tool == Start \/ Refuse \/ Read \/ ReadEnd \/ ClosePipe
CommandStep == \E i \in 1..MaxCommands : Write(i) \/ End(i)
Terminated == pc = "done" /\ UNCHANGED vars

Next == Tool \/ ShellStarts \/ ShellExits \/ CommandStep \/ Terminated

(* The tool's thread goes on, and so do the shell and each command, which    *)
(* write a finite text and end when they are not held up by the pipe.        *)
Fairness ==
  /\ WF_vars(Tool) /\ WF_vars(ShellStarts \/ ShellExits)
  /\ \A i \in 1..MaxCommands : WF_vars(Write(i) \/ End(i))

Spec == Init /\ [][Next]_vars /\ Fairness

-----------------------------------------------------------------------------
Written(i, text) == Len(SelectSeq(line[i].writes, LAMBDA t : t = text))
Received(i, text) == Len(SelectSeq(output, LAMBDA o : o = <<i, text>>))

(* A command line whose commands end makes execute() return, however much    *)
(* they write and whichever of them run on in the background; it then has    *)
(* all that went through the pipe, in its order and nothing twice, and       *)
(* reports success only for the exit code 0.                                 *)
ReturnsWithOutput ==
  (pc = "reading") ~> (/\ pc = "done" /\ output = piped
                       /\ \A i \in DOMAIN line : Received(i, "out") = Written(i, "out")
                       /\ result = "ok" => ExitCode = 0)

(* "Returns combined stdout/stderr and exit code." (exec_tool.cpp:44), of    *)
(* commands that the shell runs one after the other, none in the background: *)
(* what each has written is in the output.                                   *)
CombinedOutput ==
  result = "ok" /\ (\A i \in DOMAIN line : ~line[i].background) =>
    \A i \in DOMAIN line, text \in {"out", "err"} : Received(i, text) = Written(i, text)

=============================================================================
