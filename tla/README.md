# A verification model of the OOP agent

TLA+ modules, TLC configurations and TLAPS proofs about the C++ agent in this
repository: an LLM-driven Observe-Think-Act loop with its tools and HTTP
clients, a two-worker coordinator, a benchmark harness and a SQLite memory. Paths below are relative
to the repository (`src/agent/...` is the implementation, `tests/`,
`benchmark/` and `README.md` its surroundings).

Contents: [inventory](#inventory) - [modules](#the-modules) - [runs](#the-runs)
- [fairness](#fairness) - [proofs](#what-is-proved) - [disagreements
found](#disagreements-between-text-and-code) - [not modelled](#what-is-not-modelled)
- [plan](#plan)

## Inventory

The parts of the system, the state each keeps, its operations, and what makes
it correct.

| Part | State | Operations | Correct when |
|---|---|---|---|
| `MessageQueue<T>` (`agent/message_queue.h`) | `messages_`, `closed_`, a mutex, a condition variable | `push`, `waitPop`, `close` (`isClosed`, `size` only read) | FIFO and complete delivery; `nullopt` is final; no wake-up lost; `close` releases everyone |
| `MultiAgentCoordinator` (`agent/multi_agent_coordinator.cpp`) | two mailboxes and a `MultiAgentResult` on the stack of `run`, two threads | `run`, `runWorker`, `closeMailboxes`, `failedRun`, `success` | `run` ends; a result is exchanged completely or the reason is reported; no thread outlives `run` |
| `LoopDetector` (`agent/loop_detector.cpp`) | `history_`, a bounded window of signatures | constructor checks, `observe`, `reset` | the window gives the verdict that the whole sequence of calls deserves |
| `AgentLoop` (`agent/agent_loop.cpp`) | configuration, step hook, loop detector; per run: conversation, totals, last error | `run` (think, parse, detect, act, notify, observe), `setStepHook`, `setMaxSteps` | no critical loop is executed; hook and conversation see each step once; totals do not overflow; `run` ends |
| `HarnessRunner`, `BatchResult` (`harness/harness_runner.cpp`) | evaluators by type; per task: environment ready, trajectory; per batch: results, passed count | `runTask`, `runBatch`, `saveBatchResult`, `registerEvaluator` | one result per task; passed means evaluated and recorded; hook never dangles; workspaces do not leak into each other |
| Environments (`harness/environment.h`, `sandbox_environment.cpp`) | files of the workspace | `setup`, `cleanup` | stale artifacts gone before a task, a sandbox empty after it |
| `Trajectory`, `TrajectoryRecorder` | steps and metadata; one file per task id | `addStep`, `finish`, `save` | a failure that `save` can see is reported |
| SQLite memory (`tools/sqlite_memory_store.cpp`) | tables `memories`, `memory_embeddings` in a shared file | `save`, `saveWithEmbedding`, `search`, `searchSimilar` | atomic, durable, ids exact, ranking before truncation |
| Memory tools (`tools/memory_tool.cpp`) | configuration | `memory_save`, `memory_search` with their fallbacks | what was saved is found; failures are reported as such |
| `ToolRegistry` (`tools/tool_registry.cpp`) | factories with cached descriptions, allow and deny lists | `registerFactory`, `unregisterTool`, `create`, `execute`, `allowOnly`, `deny`, `clearPolicy` | policy and offered tools agree with what `execute` does |
| Ollama chat and embedding clients, web search (`client/`, `tools/searxng_transport.cpp`) | a static per transport (libcurl initialised); per call a handle and a header list | `chat`, `embed`, `performSearch` | handles freed once on every path; initialisation never overlaps itself; a success is a whole reply to this request |
| `SkillLoader` (`skills/skill_loader.cpp`) | `skills_` | `loadSkills`, `selectSkills` | a run uses current skills, all or none, each as its file was at one moment unless it is written over in place; whole words match; the best fitting reach the prompt |
| Evaluators (`harness/*evaluator.cpp`) | none | `evaluate` | the list of keywords the harness encodes is the list the evaluators read |
| File tools (`tools/file_tool.cpp`) | the file system; per call a stream with its buffer | `read_file`, `write_file` | a reported success is on the disk; appends do not overwrite each other; reads keep to the limit |
| exec (`tools/exec_tool.cpp`) | a shell, its commands, a pipe | `exec` | it returns once the commands are done, with all they wrote |
| GUI actions (`gui/action_executor.cpp`, `tools/gui_action_tool.cpp`) | the display | `move_mouse`, `click`, `type_text`, `key_press` | the report is true of what was done, and where on the screen |
| Calculator (`tools/calculator_tool.cpp`) | the parser's position | `calculator` | it accepts its grammar and gives its values |
| Command line (`main.cpp`) | `CliOptions` | environment, options, start of the parts | a line does what it says as a whole |
| `benchmark/run_eval.cpp` | none | options, wiring | - |
| list_directory, screenshot, text statistics, time, base64 | none | `execute`, `encode` | - |

How they interact. `main` and `run_eval` build everything once. `HarnessRunner`
lends one `AgentLoop` to task after task: it sets the step limit and a hook
that captures a trajectory on its own stack, calls `run`, clears the hook,
evaluates, saves and cleans up. `AgentLoop` calls the LLM client, the tool
registry, the skill loader and the hook synchronously; any of these may throw.
`MultiAgentCoordinator` runs two `AgentLoop`s in two threads that exchange
their results through two `MessageQueue`s. Memory tools of several agents or
processes share one SQLite file, each operation through a connection of its
own. Agents in two threads share what the process and the machine have one of:
libcurl's global state, the files of the workspace, the display.

What is hard, and drives the choice of what to model: the threads and condition
variables of the mailbox and the coordinator, including exceptions and a thread
that cannot be created; an object reused over runs and tasks (detector, hook,
step limit, workspace); exceptions that unwind through several owners; text
that JSON cannot encode, met late; transactions, failures and crashes between
statements of concurrent callers; C libraries whose every call may fail half
way through; text an LLM or a user wrote, read by hand-written scanners;
counters at the end of their range. The full
list is in `PROJECT.json`, under `hazards`, each at its line.

## The modules

| Module | Models | Built from |
|---|---|---|
| `MessageQueue` | the mailbox, as operators on variables: one critical section or one notification each | - |
| `MailboxThreads` | any producers, consumers and closers on one mailbox | extends `MessageQueue` |
| `ResultExchange` | abstract specification: what the coordinator promises, without threads or mailboxes | - |
| `MultiAgent` | coordinator and two workers, implementing `ResultExchange` | extends `MessageQueue`; instance of `ResultExchange` under a refinement mapping |
| `LoopDetector` | the window and its verdict, as operators | - |
| `LoopDetectorRuns` | one detector alone, compared with the whole sequence of calls | extends `LoopDetector` |
| `AgentLoop` | `AgentLoop::run` and its two setters, over several runs | extends `LoopDetector` |
| `HarnessRunner` | batch, task, environment, trajectory file, summary | - |
| `MemoryLog` | abstract specification: what the memory tools promise, without connections, transactions or tables | - |
| `MemoryStore` | memory tools and the SQLite store under concurrent callers, implementing `MemoryLog` | instance of `MemoryLog` under a refinement mapping |
| `SkillMatch` | how a keyword is found in a task, as operators on texts | - |
| `SkillMatchRuns` | every short task and keyword, compared with a definition by words | extends `SkillMatch` |
| `SkillLoader` | loading and selecting skills over several runs while files change | extends `SkillMatch` |
| `ReplyScanner` | `findJsonObject`: the scan of a reply for JSON objects, as operators | - |
| `ReplyScannerRuns` | every short reply of prose and objects | extends `ReplyScanner` |
| `ToolRegistry` | registrations, removals, policy, the tools offered and executed | - |
| `HttpCalls` | chat, embedding and search calls of concurrent agents over libcurl | - |
| `FileTools` | `read_file` and `write_file` of concurrent agents on one path | - |
| `GuiActions` | GUI actions of concurrent callers on one display | - |
| `ExecTool` | a shell, its commands, the pipe and the tool that reads it | - |
| `Calculator` | the recursive-descent parser, over exact rationals | - |
| `CalculatorRuns` | every short expression against the grammar | extends `Calculator` |
| `KeywordLists` | the encoding of a list of keywords and its two decoders, as operators on texts | - |
| `KeywordListsRuns` | every short list of keywords against every short answer | extends `KeywordLists` |
| `CommandLine` | environment, options and exit status of `main.cpp` | - |
| `MCAgentLoop` | `AgentLoop` and, one at a time, `LoopDetectorRuns`, `ToolRegistry`, `ExecTool` | extends `AgentLoop`, instances of the others |
| `MCSequential` | one at a time, `SkillLoader`, `SkillMatchRuns`, `CalculatorRuns`, `ReplyScannerRuns`, `KeywordListsRuns`, `CommandLine` | extends `SkillLoader`, instances of the others |
| `MCTools` | one at a time, `HttpCalls`, `FileTools`, `GuiActions` | extends `HttpCalls`, instances of the others |
| `MCMultiAgent`, `MCHarnessRunner`, `MCMemoryStore` | values of the constants for TLC | the module of that name |
| `MessageQueueProofs`, `MailboxThreadsProofs`, `MultiAgentProofs`, `HarnessRunnerProofs`, `MemoryStoreProofs` | theorems and proofs | the module of that name |
| `AgentLoopProofs` | theorems about the loop, its detector and the tool registry | extends `MCAgentLoop` |
| `SequentialProofs` | theorems about skills, keywords, replies, lists of keywords and the command line | extends `MCSequential` |
| `ToolsProofs` | theorems about HTTP calls, file tools and GUI actions | extends `MCTools` |

**Mailbox.** A thread inside `available_.wait` is a member of `asleep[q]` and
must be notified, or wake spuriously, to test the predicate again. `push()` and
`close()` unlock before they notify, so `Pushed`/`NotifyOne` and
`MarkClosed`/`NotifyAll` are separate steps with other threads between them.
`MailboxThreads` adds the history variables `accepted` and `taken`.

**Coordinator.** `main` is the program counter of `run`, `pc[w]` that of worker
`w`. `AgentLoop::run` is one step (the two loops are distinct objects, which
the constructor checks), returning any result or throwing. `Throw` is an
allocation failure outside the worker's inner `try`; `RecordFailure` includes
the case in which recording the failure fails too. `closeMailboxes` is four
steps. `phase` of the abstract `ResultExchange` is open until `run` returns or
throws; an outcome is published when the message is in the peer's inbox.

**Agent loop.** `phase` follows one iteration: `think` (LLM call, token
counting, conversation), `dispatch` (parsed reply; tool calls go through the
detector), `act`, `notify` (step hook) and `observe` (tool output back into the
conversation). A reply is what `run` distinguishes: nothing valid, a final
answer, or a tool call with a signature. Tools return success, failure or an
exception, and text that `dump()` can or cannot encode. Latency is accumulated
like tokens and is left out.

**Harness.** A file in the workspace is reduced to the task that wrote it last,
a trajectory file to its task, verdict and number of steps, and a text to
whether JSON can encode it. `Unwind` is the catch block of `runTask` followed
by that of `runBatch`. Both environments are initial states: a native
workspace, reset paths removed at setup and nothing removed afterwards, and a
sandbox removed before and after. `remove_all` may fail half way. `save` and
`saveBatchResult` ask `good()` before anything is flushed or closed
(`src/harness/trajectory_recorder.cpp:48`, `src/harness/harness_runner.cpp:218`),
so that a save which reports success leaves a file of the kind `"whole"` or
`"cut"` (`Accepted`): what the disk refuses in the stream's destructor goes
unnoticed. `PassedIsRecorded` says no more than the code can know, that a passed
task's file was opened, written and found good.

**Memory.** Each statement of `saveWithEmbedding` is a step; SQLite is trusted
to give the write lock to one connection, to show readers committed rows only
and to roll back what was not committed. Embeddings are a dimension and a
ranked similarity. `Crash` ends every connection at any moment. The abstract
`MemoryLog` has one log instead of two tables and calls instead of callers: an
entry's place is the memory's id, and a call is running, saved, failed or lost.

**Skills.** `Scan` lists the directory in one step. `readSkill` reads a file
through a stream's buffer, in several reads and without a lock
(`src/skills/skill_loader.cpp:173`), so that a file takes two steps here: `Open`
takes its first piece, `Read` the rest and parses the whole. Any other program
may at any moment `Replace` a file (create, remove, or rename another over it;
who has the old one open goes on reading that) or `Edit` it in place (who has it
open reads the rest of the new content). `torn` are the paths whose file was
written over while it was open: their skill may be made of pieces the file held
at two moments, and it is all that can be said of it. A file's content is
whether `readSkill` accepts it and the keywords in each of its two pieces, which
meet at the end of a line: a keyword line cut in the middle would be one more
content of the torn file. Instructions are left out. Characters are the few
that `normalizeForMatch` tells apart: a letter, the same letter with case and
accent, another letter, and two separators. `paths` is the set of files still to
be read, the least of them next (`NextPath`), since the code sorts them.
`Orders` are the orders `std::sort` may produce: two files (`a.md`, `a.MD`) may
carry one name.

**Reply scanner.** A text is a sequence of the characters the scanner tells
apart: braces, quotation mark, backslash and a letter that stands for all
others. `Found` follows `findJsonObject` from one opening brace to the next;
`ReplyScannerRuns` writes a reply of prose and objects and remembers the
objects. After an opening brace too many, a quotation mark in the prose turns
strings inside out, and an object with a closing brace in a string is then lost
(`src/agent/agent_loop.cpp:84`); its runs have at most one such brace and no
quotation mark of the prose after it.

**Tool registry.** `entries` maps names to a factory and the description cached
when it was registered; `log` records the calls, and `LatestCallsDecide`
compares what is offered and run with what the log means.

**HTTP calls.** `pc[w]` follows a worker from the checks of its request over
the function-local static that initialises libcurl once (`static`, `init`), the
curl handle (`setup`), the transfer (`perform`) and the classification of the
reply (`parse`). A chat must succeed before its agent calls a tool, so the
initialisation of the search transport never runs beside that of the Ollama
transport, although neither static knows of the other. `easy` and `headers`
count what is acquired and not freed. A reply is its status (200 stands for every 2xx), what is wrong with
its body, and an unsigned count of `Width` bits that the code reads as signed.

**File tools.** Each file-system call is a step: the test of the path, its
size, the parent directory, open (which truncates or not), the writes of the
stream's buffer, close. `Edit` is anybody else who changes, replaces or removes
the file. A byte is a record of the call that wrote it. Two facts the model
shows but no property states: a file that grows between the test of its size
and the read is read whole (`src/tools/file_tool.cpp:88`), and a read that fails
half way is reported as a success with part of the file (line 106).

**GUI actions.** An action is a plan of requests to the X server, each of which
may fail; `effects` are those that changed something, with the place of the
pointer (looking for the focused window changes nothing and is left out); the
press and the release of a click are two of them. Another caller or a person may
move the pointer in between. The code accepts every position that is not
negative (`src/gui/action_executor.cpp:33`): `Beyond` are those off the screen,
for which the X server puts the pointer somewhere on it (`Landings`) while the
code reports success. `ReportIsTrue` therefore speaks of the place of positions
on the screen only.

**exec.** Commands in the foreground and the background write to a pipe that
holds `Capacity` texts; end of file comes when nobody has it open. That the code
drops what follows a NUL within a line is left out.

**Calculator, keyword lists, command line.** Each function of the source is an
operator that takes the text and a position, and the `...Runs` module holds the
reference: the grammar in the comment of the parser, the list that was encoded,
the options read as a whole. Numbers of the calculator are fractions: rounding
and overflow are left out. A divisor is refused when it is nearer to zero than
`1/Reciprocal` (10^12 in `src/tools/calculator_tool.cpp:54`, 5 in the run, so
that short expressions have divisors on, above and below the limit); the
reference has the same limit in its meaning of a quotient. Keywords have the characters that some decoder treats
specially; control characters are left out (the scanner of `VLMEvaluator` reads
`\n` as the letter n). One option, `--task`, stands with `--model` and
`--max-steps` for the options with a value.

**The composite modules.** `MCAgentLoop`, `MCSequential` and `MCTools` run
components that share no variable. The variable `focus`, chosen at the start,
names the component that moves; the others stay in one state. Since nothing is
shared, every behaviour of a component occurs, and interleaving two of them
would add states but no case. `MCAgentLoop` follows the loop itself twice, over
all replies without tokens (`"loop"`) and over all token counts with one action
(`"tokens"`), because both at once are too many.

A module also holds, next to the definition each deviates from, small defective
versions of it (`PushedFront`, `StartSecondFailsNoJoin`, ...). They are not
part of any specification: each property of a passing run is known to reject
one of them, listed under `mutants` in `PROJECT.json`.

## The runs

| Run | Configuration | Shows |
|---|---|---|
| `mailbox_threads` | 2 producers of 2 messages, 2 consumers, 1 closer | FIFO, complete delivery, `nullopt` is final, no lost wake-up, release by `close`, every message taken |
| `multi_agent` | the two workers; an agent succeeds with either of two answers, fails or throws | complete exchanges, no stranded response, no thread left behind, termination, and that the threads implement `ResultExchange` |
| `agent_loop` | 2 signatures, step limits 1, 3 and 7, 2 runs, a 4-bit counter for `int64_t` with counts -1, 0, 3 and 7; detector: 3 signatures, 9 calls, window 6; registry: 2 names, 2 factories, 3 calls; exec: 2 commands, a pipe for 1 text | loop refusal, the hook's and the conversation's view, reports, exact totals, the adequacy of the window, what the registry offers and runs, that `run` and `exec` return |
| `harness` | 4 tasks (invalid, keyword, functional, unknown evaluator) over 2 ids, 2 files of which 1 is reset, both environments | results, records, hook, leaks, stale artifacts |
| `memory_store` | 2 callers, 2 saves, 2 dimensions, 3 configurations | atomic saves, failed saves without trace, completeness of searches, and that the callers together implement `MemoryLog`: nothing reported is lost or changed |
| `sequential` | skills: 2 files, 3 contents or none, 2 new contents during a run, any number between runs, 1 skill selected; tasks of up to 5 and keywords of up to 3 of 5 characters; expressions of up to 5 of 10 characters; replies of up to 4 pieces; 2 keywords and an answer of up to 2 characters each; command lines of up to 4 words | a run uses what the files held during it or fails, the best skills are chosen; whole-word search; the calculator's grammar; objects found in replies; lists read back as written; lines mean what they say |
| `tools` | 2 agents of 2 calls each; search results up to 1 and one more; counts of 2 bits; a file read up to 2 bytes and written by 2, 1 edit by others; 2 points and 1 position beyond the screen, 1 move of the mouse by a person | handles, exclusive initialisation, classification of replies, durable writes, appends, true GUI reports |
| `agent_binary_output` | violation | see below |
| `harness_trajectories` | violation | see below |
| `memory_keyword_only` | violation | see below |
| `exec_errors` | violation | see below |
| `command_line_steps` | violation | see below |

Why the bounds are enough to be interesting. Two consumers and two producers
are the least with which a notification can wake the wrong one of two waiters
or be missed between unlock and notify. The detector's thresholds are the
smallest its constructor accepts and give the smallest window (6); nine calls
evict three entries, so loops older than the window, cut by it and longer than
it all occur. Seven steps suffice for a critical repetition (3) and a critical
ping-pong (6 entries) with an invalid reply between, a limit of 1 ends runs at
the boundary, and the second run starts with the window the first left. In the
harness a task that leaves files precedes a functional one with the same
artifact, and ids repeat, so that trajectories are overwritten. Two memory
callers are the least that contend for the write lock; one of them may save
while the other searches or has an open transaction. Five characters hold three
words and three hold two, so that a keyword may match at either end, in the
middle, or only across words; with one skill selected out of two the ranking
decides who is dropped. Two new contents while a run goes on change both files
or one of them twice, each before, between or after its two reads. Five
characters are also an expression of three numbers
and two operators of one rank, or of two, or a difference in parentheses. Four
pieces are two objects with prose before and between. Two characters hold an
escaped pair, two keywords a separator. Four words hold an option, its value
and an option or free word on either side. With two calls each, an agent finds
what its earlier call left, and the other's call may come before, inside or
after it. `multi_agent` has no
bound: its state space is finite.

Deadlock is checked in every run. Specifications with an end stutter explicitly
in `Terminated`, and `MCSequential` lets the texts that have reached their
bounds stutter in `Finished`. `AgentLoop` and `MemoryStore` are idle in their
last states, where setters or searches remain enabled.

## Fairness

- `MailboxThreads`: weak fairness of each thread's steps, except the call of
  `close()` itself, which nobody is obliged to make. Spurious wake-ups are never
  assumed.
- `MultiAgent`: weak fairness of the coordinator's thread and of each worker:
  the operating system runs threads. That `AgentLoop::run` returns is an
  assumption: its steps are bounded and the HTTP clients have timeouts, but a
  command started by `exec` has none, and one that never ends keeps its worker.
- `AgentLoop`: weak fairness of `RunStep`: inside `run` the code is sequential.
- `ExecTool`: weak fairness of the tool, of the shell and of each command:
  commands write a finite text and end unless the pipe holds them up. A command
  that never ends makes `exec` wait forever; the code has no timeout.
- `ResultExchange`: weak fairness of `End`, which `MultiAgent` is shown to meet.

The other specifications state safety only and assume no fairness.

## What is proved

All theorems hold for every value of the constants under the named assumptions
of the modules, which TLC evaluates in the runs:

| Assumption | Says |
|---|---|
| `ThreadsAssumption` | finitely many producers and consumers; no thread has two of the three parts |
| `WorkersAssumption`, `ResultsAssumption`, `NoMessageAssumption` | two different ids; a result not yet assigned, and one made from an exception, are no successes; `nullopt` is no message |
| `DetectorAssumption`, `LoopAssumption` | the checks of the detector's and the loop's constructors; the width of a counter |
| `RegistryAssumption` | `None` is no factory |
| `BatchAssumption` | a task has an id, a step limit and a kind of evaluation, and reset paths are paths of the workspace |
| `MemoryAssumption` | limits and dimensions are positive, every query has a similarity to every text, switches are Booleans, no caller is the mark for none |
| `HttpAssumption`, `ToolsAssumption` | a search shows at least one result, a count has at least one bit; there is a file, and none is the mark for none or for a directory; the pointer starts at a point of the display, and no position beyond the display is on it |
| `LineAssumption` | the bound on the length of a command line is a number |
| `SkillAssumption` | each path has a name, and a content is readable or not and has keywords in its two pieces |

Constants that are bounds in a run (`MaxPushes`, `MaxRuns`, `MaxSaves`,
`MaxObserved`, `MaxRegistryCalls`, `MaxToolCalls`, `MaxEdits`, `MaxNudges`,
`MaxArgs`, ...) are parameters of the theorems, so that what is proved holds
however often an operation is called, and for a line of any length. So are the
lengths of texts: `MaxTask` and `MaxKeyword` of a task and a keyword, `MaxPieces`
of a reply, `MaxListed`, `MaxLetters` and `MaxOutput` of a list of keywords, of
each of them and of an answer.

**Mailbox** (`MailboxThreadsProofs`, lemmas on single operations in
`MessageQueueProofs`), for any number of producers, consumers, closers and
pushes: type correctness; `Conservation` - what `push` accepted is what
consumers took followed by what is queued; and `NulloptIsFinal`. Conservation
is inductive with the types: an accepted message is appended to both sides, a
taken one moves from the head of the queue to the end of `taken`.
`NulloptIsFinal` needs it: a consumer leaves when the mailbox is closed and
empty, when conservation makes `accepted = taken`, and no push or pop can change
either afterwards. `NoLostWakeup` counts: messages may not outnumber the
notifications on their way and the consumers about to look. A sleeper must
moreover be a consumer inside `waitPop`, which the invariant adds, so that
`notify_one` turns one sleeper into one that looks.

**Coordinator** (`MultiAgentProofs`), for any results an agent may return. None
of the safety properties is inductive alone. `IInv` adds to the types
- `MailboxInv`: a worker that has not sent is not heard of; one that has sent
  keeps its result; at most its one message is under way;
- `LeavingInv`: a worker leaves with a message, with a report of a closed
  mailbox, or through a catch block - never two of them;
- `StartInv`: where the workers are for each position of the coordinator;
- `ClosedInv`: a closed mailbox has a cause (a worker that threw, or no second
  thread), and a worker that found one closed is not itself the cause;
- `ReceivedIsPeersResult`.

`IInv` is proved preserved by each action, one lemma per conjunct. From it follow `SuccessIsCompleteExchange`,
`ReceivedIsPeersResult`, `NoResponseStranded`, `ClosedMailboxHasCause` and
`NoThreadOutlivesRun`.

`ExchangeSimulated` is the safety part of the refinement `ExchangeSpec`: initial
states map to `ResultExchange`'s, and under the mapping `RunAgent` is `Decide`,
`Send` is `Publish`, `Receive` is `Obtain`, the end of `run` is `End`, and every
other step is a stutter. It needs `SentInv` beside `IInv`: a worker has no result
before `agent.run` returns, and what it has sent is in the peer's mailbox or
with the peer, so that closing mailboxes and leaving early neither publish nor
withdraw anything.

**Agent loop** (`AgentLoopProofs`). Token totals: `saturatingAdd` stays within
the width, and so does every difference it forms on the way; and `TokensExact` -
the total is the exact sum of all non-negative counts, capped - for every width,
any counts and any number of steps. The arithmetic core is that capping each
partial sum is as good as capping the whole (`CappedSum`). `LoopInv` adds to
`TokensInv` and the types
- `ControlInv`: inside a run the step id is below the limit in force;
- `StepInv`: what is known of the step under construction at each stage, and that
  from `notifyStep` on `last_error` is set exactly when the step failed;
- `ConversationInv`: two messages, then two more per step, by role;
- `DeliveredInv`: the hook, if set, has had one step per iteration.

From it follow `TypeOK`, `ConversationAlternates` and `ReportMatchesRun`, the
last as a property of the step that ends a run: only the iteration that reaches
the limit reports "max steps", so the id it ends with and the limit agree.

`HookSeesRun` is a property of the steps that ask the LLM again or return: by then
the hook has been given every step, the last included. It adds `HookInv`: the
calls among the steps given to the hook, counted with cardinalities of index
sets, are those of the run in order.
`OwnLoopsAreRefused` and, for the detector alone, `VerdictFitsCalls` rest on the
window being adequate. `IsWindow` says that the window is a suffix of the calls,
all of them or `max_history` of them; lemmas carry a repetition and a ping-pong
from the calls to that suffix and back, for the lengths that the constructor
admits: `max_history` is at least the critical number of repetitions and twice
that of ping-pongs, so the verdicts agree. How many entries at the end repeat is
counted from the last place where two differ, and that such a last place exists
(`LastOfFacts`) replaces an induction over the window.
`RefusalInv` keeps the window of a run in step with its own calls: the detector
is reset at the start of `run`, so that an earlier run counts for nothing.

**Tool registry** (`AgentLoopProofs`), for any names, factories and calls.
`RegistryInv` reads the two lists and the entries off the log: the latest call of a
kind is the one appended last, and the registration in force is a single one, the
first since the name was free or the latest that asked to replace. One lemma for
each kind of call says what it does to that reading, and that it leaves other
names alone. `LatestCallsDecide` compares the step of `execute` and of
`availableTools` with it.

**Harness** (`HarnessRunnerProofs`), for every batch, workspace and set of reset
paths. `HarnessInv` adds to the types `PhaseInv` (which phases belong to a task,
and that its environment is ready), `HookInv`, `ResultsInv` (the results are
those of the tasks that are over, this one's not yet among them), `CountInv`,
`FileInv` (what was evaluated and what was saved agree), `CleanInv` and
`ResetInv` (a sandbox outside a task, the paths to be removed inside one), and
`PassedIsRecorded`, which needs `ResultsInv` and `FileInv`. The proof of a
result is about any step that reports one (`StepReports`), whichever of the
three places it comes from. From the invariant follow `HookNeverDangles`,
`ResultsAccount`, `PassedIsRecorded`, `NoArtifactLeaks` and
`NoPassOnStaleArtifact`.

**Memory** (`MemoryStoreProofs`), for any number of callers, saves and
configurations. `StoreInv` adds to the types what a caller holds at each of its
steps: `CallInv` (its save is recorded and running), `OwnCall` (no two callers
have one save), `LockInv` (an open transaction has the lock, and its tables are
the committed ones plus its own row) and `RowInv` (a row committed has the id
that is reported). An action of one caller leaves the others' conjuncts alone
once it meets the conditions named in `Frame`: it changes no record but its own,
removes no row, and takes the lock only when it is free; the proof of each action
is then about its own caller. A crash turns every running save into a lost one
and keeps the tables. `SavedIsDurable` and `SavesAreAtomic` are conjuncts of the
invariant; the run checks the first as part of `LogSpec`, which implies it. `SearchFindsSaved` is about one answer: the entries are those with
fewer than `limit` others ahead of them in a strict total order, and a strict
total order on a finite set ranks its elements from 0 on without a gap
(`AheadIsRank`), so that an answer which leaves one out is full, of better ones.

`LogImplemented` is the refinement `LogSpec`, whole, as `MemoryLog` states
safety only: the rows of both tables make one log entry per memory, the
history makes the calls. Under this mapping `StartSave` is `Call`, `Save` and
`Commit` are `Enter`, `ReportSaved` is `Report`, `SaveFails` is `Fail`, `Crash`
is `Stop`, a search that answers is `Search`, and every other step forgets the
last reply. `RowInv` gives that a call enters at most once and fails only with
nothing entered, `LockInv` that what `Commit` publishes is the log with one
entry more, and `SavesAreAtomic` that no embedding belongs to a row to come.

**HTTP calls** (`ToolsProofs`), for any number of agents and calls.
`HandlesInv` says when a call holds a handle and a header list, `SiteInv` that
each guarded initialisation has one caller, and `OrderInv` that an agent which
searches has chatted before, so that the chat transport's initialisation is
over when the search transport's begins. `HandlesReleased` and `InitIsExclusive`
follow: the two guards do not know of each other, and it is the order of an
agent's calls that keeps them apart. `SuccessIsWholeReply` is proved with
`ReplyInv`, about the reply a call has received so far.

**File tools** (`ToolsProofs`), for any files, limits, calls and edits. `FileInv`
adds to the types where a call is (`PlaceOf`), what a call that was left alone
has read or written so far (`AloneOf`) and where the content of an append is
(`KeptOf`). A step of another caller respects a call if it leaves the file as it
is, or ends the call's being alone, and if a file that an append went to only
grows at its end, or is truncated and the append counts as overwritten; each
action is shown to respect all other calls. That the two bytes of an append stay
together is a lemma on sequences: bytes added at the end move nothing.

**GUI actions** (`ToolsProofs`), for any screen and any positions beyond it:
`GuiInv` says of each call which effects it has had so far, and, of one that was
told a place on the screen and whose pointer nobody moved, that they were there
and the pointer still is.

**Skills** (`SequentialProofs`), for any files and contents. `Current` states
`SkillsAreCurrent` of the skills read so far, apart from the paths that are still
to be read or open (`Rest`); changes extend `seen`, and a read moves a path from
one side to the other. `OpenInv` says of the open file that its first piece and
the rest come from contents seen in this run, from one unless its path is torn,
and that a file which was replaced or torn is not one that was left alone.
For `BestAreSelected` an order of the candidates is an injection of `1..n` into a
set of `n` elements and therefore reaches all of them, so that whoever is left
out stands behind everyone chosen. What a keyword scores does not matter to this
proof.

**Command line** (`SequentialProofs`), for lines of any length.
`LineMeansWhatItSays` reads a line as a whole, the code word by word, so
`LineInv` says what the words before `index` come to: `options` holds, for each
option, the value of the last place read, `positional` the free words read, in
order, and while the line is being read, no error and no `--help` stands among
these words. Each action moves `index` past an option with its value or past one
other word, and a lemma says what that adds to the places read. Three facts
about the reading as a whole carry this: a word is a value exactly when the word
before it takes one and is no value itself (`NextIsValue`); a place beyond all
others is the last one (`MaxIsNew`); and the elements of a set in order become,
with a new greatest place, the old ones followed by one more
(`InOrderAppended`). A line is accepted only when all of it has been read.

**Texts** (`SequentialProofs`). Three properties compare what a function makes of a
whole text, character by character, with a definition that does not read it in
order. Induction over the text is replaced by two facts. `UpTo`: a set of numbers
that holds `m`, and each number up to `n` whose predecessor it holds, holds all of
`m..n`, or its complement would have a least element. And a function defined by
recursion over places or sets of places exists and is unique, because the
functions that agree with the definition up to a place are extended by one place.
A function is then known as soon as its values have been given explicitly.

*Replies*, of any number of pieces. A text is neutral to the scan of an object
(`Inside`) if the scan passes over it and ends at the depth and in the quotation
state in which it began; what is written between the braces of an object is.
`ReplyInv` of the scanner says that the text is the pieces written, in order, with
at most one opening brace too many, and where in it each object stands; it then
follows that `findJsonObject`, called again after each object, goes from one of
these places to the next and passes over the prose between them (`Search`).

*Keywords of a skill*, for any task and keyword. `WordsStand` gives the words of a
text as the places where they begin and end, `LaidOut` and `Spells` where they come
in the normalized text; a character that is typed extends the last word, begins
one, or ends one, and the function that normalizes keeps up with it (`TypingInv`).
The padded text is therefore a line of words, each between two spaces (`Lined`).
A line occurs in another exactly where its words do (`SameWord`, `WordsFollow`,
`LinesOccur`): a space of the one can only meet a space of the other, so that words
meet whole words. `SpacesCount` gives the number of words, and with it the score.

*Lists of keywords*, for any number of keywords of any length. A loop over a text
goes from one state to another (`Goes`), over two texts one after the other when it
goes over each (`GoesConcat`), over a text made of parts when it goes over each part
(`FlattenedGoes`), and what the fold of the code returns is where it ends
(`FoldGoes`). VLMEvaluator's scan goes over a keyword written with its backslashes
and has read the keyword as it was (`EscapedRead`), and so over a JSON list
(`DumpedRead`). The split at commas goes over a list joined by commas to its parts,
each with a blank before it but for the first, and trimming takes the blank away
again, but none of a keyword's own (`CommasRead`). Both evaluators therefore have
the list that was written, and occurrence in lower case is being mentioned
(`MentionedIs`).

Only model-checked are

- liveness (`CloseReleasesConsumers`, `EveryMessageTaken`, `RunTerminates`,
  `RunEnds`, and the progress of `exec`) and the fairness part of
  `ExchangeSpec`, since ENABLED is beyond the proof system;
- the calculator (`MatchesGrammar`): its parser and its grammar are mutually
  recursive, and that they agree is an induction over both at once, with the value
  an expression has so far as what the parser carries. The library's induction
  rules take an operator that no installed prover can instantiate, and the least
  counterexample that replaces them above needs the values of the function
  explicitly. The functions of the parser and of the grammar are written as one
  recursive function each, indexed by the name of the function, because modules
  with proofs can reach no RECURSIVE operator.

## Disagreements between text and code

1. `agent_binary_output`: `read_file` offers itself for "a UTF-8/text or binary
   file" (`src/tools/file_tool.cpp:68`), but output that is not valid UTF-8
   makes `observe()`'s `dump()` throw out of `AgentLoop::run`
   (`src/agent/agent_loop.cpp:354`, called outside any `try`), so the run is
   lost after the tool succeeded.
2. `harness_trajectories`: "detailed per-task trajectories" are promised
   (`README.md:225`); a task whose agent throws leaves none, because the catch
   block of `runTask` (`src/harness/harness_runner.cpp:175`) never saves. An
   older file of the same task stays in place.
3. `memory_keyword_only`: "saved for keyword search only"
   (`src/tools/memory_tool.cpp:196`), but `memory_search` uses keywords only
   when the semantic search is empty or fails (line 263), so such a memory is
   hidden by any memory that has an embedding of the query's dimension.
4. `exec_errors`: "Returns combined stdout/stderr and exit code."
   (`src/tools/exec_tool.cpp:44`), but line 56 appends ` 2>&1` to the command
   text, which redirects the last command of a list only. The run shows a list
   of two commands, run one after the other, whose first writes to stderr: the
   call succeeds without that text.
5. `command_line_steps`: `--max-steps` "must be a positive integer"
   (`src/main.cpp:134`), but `std::stoull` takes a minus sign and wraps (line
   132), so `-1` becomes the largest limit there is.

## What is not modelled

`PROJECT.json` lists every component with its status. Not modelled are

- `list_directory`, which reads and formats; the screenshot tool, which runs a
  command and encodes a file; text statistics and time; base64: none keeps state
  or has an order of steps that matters;
- the options of `benchmark/run_eval.cpp` and the validation of its tasks; the
  evaluation scripts of `harness/`, which are processes of their own; the
  screenshot that `VLMEvaluator` sends;
- the resolution of paths against the workspace root (a choice between inside
  and outside), URLs and their escaping, the JSON layout of requests and files;
- prompts, logging and wording throughout; rounding of floating-point numbers.

`AgentLoop` takes the clients, tools and skills as choices among their outcomes,
`HarnessRunner` the evaluators. Allocation failures are modelled where the code
has to survive them (worker threads) and left out elsewhere.

## Plan

Done, in this order: mailbox; coordinator with its abstract specification;
detector; agent loop; harness; memory; skills; registry, HTTP calls, file tools,
GUI actions, exec; reply scanner, calculator, keyword lists, command line; the
memory store's abstract log; the proofs above.

Next module: the database shared by the tasks of a batch
(`benchmark/run_eval.cpp:359`), as `HarnessRunner` composed with `MemoryLog`.

Next proofs: a bound on the output of `exec`.
