---------------------------- MODULE SkillLoader -----------------------------
(***************************************************************************)
(* skills/skill_loader.cpp as AgentLoop::run uses it: loadSkills() reads the *)
(* Markdown files of a directory one after the other, and selectSkills()    *)
(* picks those that fit the task.  The files are edited by other programs,  *)
(* and by the agent's own tools, between runs and, by others, during them:  *)
(* also while one is open, for a file is read in several pieces and nothing *)
(* locks it.                                                                *)
(***************************************************************************)
EXTENDS SkillMatch

CONSTANTS
  Files,         \* the paths, sorted: a sequence of [name, fallback] records
  Contents,      \* what a file can hold: [readable, first, rest]
  Absent,        \* no regular file of that name
  Tasks,
  MaxSkills      \* AgentLoopConfig::max_skills

Paths == DOMAIN Files

(* Names are numbered in alphabetical order; two paths may share one ("a.md"*)
(* and "a.MD"), for it is the stem.  fallback is the name with its "_" and  *)
(* "-" replaced, the keyword of a file that gives none.  readable is FALSE  *)
(* for a file that cannot be opened or read, or is blank.  A file is read   *)
(* in two pieces here, which meet at the end of a line: first and rest are  *)
(* the keywords in each.                                                    *)
ASSUME SkillAssumption ==
  /\ Files \in Seq([name : Nat, fallback : Seq(Characters)])
  /\ \A c \in Contents : c \in [readable : BOOLEAN, first : Seq(Seq(Characters)),
                               rest : Seq(Seq(Characters))]
  /\ Absent \notin Contents
  /\ Tasks \subseteq Seq(Characters)
  /\ MaxSkills \in Nat

VARIABLES
  disk,        \* disk[p]: the file at path p
  skills,      \* skills_: records of the path a skill came from and its content
  phase,       \* where run() is: "idle", "scan", "read" or "select"
  paths,       \* the set of paths still to be opened
  open,        \* the file that is being read, if any: a set of at most one
  torn,        \* paths whose file this run had open when it was written over
  loaded,      \* the skills read so far
  task,
  outcome,     \* of the latest run(): "none", "failed" or "selected"
  selected,    \* what selectSkills() returned
  seen         \* history: seen[p], what p held at any time of this run()

reading == <<open, torn>>
vars == <<disk, skills, phase, paths, reading, loaded, task, outcome, selected, seen>>

Init ==
  /\ disk \in [Paths -> Contents \cup {Absent}]
  /\ skills = <<>> /\ loaded = <<>> /\ selected = <<>>
  /\ phase = "idle" /\ paths = {} /\ task = <<>> /\ outcome = "none"
  /\ seen = [p \in Paths |-> {}]
  /\ open = {} /\ torn = {}

(* What other programs do to the file at p.                                 *)
Put(p, c) ==
  /\ disk' = [disk EXCEPT ![p] = c]
  /\ seen' = IF phase = "idle" THEN seen ELSE [seen EXCEPT ![p] = @ \cup {c}]
  /\ UNCHANGED <<skills, phase, paths, loaded, task, outcome, selected>>

(* It is created, removed, or replaced by another: who has the old one open *)
(* goes on reading that.                                                    *)
Replace(p) ==
  /\ \E c \in (Contents \cup {Absent}) \ {disk[p]} : Put(p, c)
  /\ open' = {IF f.path = p THEN [f EXCEPT !.linked = FALSE] ELSE f : f \in open}
  /\ torn' = torn

(* It is written over: who has it open reads the rest of what it holds now. *)
Edit(p) ==
  /\ disk[p] # Absent
  /\ \E c \in Contents \ {disk[p]} :
       /\ Put(p, c)
       /\ open' = {IF f.path = p /\ f.linked THEN [f EXCEPT !.now = c] ELSE f : f \in open}
  /\ torn' = IF \E f \in open : f.path = p /\ f.linked THEN torn \cup {p} ELSE torn

-----------------------------------------------------------------------------
(* AgentLoop::run (lines 155-165)                                           *)
StartRun(t) ==
  /\ phase = "idle"
  /\ task' = t
  /\ seen' = [p \in Paths |-> {disk[p]}]
  /\ phase' = "scan"
  /\ outcome' = "none" /\ selected' = <<>>
  /\ UNCHANGED <<disk, skills, paths, reading, loaded>>

(* The directory is listed; what is not a regular .md file is passed over.  *)
Scan ==
  /\ phase = "scan"
  /\ paths' = {p \in Paths : disk[p] # Absent}
  /\ loaded' = <<>>
  /\ phase' = "read"
  /\ UNCHANGED <<disk, skills, reading, task, outcome, selected, seen>>

Readable(p) == disk[p] \in {c \in Contents : c.readable}

(* The paths are sorted before the first is read.                           *)
NextPath(p) == p \in paths /\ \A q \in paths : p <= q

(* readSkill() opens the file and its stream's buffer takes the first of it.*)
Open ==
  /\ phase = "read" /\ open = {}
  /\ \E p \in Paths :
       /\ NextPath(p) /\ disk[p] # Absent
       /\ open' = {[path |-> p, first |-> disk[p].first, now |-> disk[p], linked |-> TRUE]}
       /\ paths' = paths \ {p}
  /\ UNCHANGED <<disk, skills, phase, torn, loaded, task, outcome, selected, seen>>

(* The rest of it is read, and the whole is parsed.                         *)
Read ==
  /\ \E f \in open :
       /\ f.now.readable \/ f.path \in torn
       /\ loaded' = Append(loaded, [path |-> f.path,
            content |-> [readable |-> TRUE, first |-> f.first, rest |-> f.now.rest]])
  /\ open' = {}
  /\ UNCHANGED <<disk, skills, phase, paths, torn, task, outcome, selected, seen>>

(* The directory is missing or cannot be listed; the next file cannot be    *)
(* opened (it may be gone by now), or the one that is open cannot be read   *)
(* or turns out blank, as any may that was changed in the meantime.         *)
Unloadable ==
  \/ phase = "scan"
  \/ phase = "read" /\ open = {} /\ \E p \in Paths : NextPath(p) /\ ~Readable(p)
  \/ \E f \in open : ~f.now.readable \/ f.path \in torn

FailedIgnored ==           \* run() goes on with the skills it has
  /\ Unloadable
  /\ open' = {}
  /\ phase' = "select"
  /\ UNCHANGED <<disk, skills, paths, torn, loaded, task, outcome, selected, seen>>

(* The run is over: what the files held in it no longer matters.            *)
Forget == torn' = {} /\ seen' = [p \in Paths |-> {}]

(* loadSkills() throws, and run() returns without asking the LLM.           *)
LoadFails ==
  /\ Unloadable
  /\ paths' = {} /\ open' = {} /\ loaded' = <<>>
  /\ outcome' = "failed"
  /\ phase' = "idle"
  /\ Forget
  /\ UNCHANGED <<disk, skills, task, selected>>

Install ==
  /\ phase = "read"
  /\ paths = {} /\ open = {}
  /\ skills' = loaded /\ loaded' = <<>>
  /\ phase' = "select"
  /\ UNCHANGED <<disk, paths, reading, task, outcome, selected, seen>>

-----------------------------------------------------------------------------
(* selectSkills()                                                           *)

(* readSkill() gives a file without a keyword line its name for one.        *)
KeywordsOf(s) ==
  LET given == s.content.first \o s.content.rest IN
  IF given # <<>> THEN given ELSE <<Files[s.path].fallback>>

Score(s) == KeywordScore(task, KeywordsOf(s))

Before(s, t) ==
  \/ Score(s) > Score(t)
  \/ Score(s) = Score(t) /\ Files[s.path].name < Files[t.path].name

Candidates == {i \in DOMAIN skills : Score(skills[i]) > 0}

(* The orders std::sort may leave the candidates in: skills of one name and *)
(* score come in any.                                                       *)
Orders(C) ==
  {f \in [1..Cardinality(C) -> C] :
     \A i, j \in 1..Cardinality(C) :
       i < j => f[i] # f[j] /\ ~Before(skills[f[j]], skills[f[i]])}

Shown == IF Cardinality(Candidates) < MaxSkills THEN Cardinality(Candidates) ELSE MaxSkills

SelectTruncatedFirst ==    \* the first few candidates, then sorted
  /\ phase = "select"
  /\ LET C == {i \in Candidates : Cardinality({j \in Candidates : j < i}) < MaxSkills}
     IN selected' \in {[i \in 1..Shown |-> skills[f[i]]] : f \in Orders(C)}
  /\ outcome' = "selected"
  /\ phase' = "idle"
  /\ Forget
  /\ UNCHANGED <<disk, skills, paths, open, loaded, task>>

Select ==
  /\ phase = "select"
  /\ selected' \in {[i \in 1..Shown |-> skills[f[i]]] : f \in Orders(Candidates)}
  /\ outcome' = "selected"
  /\ phase' = "idle"
  /\ Forget
  /\ UNCHANGED <<disk, skills, paths, open, loaded, task>>

Next ==
  \/ \E p \in Paths : Replace(p) \/ Edit(p)
  \/ \E t \in Tasks : StartRun(t)
  \/ Scan \/ Open \/ Read \/ LoadFails \/ Install \/ Select

Spec == Init /\ [][Next]_vars

-----------------------------------------------------------------------------
(* "Reloading before an agent run lets newly added markdown skills become   *)
(* available" (skill_loader.h:24-25), and nothing else: once the skills are *)
(* loaded for a run, a file left alone since the run began is among them as *)
(* it is, once; each skill is made of pieces its file held during this run, *)
(* and is what the file held at some moment of it, unless the file was      *)
(* changed in place while it was being read (skill_loader.cpp:173): then    *)
(* its pieces may be of different times.  No run goes on with the skills of *)
(* an earlier one.                                                          *)
SkillsAreCurrent ==
  phase = "select" =>
    /\ \A p \in Paths : seen[p] = {disk[p]} /\ disk[p] # Absent =>
         \E i \in DOMAIN skills : skills[i] = [path |-> p, content |-> disk[p]]
    /\ \A i, j \in DOMAIN skills : skills[i].path = skills[j].path => i = j
    /\ \A i \in DOMAIN skills :
         LET p == skills[i].path
             c == skills[i].content
         IN /\ \E a, b \in seen[p] \ {Absent} : c.first = a.first /\ c.rest = b.rest
            /\ p \notin torn => c \in seen[p]

(* The prompt gets the skills that fit best: never more than max_skills,    *)
(* none that fits nowhere, and none is left out for one that scores less or *)
(* that scores the same and comes later in the alphabet.                    *)
BestAreSelected ==
  outcome = "selected" =>
    LET chosen == {selected[i] : i \in DOMAIN selected}
        left == {skills[i] : i \in DOMAIN skills} \ chosen
    IN /\ Len(selected) <= MaxSkills
       /\ \A s \in chosen : Score(s) > 0
       /\ \A s \in left : Score(s) > 0 =>
            Len(selected) = MaxSkills /\ \A t \in chosen : ~Before(s, t)

=============================================================================
