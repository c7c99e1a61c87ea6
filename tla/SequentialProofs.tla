-------------------------- MODULE SequentialProofs ---------------------------
(***************************************************************************)
(* Proofs about SkillLoader, for any files, contents, tasks and number of    *)
(* skills (what a keyword scores is left open there: nothing depends on it); *)
(* about CommandLine, for lines of any length; about ReplyScanner, for        *)
(* replies of any length; about SkillMatch, for texts of any length; and      *)
(* about KeywordLists, for lists, keywords and answers of any length.         *)
(***************************************************************************)
EXTENDS MCSequential, FiniteSetTheorems, SequenceTheorems,
        WellFoundedInduction, TLAPS

(* What is in a file that can be read, a skill made of it, and a file that   *)
(* is being read.                                                            *)
Piece == Seq(Seq(Characters))
Text == [readable : BOOLEAN, first : Piece, rest : Piece]
Skill == [path : Paths, content : Text]
Reader == [path : Paths, first : Piece, now : Contents, linked : BOOLEAN]

SkillTypes ==
  /\ disk \in [Paths -> Contents \cup {Absent}]
  /\ seen \in [Paths -> SUBSET (Contents \cup {Absent})]
  /\ phase \in {"idle", "scan", "read", "select"}
  /\ outcome \in {"none", "failed", "selected"}
  /\ paths \subseteq Paths /\ torn \subseteq Paths
  /\ open \subseteq Reader /\ \A f, g \in open : f = g
  /\ skills \in Seq(Skill) /\ loaded \in Seq(Skill)

(* A run has no outcome before it ends, and has seen what the files hold.    *)
UnderWayInv ==
  phase # "idle" => outcome = "none" /\ \A p \in Paths : disk[p] \in seen[p]

(* A file that is being read: what is read of it, and will be, is what it    *)
(* held at some moment of the run, at one moment unless it was written over; *)
(* it is what is on the disk unless the file was replaced.                   *)
Opened(f) ==
  /\ f.path \notin paths
  /\ \E a \in seen[f.path] \ {Absent} : f.first = a.first
  /\ f.now \in seen[f.path]
  /\ f.path \in torn \/ f.first = f.now.first
  /\ IF f.linked THEN f.now = disk[f.path] ELSE seen[f.path] # {disk[f.path]}

OpenInv ==
  /\ open # {} => phase = "read"
  /\ phase = "idle" => torn = {}
  /\ \A p \in torn : seen[p] # {disk[p]}
  /\ \A f \in open : Opened(f)

(* A skill is made of what its file held in this run, at one moment of it    *)
(* unless the file was written over while it was read.                       *)
Held(s) ==
  /\ \E a, b \in seen[s.path] \ {Absent} : s.content.first = a.first /\ s.content.rest = b.rest
  /\ s.path \notin torn => s.content \in seen[s.path]

(* A list of skills is what this run has found in the files but for rest,    *)
(* which are not among them: each file once, and each that was left alone.   *)
Current(list, rest) ==
  /\ \A p \in Paths : seen[p] = {disk[p]} /\ disk[p] # Absent /\ p \notin rest =>
       \E i \in DOMAIN list : list[i] = [path |-> p, content |-> disk[p]]
  /\ \A i, j \in DOMAIN list : list[i].path = list[j].path => i = j
  /\ \A i \in DOMAIN list : list[i].path \notin rest /\ Held(list[i])

Rest == paths \cup {f.path : f \in open}

LoadInv ==
  /\ phase = "read" => Current(loaded, Rest)
  /\ phase = "select" => Current(skills, {})

SkillInv == SkillTypes /\ UnderWayInv /\ OpenInv /\ LoadInv

-----------------------------------------------------------------------------
LEMMA SkillInitially == Init => SkillInv
BY DEF Init, SkillInv, SkillTypes, UnderWayInv, OpenInv, LoadInv

LEMMA PathOfSkill ==
  ASSUME NEW list \in Seq(Skill)
  PROVE  \A i \in DOMAIN list : list[i].path \in Paths
<1>1. \A i \in DOMAIN list : list[i] \in Skill
  BY ElementOfSeq
<1> QED
  BY <1>1 DEF Skill

(* A change of the file at p leaves what has been read as it was, whatever   *)
(* becomes of the file that is open: what it adds to the contents that were  *)
(* seen makes it no longer one that was left alone.                          *)
LEMMA ChangeKeeps ==
  ASSUME SkillInv, NEW p \in Paths,
         NEW c \in (Contents \cup {Absent}) \ {disk[p]}, Put(p, c),
         open' \subseteq Reader /\ \A f, g \in open' : f = g,
         open' # {} => phase = "read",
         Rest' = Rest,
         torn \subseteq torn' /\ torn' \subseteq torn \cup {p},
         phase = "idle" => torn' = torn,
         \A f \in open' : Opened(f)'
  PROVE  SkillInv'
<1>t. SkillTypes
  BY DEF SkillInv
<1>1. /\ disk' = [disk EXCEPT ![p] = c]
      /\ seen' = IF phase = "idle" THEN seen ELSE [seen EXCEPT ![p] = @ \cup {c}]
  BY DEF Put
<1>2. /\ skills' = skills /\ phase' = phase /\ paths' = paths /\ loaded' = loaded
      /\ outcome' = outcome
  BY DEF Put
<1>3. SkillTypes'
  <2>1. disk' \in [Paths -> Contents \cup {Absent}]
    BY <1>t, <1>1 DEF SkillTypes
  <2>2. seen' \in [Paths -> SUBSET (Contents \cup {Absent})]
    BY <1>t, <1>1 DEF SkillTypes
  <2>3. torn' \subseteq Paths
    BY <1>t DEF SkillTypes
  <2> QED
    BY <1>t, <1>2, <2>1, <2>2, <2>3 DEF SkillTypes
<1>4. CASE phase = "idle"
  <2>1. torn' = {} /\ open' = {}
    BY <1>4 DEF SkillInv, OpenInv
  <2>2. OpenInv'
    BY <2>1 DEF OpenInv
  <2> QED
    BY <1>2, <1>3, <1>4, <2>2 DEF SkillInv, UnderWayInv, LoadInv
<1>5. CASE phase # "idle"
  <2>1. /\ disk'[p] = c /\ c # disk[p] /\ seen'[p] = seen[p] \cup {c} /\ disk[p] \in seen[p]
        /\ \A q \in Paths \ {p} : disk'[q] = disk[q] /\ seen'[q] = seen[q]
    BY <1>t, <1>1, <1>5 DEF SkillTypes, SkillInv, UnderWayInv
  <2>2. UnderWayInv'
    BY <1>2, <2>1 DEF SkillInv, UnderWayInv
  <2>3. /\ \A q \in Paths : seen'[q] = {disk'[q]} => seen[q] = {disk[q]} /\ disk'[q] = disk[q]
        /\ \A q \in Paths : seen[q] \subseteq seen'[q]
        /\ seen'[p] # {disk'[p]}
    <3>1. seen'[p] # {disk'[p]}
      BY <2>1
    <3> QED
      BY <2>1, <3>1
  <2>4. OpenInv'
    <3>1. \A q \in torn' : seen'[q] # {disk'[q]}
      <4> SUFFICES ASSUME NEW q \in torn' PROVE seen'[q] # {disk'[q]}
        OBVIOUS
      <4>1. CASE q = p
        BY <2>3, <4>1
      <4>2. CASE q # p
        BY <1>t, <2>3, <4>2 DEF SkillInv, OpenInv, SkillTypes
      <4> QED
        BY <4>1, <4>2
    <3> QED
      BY <1>2, <1>5, <3>1 DEF OpenInv
  <2>5. \A s : s.path \in Paths /\ Held(s) => Held(s)'
    BY <2>3 DEF Held
  <2>6. LoadInv'
    <3>1. ASSUME phase = "read" PROVE Current(loaded, Rest)'
      <4>1. Current(loaded, Rest)
        BY <3>1 DEF SkillInv, LoadInv
      <4>2. \A i \in DOMAIN loaded : loaded[i].path \in Paths
        BY <1>t, PathOfSkill DEF SkillTypes
      <4> QED
        BY <1>2, <2>3, <2>5, <4>1, <4>2 DEF Current
    <3>2. ASSUME phase = "select" PROVE Current(skills, {})'
      <4>1. Current(skills, {})
        BY <3>2 DEF SkillInv, LoadInv
      <4>2. \A i \in DOMAIN skills : skills[i].path \in Paths
        BY <1>t, PathOfSkill DEF SkillTypes
      <4> QED
        BY <1>2, <2>3, <2>5, <4>1, <4>2 DEF Current
    <3> QED
      BY <1>2, <3>1, <3>2 DEF LoadInv
  <2> QED
    BY <1>3, <2>2, <2>4, <2>6 DEF SkillInv
<1> QED
  BY <1>4, <1>5

(* What a change does to the file that is open: at most, it is no longer the *)
(* one at its path, or the rest of it is another.                            *)
LEMMA OpenFileKeeps ==
  ASSUME SkillInv, NEW p \in Paths, NEW c \in (Contents \cup {Absent}) \ {disk[p]}, Put(p, c),
         torn \subseteq torn',
         NEW f \in open, NEW g \in Reader,
         g.path = f.path, g.first = f.first,
         f.path # p => g = f,
         f.path = p => \/ g.now = f.now /\ ~g.linked
                       \/ /\ f.linked /\ g.linked /\ g.now = c
                          /\ p \in torn'
  PROVE  Opened(g)'
<1>t. SkillTypes /\ Opened(f) /\ phase = "read" /\ f \in Reader
  BY DEF SkillInv, OpenInv, SkillTypes
<1>1. /\ disk' = [disk EXCEPT ![p] = c] /\ seen' = [seen EXCEPT ![p] = @ \cup {c}]
      /\ paths' = paths
  BY <1>t DEF Put
<1>2. /\ disk'[p] = c /\ c # disk[p] /\ seen'[p] = seen[p] \cup {c} /\ disk[p] \in seen[p]
      /\ \A q \in Paths \ {p} : disk'[q] = disk[q] /\ seen'[q] = seen[q]
  BY <1>t, <1>1 DEF SkillTypes, SkillInv, UnderWayInv
<1>3. f.path \in Paths /\ seen[f.path] \subseteq seen'[f.path] /\ seen'[p] # {disk'[p]}
  BY <1>t, <1>2 DEF Reader
<1>4. g.path \notin paths' /\ \E a \in seen'[g.path] \ {Absent} : g.first = a.first
  BY <1>t, <1>1, <1>3 DEF Opened
<1>5. CASE f.path # p
  <2>1. g = f /\ disk'[f.path] = disk[f.path] /\ seen'[f.path] = seen[f.path]
    BY <1>2, <1>3, <1>5
  <2> QED
    BY <1>t, <1>4, <2>1 DEF Opened
<1>6. CASE f.path = p /\ g.now = f.now /\ ~g.linked
  BY <1>t, <1>3, <1>4, <1>6 DEF Opened
<1>7. CASE f.path = p /\ f.linked /\ g.linked /\ g.now = c /\ p \in torn'
  BY <1>2, <1>4, <1>7 DEF Opened
<1> QED
  BY <1>5, <1>6, <1>7

(* The file at p is replaced.                                                *)
LEMMA ReplaceKeeps ==
  ASSUME SkillInv, NEW p \in Paths, Replace(p)
  PROVE  SkillInv'
<1> DEFINE After(f) == IF f.path = p THEN [f EXCEPT !.linked = FALSE] ELSE f
<1>t. SkillTypes
  BY DEF SkillInv
<1>1. PICK c \in (Contents \cup {Absent}) \ {disk[p]} : Put(p, c)
  BY DEF Replace
<1>2. open' = {After(f) : f \in open} /\ torn' = torn
  BY DEF Replace
<1>3. \A f \in Reader :
        /\ After(f) \in Reader /\ After(f).path = f.path /\ After(f).first = f.first
        /\ f.path # p => After(f) = f
        /\ f.path = p => After(f).now = f.now /\ ~After(f).linked
  <2> SUFFICES ASSUME NEW f \in Reader
               PROVE  /\ After(f) \in Reader /\ After(f).path = f.path /\ After(f).first = f.first
                      /\ f.path # p => After(f) = f
                      /\ f.path = p => After(f).now = f.now /\ ~After(f).linked
    OBVIOUS
  <2>1. CASE f.path = p
    <3> DEFINE g == [f EXCEPT !.linked = FALSE]
    <3>1. /\ g \in Reader /\ g.path = f.path /\ g.first = f.first /\ g.now = f.now
          /\ g.linked = FALSE
      BY DEF Reader
    <3>2. After(f) = g
      BY <2>1
    <3> HIDE DEF g, After
    <3> QED
      BY <2>1, <3>1, <3>2
  <2>2. CASE f.path # p
    BY <2>2
  <2> QED
    BY <2>1, <2>2
<1> HIDE DEF After
<1>4. open \subseteq Reader /\ \A f, g \in open : f = g
  BY <1>t DEF SkillTypes
<1>5. open' \subseteq Reader /\ \A f, g \in open' : f = g
  BY <1>2, <1>3, <1>4
<1>6. \A f \in open' : Opened(f)'
  <2> SUFFICES ASSUME NEW f \in open PROVE Opened(After(f))'
    BY <1>2
  <2> QED
    BY <1>1, <1>2, <1>3, <1>4, OpenFileKeeps
<1>7. Rest' = Rest
  BY <1>1, <1>2, <1>3, <1>4 DEF Rest, Put
<1>8. open' # {} => phase = "read"
  BY <1>2 DEF SkillInv, OpenInv
<1> QED
  BY <1>1, <1>2, <1>5, <1>6, <1>7, <1>8, ChangeKeeps

(* The file at p is written over.                                            *)
LEMMA EditKeeps ==
  ASSUME SkillInv, NEW p \in Paths, Edit(p)
  PROVE  SkillInv'
<1>t. SkillTypes
  BY DEF SkillInv
<1>1. PICK c \in Contents \ {disk[p]} :
        /\ Put(p, c)
        /\ open' = {IF f.path = p /\ f.linked THEN [f EXCEPT !.now = c] ELSE f : f \in open}
  BY DEF Edit
<1>c. c \in (Contents \cup {Absent}) \ {disk[p]}
  OBVIOUS
<1>2. torn' = IF \E f \in open : f.path = p /\ f.linked THEN torn \cup {p} ELSE torn
  BY DEF Edit
<1> DEFINE After(f) == IF f.path = p /\ f.linked THEN [f EXCEPT !.now = c] ELSE f
<1>o. open' = {After(f) : f \in open}
  BY <1>1
<1>3. \A f \in Reader :
        /\ After(f) \in Reader /\ After(f).path = f.path /\ After(f).first = f.first
        /\ After(f).linked = f.linked
        /\ ~(f.path = p /\ f.linked) => After(f) = f
        /\ f.path = p /\ f.linked => After(f).now = c
  <2> SUFFICES ASSUME NEW f \in Reader
               PROVE  /\ After(f) \in Reader /\ After(f).path = f.path /\ After(f).first = f.first
                      /\ After(f).linked = f.linked
                      /\ ~(f.path = p /\ f.linked) => After(f) = f
                      /\ f.path = p /\ f.linked => After(f).now = c
    OBVIOUS
  <2>1. CASE f.path = p /\ f.linked
    <3> DEFINE g == [f EXCEPT !.now = c]
    <3>1. /\ g \in Reader /\ g.path = f.path /\ g.first = f.first /\ g.now = c
          /\ g.linked = f.linked
      BY DEF Reader
    <3>2. After(f) = g
      BY <2>1
    <3> HIDE DEF g, After
    <3> QED
      BY <2>1, <3>1, <3>2
  <2>2. CASE ~(f.path = p /\ f.linked)
    BY <2>2
  <2> QED
    BY <2>1, <2>2
<1> HIDE DEF After
<1>4. open \subseteq Reader /\ \A f, g \in open : f = g
  BY <1>t DEF SkillTypes
<1>5. open' \subseteq Reader /\ \A f, g \in open' : f = g
  BY <1>o, <1>3, <1>4
<1>6. \A f \in open' : Opened(f)'
  <2> SUFFICES ASSUME NEW f \in open PROVE Opened(After(f))'
    BY <1>o
  <2>1. /\ After(f) \in Reader /\ After(f).path = f.path /\ After(f).first = f.first
        /\ f.path # p => After(f) = f
        /\ f.path = p => \/ After(f).now = f.now /\ ~After(f).linked
                         \/ /\ f.linked /\ After(f).linked /\ After(f).now = c
                            /\ p \in torn'
    BY <1>2, <1>3, <1>4
  <2> QED
    BY <1>1, <1>2, <1>c, <2>1, OpenFileKeeps
<1>7. Rest' = Rest
  BY <1>1, <1>o, <1>3, <1>4 DEF Rest, Put
<1>8. (open' # {} => phase = "read") /\ (phase = "idle" => torn' = torn)
  BY <1>o, <1>2 DEF SkillInv, OpenInv
<1>9. torn \subseteq torn' /\ torn' \subseteq torn \cup {p}
  BY <1>2
<1> QED
  BY <1>1, <1>c, <1>5, <1>6, <1>7, <1>8, <1>9, ChangeKeeps

(* A file is opened, after which it is among the rest as the one being read. *)
LEMMA OpenKeeps ==
  ASSUME SkillInv, Open
  PROVE  SkillInv'
<1>t. SkillTypes
  BY DEF SkillInv
<1>1. PICK p \in Paths :
        /\ p \in paths /\ disk[p] # Absent
        /\ open' = {[path |-> p, first |-> disk[p].first, now |-> disk[p], linked |-> TRUE]}
        /\ paths' = paths \ {p}
  BY DEF Open, NextPath
<1>2. /\ phase = "read" /\ open = {} /\ disk' = disk /\ skills' = skills /\ phase' = phase
      /\ torn' = torn /\ loaded' = loaded /\ outcome' = outcome /\ seen' = seen
  BY DEF Open
<1>3. disk[p] \in Contents /\ disk[p].first \in Piece /\ disk[p] \in seen[p]
  BY <1>t, <1>1, <1>2, SkillAssumption DEF SkillTypes, Piece, SkillInv, UnderWayInv
<1>4. PICK f \in Reader :
        /\ open' = {f}
        /\ f.path = p /\ f.first = disk[p].first /\ f.now = disk[p] /\ f.linked
  <2> DEFINE g == [path |-> p, first |-> disk[p].first, now |-> disk[p], linked |-> TRUE]
  <2>1. /\ g \in Reader /\ g.path = p /\ g.first = disk[p].first /\ g.now = disk[p] /\ g.linked
    BY <1>3 DEF Reader
  <2>2. open' = {g}
    BY <1>1
  <2> QED
    BY <2>1, <2>2
<1>5. SkillTypes' /\ UnderWayInv'
  BY <1>t, <1>1, <1>2, <1>4 DEF SkillTypes, SkillInv, UnderWayInv
<1>6. Opened(f)'
  BY <1>1, <1>2, <1>3, <1>4 DEF Opened
<1>7. OpenInv'
  BY <1>2, <1>4, <1>6 DEF SkillInv, OpenInv
<1>8. Rest' = Rest
  BY <1>1, <1>2, <1>4 DEF Rest
<1>9. Current(loaded, Rest)'
  <2>1. Current(loaded, Rest)
    BY <1>2 DEF SkillInv, LoadInv
  <2>2. \A s : Held(s) => Held(s)'
    BY <1>2 DEF Held
  <2> QED
    BY <1>2, <1>8, <2>1, <2>2 DEF Current
<1> QED
  BY <1>2, <1>5, <1>7, <1>9 DEF SkillInv, LoadInv

(* It has been read, after which it is not among the rest.                   *)
LEMMA ReadKeeps ==
  ASSUME SkillInv, Read
  PROVE  SkillInv'
<1>t. SkillTypes /\ OpenInv
  BY DEF SkillInv
<1>1. PICK f \in open :
        /\ f.now.readable \/ f.path \in torn
        /\ loaded' = Append(loaded, [path |-> f.path,
             content |-> [readable |-> TRUE, first |-> f.first, rest |-> f.now.rest]])
  BY DEF Read
<1>2. /\ phase = "read" /\ disk' = disk /\ skills' = skills /\ phase' = phase /\ paths' = paths
      /\ torn' = torn /\ open' = {} /\ outcome' = outcome /\ seen' = seen
  BY <1>t DEF Read, OpenInv
<1> DEFINE p == f.path
           text_read == [readable |-> TRUE, first |-> f.first, rest |-> f.now.rest]
           s == [path |-> p, content |-> text_read]
           n == Len(loaded)
<1>3. /\ f \in Reader /\ p \in Paths /\ f.first \in Piece /\ f.now \in Contents /\ Opened(f)
      /\ f.now \in Text
  <2>1. /\ f \in Reader /\ p \in Paths /\ f.first \in Piece /\ f.now \in Contents /\ Opened(f)
    BY <1>t DEF SkillTypes, OpenInv, Reader
  <2>2. f.now \in Text
    BY <2>1, SkillAssumption DEF Text, Piece
  <2> QED
    BY <2>1, <2>2
<1>4. text_read \in Text /\ text_read.first = f.first /\ text_read.rest = f.now.rest
  BY <1>3 DEF Text
<1>5. f.now.readable /\ f.first = f.now.first => text_read = f.now
  BY <1>3 DEF Text
<1> HIDE DEF text_read
<1>6. s \in Skill /\ s.path = p /\ s.content = text_read
  BY <1>3, <1>4 DEF Skill
<1>7. loaded' = Append(loaded, s)
  BY <1>1 DEF text_read
<1>8. Held(s)
  <2>1. p \notin torn => text_read \in seen[p]
    BY <1>1, <1>3, <1>5 DEF Opened
  <2>2. \E a, b \in seen[p] \ {Absent} : text_read.first = a.first /\ text_read.rest = b.rest
    BY <1>3, <1>4, SkillAssumption DEF Opened
  <2> QED
    BY <1>6, <2>1, <2>2 DEF Held
<1>9. seen[p] = {disk[p]} => s = [path |-> p, content |-> disk[p]]
  <2> SUFFICES ASSUME seen[p] = {disk[p]} PROVE text_read = disk[p]
    OBVIOUS
  <2>1. f.now = disk[p] /\ p \notin torn
    BY <1>t, <1>3 DEF Opened, OpenInv
  <2> QED
    BY <1>1, <1>3, <1>5, <2>1 DEF Opened
<1> HIDE DEF s
<1>10. /\ n \in Nat /\ DOMAIN loaded = 1..n /\ loaded' \in Seq(Skill) /\ DOMAIN loaded' = 1..(n + 1)
       /\ loaded'[n + 1] = s /\ \A i \in 1..n : loaded'[i] = loaded[i]
  BY <1>t, <1>6, <1>7 DEF SkillTypes
<1> HIDE DEF n
<1>11. SkillTypes' /\ UnderWayInv' /\ OpenInv'
  <2>1. SkillTypes'
    BY <1>t, <1>2, <1>10 DEF SkillTypes
  <2>2. UnderWayInv' /\ OpenInv'
    BY <1>2 DEF SkillInv, UnderWayInv, OpenInv
  <2> QED
    BY <2>1, <2>2
<1>12. Rest' = paths /\ p \in Rest /\ p \notin paths /\ Rest = paths \cup {p}
  <2>1. open = {f}
    BY <1>t DEF SkillTypes
  <2> QED
    BY <1>2, <1>3, <2>1 DEF Rest, Opened
<1> HIDE DEF p
<1>13. Current(loaded, Rest)'
  <2>0. Current(loaded, Rest)
    BY <1>2 DEF SkillInv, LoadInv
  <2>1. \A q \in Paths : seen[q] = {disk[q]} /\ disk[q] # Absent /\ q \notin paths =>
          \E i \in DOMAIN loaded' : loaded'[i] = [path |-> q, content |-> disk[q]]
    <3> SUFFICES ASSUME NEW q \in Paths, seen[q] = {disk[q]}, disk[q] # Absent, q \notin paths
                 PROVE  \E i \in DOMAIN loaded' : loaded'[i] = [path |-> q, content |-> disk[q]]
      OBVIOUS
    <3>1. CASE q = p
      <4>1. loaded'[n + 1] = [path |-> q, content |-> disk[q]] /\ n + 1 \in DOMAIN loaded'
        BY <1>9, <1>10, <3>1
      <4> QED
        BY <4>1
    <3>2. CASE q # p
      <4>1. PICK i \in DOMAIN loaded : loaded[i] = [path |-> q, content |-> disk[q]]
        BY <1>12, <2>0, <3>2 DEF Current
      <4>2. i \in DOMAIN loaded' /\ loaded'[i] = loaded[i]
        BY <1>10
      <4> QED
        BY <4>1, <4>2
    <3> QED
      BY <3>1, <3>2
  <2>2. \A i \in 1..n : loaded'[i].path # p
    BY <1>10, <1>12, <2>0 DEF Current
  <2>3. \A i, j \in DOMAIN loaded' : loaded'[i].path = loaded'[j].path => i = j
    <3>1. \A i, j \in 1..n : loaded'[i].path = loaded'[j].path => i = j
      BY <1>10, <2>0 DEF Current
    <3>2. \A i \in DOMAIN loaded' : i \in 1..n \/ i = n + 1
      BY <1>10
    <3>3. loaded'[n + 1].path = p
      BY <1>6, <1>10
    <3> QED
      BY <2>2, <3>1, <3>2, <3>3
  <2>4. \A i \in DOMAIN loaded' : loaded'[i].path \notin paths /\ Held(loaded'[i])
    <3>1. \A i \in 1..n : loaded'[i].path \notin paths /\ Held(loaded'[i])
      BY <1>10, <1>12, <2>0 DEF Current
    <3>2. loaded'[n + 1].path \notin paths /\ Held(loaded'[n + 1])
      BY <1>6, <1>8, <1>10, <1>12
    <3>3. \A i \in DOMAIN loaded' : i \in 1..n \/ i = n + 1
      BY <1>10
    <3> QED
      BY <3>1, <3>2, <3>3
  <2>5. \A x : Held(x) => Held(x)'
    BY <1>2 DEF Held
  <2> QED
    BY <1>2, <1>12, <2>1, <2>3, <2>4, <2>5 DEF Current
<1> QED
  BY <1>2, <1>11, <1>13 DEF SkillInv, LoadInv

LEMMA OthersKeep ==
  ASSUME SkillInv,
         \/ \E t \in Tasks : StartRun(t)
         \/ Scan \/ LoadFails \/ Install \/ Select
         \/ UNCHANGED vars
  PROVE  SkillInv'
<1>t. SkillTypes
  BY DEF SkillInv
<1>o. phase # "read" => open = {}
  BY DEF SkillInv, OpenInv
<1>1. ASSUME NEW t \in Tasks, StartRun(t) PROVE SkillInv'
  <2>1. /\ seen' = [p \in Paths |-> {disk[p]}] /\ phase' = "scan" /\ outcome' = "none"
        /\ disk' = disk /\ skills' = skills /\ paths' = paths /\ loaded' = loaded
        /\ open' = {} /\ torn' = {}
    BY <1>1, <1>o DEF StartRun, reading, SkillInv, OpenInv
  <2>2. SkillTypes'
    BY <1>t, <2>1 DEF SkillTypes
  <2> QED
    BY <2>1, <2>2 DEF SkillInv, UnderWayInv, OpenInv, LoadInv
<1>2. CASE Scan
  <2>1. /\ phase = "scan" /\ paths' = {p \in Paths : disk[p] # Absent} /\ loaded' = <<>>
        /\ phase' = "read" /\ disk' = disk /\ skills' = skills /\ outcome' = outcome
        /\ seen' = seen /\ open' = {} /\ torn' = torn
    BY <1>2, <1>o DEF Scan, reading
  <2>2. SkillTypes'
    BY <1>t, <2>1 DEF SkillTypes
  <2>3. Current(loaded, Rest)'
    BY <2>1 DEF Current, Rest
  <2>4. OpenInv'
    BY <2>1 DEF SkillInv, OpenInv
  <2> QED
    BY <2>1, <2>2, <2>3, <2>4 DEF SkillInv, UnderWayInv, LoadInv
<1>3. CASE LoadFails \/ Select
  <2>1. /\ phase' = "idle" /\ torn' = {} /\ seen' = [p \in Paths |-> {}]
        /\ disk' = disk /\ skills' = skills
        /\ outcome' \in {"none", "failed", "selected"}
    BY <1>3 DEF LoadFails, Select, Forget
  <2>2. open' = {} /\ paths' \subseteq Paths /\ loaded' \in Seq(Skill)
    <3>1. CASE LoadFails
      BY <3>1 DEF LoadFails
    <3>2. CASE Select
      BY <1>t, <1>o, <3>2 DEF Select, SkillTypes
    <3> QED
      BY <1>3, <3>1, <3>2
  <2>3. SkillTypes'
    BY <1>t, <2>1, <2>2 DEF SkillTypes
  <2> QED
    BY <2>1, <2>2, <2>3 DEF SkillInv, UnderWayInv, OpenInv, LoadInv
<1>4. CASE Install
  <2>1. /\ phase = "read" /\ paths = {} /\ open = {} /\ skills' = loaded /\ phase' = "select"
        /\ loaded' = <<>> /\ disk' = disk /\ paths' = paths /\ outcome' = outcome
        /\ seen' = seen /\ open' = {} /\ torn' = torn
    BY <1>4 DEF Install, reading
  <2>2. SkillTypes'
    BY <1>t, <2>1 DEF SkillTypes
  <2>3. Rest = {} /\ Current(loaded, Rest)
    BY <2>1 DEF Rest, SkillInv, LoadInv
  <2>4. \A s : Held(s) => Held(s)'
    BY <2>1 DEF Held
  <2>5. Current(skills, {})'
    BY <2>1, <2>3, <2>4 DEF Current
  <2>6. OpenInv'
    BY <2>1 DEF SkillInv, OpenInv
  <2> QED
    BY <2>1, <2>2, <2>5, <2>6 DEF SkillInv, UnderWayInv, LoadInv
<1>5. CASE UNCHANGED vars
  <2>1. /\ disk' = disk /\ skills' = skills /\ phase' = phase /\ paths' = paths /\ loaded' = loaded
        /\ outcome' = outcome /\ seen' = seen /\ open' = open /\ torn' = torn
    BY <1>5 DEF vars, reading
  <2>2. SkillTypes' /\ UnderWayInv' /\ Rest' = Rest
    BY <1>t, <2>1 DEF SkillTypes, SkillInv, UnderWayInv, Rest
  <2>3. OpenInv'
    <3>1. \A f : Opened(f) => Opened(f)'
      BY <2>1 DEF Opened
    <3> QED
      BY <2>1, <3>1 DEF SkillInv, OpenInv
  <2>4. \A s : Held(s) => Held(s)'
    BY <2>1 DEF Held
  <2>5. LoadInv'
    BY <2>1, <2>2, <2>4 DEF SkillInv, LoadInv, Current
  <2> QED
    BY <2>2, <2>3, <2>5 DEF SkillInv
<1> QED
  BY <1>1, <1>2, <1>3, <1>4, <1>5

(* What a run has read and will read of the files, while other programs      *)
(* create, remove, replace and write over them at any moment, the one that   *)
(* is open included, for any files and contents (skill_loader.cpp:161-293).  *)
THEOREM SkillInvariance == Spec => []SkillInv
<1>1. SkillInv /\ [Next]_vars => SkillInv'
  BY ReplaceKeeps, EditKeeps, OpenKeeps, ReadKeeps, OthersKeep DEF Next
<1> QED
  BY <1>1, SkillInitially, PTL DEF Spec

(* Once the skills are loaded for a run, a file left alone since the run     *)
(* began is among them as it is, once; a skill is what its file held at some *)
(* moment of this run, unless the file was written over while it was read:   *)
(* then it is made of pieces the file held at two (skill_loader.cpp:167-177, *)
(* 256-293).                                                                 *)
THEOREM SkillsCurrent == Spec => []SkillsAreCurrent
<1>1. SkillInv => SkillsAreCurrent
  <2> SUFFICES ASSUME SkillInv, phase = "select"
               PROVE  /\ \A p \in Paths : seen[p] = {disk[p]} /\ disk[p] # Absent =>
                           \E i \in DOMAIN skills : skills[i] = [path |-> p, content |-> disk[p]]
                      /\ \A i, j \in DOMAIN skills : skills[i].path = skills[j].path => i = j
                      /\ \A i \in DOMAIN skills : Held(skills[i])
    BY DEF SkillsAreCurrent, Held
  <2> QED
    BY DEF SkillInv, LoadInv, Current
<1> QED
  BY <1>1, SkillInvariance, PTL

-----------------------------------------------------------------------------
(* What is best does not change while the task and the skills stay.          *)
LEMMA ScoresStay ==
  ASSUME task' = task
  PROVE  \A s, t : Score(s)' = Score(s) /\ (Before(s, t)' <=> Before(s, t))
BY DEF Before, Score, KeywordsOf

(* An order of the candidates has each of them.                              *)
LEMMA OrderIsComplete ==
  ASSUME NEW C, IsFiniteSet(C), NEW f \in Orders(C)
  PROVE  /\ Cardinality(C) \in Nat
         /\ \A k \in C : \E i \in 1..Cardinality(C) : f[i] = k
<1> DEFINE n == Cardinality(C)
<1>1. n \in Nat
  BY FS_CardinalityType
<1>2. f \in [1..n -> C] /\ \A i, j \in 1..n : i < j => f[i] # f[j]
  BY DEF Orders
<1> HIDE DEF n
<1>3. IsFiniteSet(1..n) /\ Cardinality(1..n) = n
  BY <1>1, FS_Interval
<1>4. \A i, j \in 1..n : f[i] = f[j] => i = j
  <2> SUFFICES ASSUME NEW i \in 1..n, NEW j \in 1..n, i # j
               PROVE  f[i] # f[j]
    OBVIOUS
  <2>1. i < j \/ j < i
    BY <1>1
  <2> QED
    BY <1>2, <2>1
<1>5. f \in Injection(1..n, C)
  BY <1>2, <1>4 DEF Injection, IsInjective
<1>6. f \in Surjection(1..n, C)
  BY <1>3, <1>5, FS_Injection DEF n
<1> QED
  BY <1>1, <1>6 DEF Surjection, n

LEMMA SelectIsBest ==
  ASSUME SkillTypes, Select
  PROVE  BestAreSelected'
<1> DEFINE n == Cardinality(Candidates)
           m == Shown
<1>1. PICK f \in Orders(Candidates) : selected' = [i \in 1..m |-> skills[f[i]]]
  BY DEF Select
<1>2. skills' = skills /\ task' = task
  BY DEF Select
<1>3. IsFiniteSet(Candidates)
  <2>1. IsFiniteSet(DOMAIN skills)
    BY FS_Interval DEF SkillTypes
  <2> QED
    BY <2>1, FS_Subset DEF Candidates
<1>4. n \in Nat /\ \A k \in Candidates : \E i \in 1..n : f[i] = k
  BY <1>3, OrderIsComplete
<1>5. /\ f \in [1..n -> Candidates]
      /\ \A i, j \in 1..n : i < j => ~Before(skills[f[j]], skills[f[i]])
  BY DEF Orders
<1>6. m \in Nat /\ m <= n /\ m <= MaxSkills /\ (m # n => m = MaxSkills)
  BY <1>4, SkillAssumption DEF Shown
<1> HIDE DEF n, m
<1>7. DOMAIN selected' = 1..m /\ Len(selected') = m /\ \A i \in 1..m : selected'[i] = skills[f[i]]
  <2>1. selected' \in Seq({skills[f[i]] : i \in 1..m})
    BY <1>1, <1>6
  <2>2. DOMAIN selected' = 1..m
    BY <1>1
  <2> QED
    BY <1>1, <1>6, <2>1, <2>2, LenProperties
<1>8. \A i \in 1..m : i \in 1..n
  BY <1>4, <1>6
<1>9. \A i \in 1..m : Score(selected'[i]) > 0
  BY <1>5, <1>7, <1>8 DEF Candidates
<1>10. ASSUME NEW k \in DOMAIN skills, Score(skills[k]) > 0,
              \A i \in 1..m : selected'[i] # skills[k]
       PROVE  m = MaxSkills /\ \A i \in 1..m : ~Before(skills[k], selected'[i])
  <2>1. PICK j \in 1..n : f[j] = k
    BY <1>4, <1>10 DEF Candidates
  <2>2. j \notin 1..m
    BY <1>7, <1>10, <2>1
  <2>3. m < j /\ m # n
    BY <1>4, <1>6, <2>2
  <2>4. \A i \in 1..m : i < j
    BY <1>4, <1>6, <2>3
  <2> QED
    BY <1>5, <1>6, <1>7, <1>8, <2>1, <2>3, <2>4
<1>11. \A s, t : Score(s)' = Score(s) /\ (Before(s, t)' <=> Before(s, t))
  BY <1>2, ScoresStay
<1> QED
  BY <1>2, <1>6, <1>7, <1>9, <1>10, <1>11 DEF BestAreSelected

(* The prompt gets the skills that fit best: never more than max_skills,     *)
(* none that fits nowhere, and none is left out for one that scores less or  *)
(* that scores the same and comes later (skill_loader.cpp:303-338).          *)
THEOREM BestSelected == Spec => []BestAreSelected
<1>1. Init => BestAreSelected
  BY DEF Init, BestAreSelected
<1>2. SkillInv /\ BestAreSelected /\ [Next]_vars => BestAreSelected'
  <2> SUFFICES ASSUME SkillInv, BestAreSelected, [Next]_vars PROVE BestAreSelected'
    OBVIOUS
  <2>1. CASE Select
    BY <2>1, SelectIsBest DEF SkillInv
  <2>2. CASE /\ outcome' = outcome /\ selected' = selected /\ skills' = skills /\ task' = task
    <3>1. \A s, t : Score(s)' = Score(s) /\ (Before(s, t)' <=> Before(s, t))
      BY <2>2, ScoresStay
    <3> QED
      BY <2>2, <3>1 DEF BestAreSelected
  <2>3. CASE outcome' # "selected"
    BY <2>3 DEF BestAreSelected
  <2>4. \/ Select
        \/ /\ outcome' = outcome /\ selected' = selected /\ skills' = skills /\ task' = task
        \/ outcome' # "selected"
    BY DEF Next, Replace, Edit, Put, StartRun, Scan, Open, Read, LoadFails, Install, vars,
          SkillInv, UnderWayInv
  <2> QED
    BY <2>1, <2>2, <2>3, <2>4
<1> QED
  BY <1>1, <1>2, SkillInvariance, PTL DEF Spec

-----------------------------------------------------------------------------
(* The command line.  Max of FiniteSetsExt is the greatest element of a set   *)
(* that has one, as every bounded set of numbers does.                       *)
LEMMA LeastExists ==
  ASSUME NEW T \in SUBSET Nat, T # {}
  PROVE  \E k \in T : \A l \in T : k <= l
<1> DEFINE R == OpToRel(<, Nat)
<1>1. IsWellFoundedOn(R, Nat)
  BY NatLessThanWellFounded
<1> HIDE DEF R
<1>2. PICK k \in T : \A l \in T : <<l, k>> \notin R
  BY <1>1, WFMin
<1>3. \A l \in T : ~(l < k)
  BY <1>2 DEF R, OpToRel
<1> QED
  BY <1>3

LEMMA GreatestExists ==
  ASSUME NEW n \in Nat, NEW S \in SUBSET (0..n), S # {}
  PROVE  \E i \in S : \A j \in S : j <= i
<1> DEFINE T == {k \in 0..n : n - k \in S}
<1>1. \A j \in S : n - j \in T
  <2>1. ASSUME NEW j \in S PROVE n - j \in 0..n /\ n - (n - j) = j
    OBVIOUS
  <2> QED
    BY <2>1
<1>2. T \in SUBSET Nat /\ T # {}
  <2>1. T \in SUBSET Nat
    OBVIOUS
  <2> HIDE DEF T
  <2> QED
    BY <1>1, <2>1
<1>3. PICK k \in T : \A l \in T : k <= l
  BY <1>2, LeastExists
<1>4. n - k \in S /\ k \in 0..n
  BY <1>3
<1> HIDE DEF T
<1>5. ASSUME NEW j \in S PROVE j <= n - k
  <2>1. k <= n - j
    BY <1>1, <1>3
  <2> QED
    BY <1>4, <2>1
<1> QED
  BY <1>4, <1>5

LEMMA MaxFacts ==
  ASSUME NEW n \in Nat, NEW S \in SUBSET (0..n), S # {}
  PROVE  Line!Max(S) \in S /\ \A j \in S : j <= Line!Max(S)
<1>1. \E i \in S : \A j \in S : i >= j
  BY GreatestExists
<1> QED
  BY <1>1, Zenon DEF Line!Max

LEMMA MaxIsNew ==
  ASSUME NEW S, NEW k \in Nat, \A i \in S : i \in Nat /\ i < k
  PROVE  Line!Max(S \cup {k}) = k
<1>1. \A i \in S \cup {k} : (\A j \in S \cup {k} : i >= j) <=> i = k
  OBVIOUS
<1> QED
  BY <1>1 DEF Line!Max

(* A sequence with one more element, function by function.                   *)
Listed(s, n) == s = [i \in 1..n |-> s[i]]

LEMMA Extended ==
  ASSUME NEW n \in Nat, NEW s, Listed(s, n),
         NEW t, Listed(t, n + 1), \A i \in 1..n : t[i] = s[i]
  PROVE  t = Append(s, t[n + 1])
<1> DEFINE V == {s[i] : i \in 1..n} \cup {t[n + 1]}
<1>1. s \in [1..n -> V] /\ t \in [1..n + 1 -> V]
  <2>1. \A i \in 1..n : s[i] \in V
    OBVIOUS
  <2>2. \A i \in 1..n + 1 : t[i] \in V
    <3>1. \A i \in 1..n + 1 : i \in 1..n \/ i = n + 1
      OBVIOUS
    <3> QED
      BY <3>1
  <2> HIDE DEF V
  <2> QED
    BY <2>1, <2>2 DEF Listed
<1> HIDE DEF V
<1>2. s \in Seq(V) /\ t \in Seq(V)
  BY <1>1, SeqDef
<1>3. Len(s) = n /\ Len(t) = n + 1
  <2>1. \A q, m : q \in Seq(V) /\ m \in Nat /\ q \in [1..m -> V] => Len(q) = m
    BY LenProperties
  <2> QED
    BY <1>1, <1>2, <2>1
<1>4. t[n + 1] \in V
  BY <1>1
<1> DEFINE e == t[n + 1]
<1> HIDE DEF e
<1>5. /\ Append(s, e) \in Seq(V)
      /\ Len(Append(s, e)) = n + 1
      /\ \A i \in 1..n : Append(s, e)[i] = s[i]
      /\ Append(s, e)[n + 1] = e
  BY <1>2, <1>3, <1>4, AppendProperties DEF e
<1>6. \A i \in 1..n + 1 : Append(s, e)[i] = t[i]
  <2>1. \A i \in 1..n + 1 : i \in 1..n \/ i = n + 1
    OBVIOUS
  <2> QED
    BY <1>5, <2>1 DEF e
<1> QED
  BY <1>2, <1>3, <1>5, <1>6, SeqEqual DEF e

(* The elements of S in order: those of a set with a new greatest element are *)
(* the old ones and then this one.                                           *)
Rank(S, i) == Cardinality({j \in S : j <= i})
InOrder(a, S) == [n \in 1..Cardinality(S) |-> a[CHOOSE i \in S : Rank(S, i) = n]]

LEMMA InOrderAppended ==
  ASSUME NEW a, NEW S, IsFiniteSet(S), NEW k \in Nat, \A i \in S : i \in Nat /\ i < k
  PROVE  InOrder(a, S \cup {k}) = Append(InOrder(a, S), a[k])
<1> DEFINE T == S \cup {k}
           c == Cardinality(S)
<1>1. c \in Nat /\ Cardinality(T) = c + 1
  <2>1. k \notin S
    OBVIOUS
  <2> QED
    BY <2>1, FS_AddElement, FS_CardinalityType
<1>2. ASSUME NEW i \in S PROVE Rank(T, i) = Rank(S, i) /\ Rank(S, i) \in Nat /\ Rank(S, i) <= c
  <2>1. {j \in T : j <= i} = {j \in S : j <= i}
    OBVIOUS
  <2>2. {j \in S : j <= i} \in SUBSET S
    OBVIOUS
  <2> QED
    BY <2>1, <2>2, FS_Subset, FS_CardinalityType DEF Rank
<1>3. Rank(T, k) = c + 1
  <2>1. {j \in T : j <= k} = T
    OBVIOUS
  <2> QED
    BY <1>1, <2>1 DEF Rank
<1> HIDE DEF T, c
<1>4. ASSUME NEW n \in 1..c
      PROVE  (CHOOSE i \in T : Rank(T, i) = n) = (CHOOSE i \in S : Rank(S, i) = n)
  <2>1. n # c + 1
    BY <1>1
  <2>2. \A i : (i \in T /\ Rank(T, i) = n) <=> (i \in S /\ Rank(S, i) = n)
    BY <1>2, <1>3, <2>1 DEF T
  <2> QED
    BY <2>2
<1>5. (CHOOSE i \in T : Rank(T, i) = c + 1) = k
  <2>1. \A i \in T : Rank(T, i) = c + 1 <=> i = k
    <3>1. \A i \in S : Rank(T, i) # c + 1
      BY <1>1, <1>2
    <3> QED
      BY <1>3, <3>1 DEF T
  <2>2. k \in T
    BY DEF T
  <2> QED
    BY <2>1, <2>2
<1>6. InOrder(a, T) = [n \in 1..c + 1 |-> a[CHOOSE i \in T : Rank(T, i) = n]]
  BY <1>1 DEF InOrder
<1>7. InOrder(a, S) = [n \in 1..c |-> a[CHOOSE i \in S : Rank(S, i) = n]]
  BY DEF InOrder, c
<1> DEFINE longer == InOrder(a, T)
           shorter == InOrder(a, S)
<1>8. /\ Listed(shorter, c)
      /\ Listed(longer, c + 1)
      /\ \A n \in 1..c : longer[n] = shorter[n]
      /\ longer[c + 1] = a[k]
  <2>1. \A n \in 1..c : n \in 1..c + 1
    BY <1>1
  <2>2. c + 1 \in 1..c + 1
    BY <1>1
  <2>3. longer[c + 1] = a[k]
    BY <1>5, <1>6, <2>2
  <2>4. \A n \in 1..c : shorter[n] = a[CHOOSE i \in S : Rank(S, i) = n]
    BY <1>7
  <2>5. \A n \in 1..c : longer[n] = a[CHOOSE i \in T : Rank(T, i) = n]
    BY <1>6, <2>1
  <2>6. \A n \in 1..c : longer[n] = shorter[n]
    BY <1>4, <2>4, <2>5
  <2>7. Listed(longer, c + 1)
    BY <1>6 DEF Listed
  <2>8. Listed(shorter, c)
    BY <1>7 DEF Listed
  <2> HIDE DEF longer, shorter
  <2> QED
    BY <2>3, <2>6, <2>7, <2>8
<1> HIDE DEF longer, shorter
<1>9. longer = Append(shorter, longer[c + 1])
  <2>1. c \in Nat
    BY <1>1
  <2> QED
    BY <1>8, <2>1, Extended
<1> QED
  BY <1>8, <1>9 DEF longer, shorter, T

(* Which words are values.                                                   *)
LEMMA NextIsValue ==
  ASSUME args \in Seq(Line!Words)
  PROVE  /\ ~Line!IsValue(1)
         /\ \A i \in 1..Len(args) :
              Line!IsValue(i + 1) <=> args[i] \in Line!WithValue /\ ~Line!IsValue(i)
<1> DEFINE Others(i) == {0} \cup {j \in 1..i - 1 : args[j] \notin Line!WithValue}
<1>1. \A i : Line!IsValue(i) <=> (i - 1 - Line!Max(Others(i))) % 2 = 1
  BY DEF Line!IsValue
<1>2. ~Line!IsValue(1)
  <2>1. Others(1) = {0}
    OBVIOUS
  <2>2. Line!Max({0}) = 0
    <3>1. {0} \in SUBSET (0..0) /\ {0} # {} /\ 0 \in Nat
      OBVIOUS
    <3> QED
      BY <3>1, MaxFacts
  <2>3. Line!Max(Others(1)) = 0
    BY <2>1, <2>2
  <2>4. Line!IsValue(1) <=> (1 - 1 - Line!Max(Others(1))) % 2 = 1
    BY Zenon DEF Line!IsValue
  <2> HIDE DEF Others
  <2>5. (1 - 1 - 0) % 2 # 1
    OBVIOUS
  <2> QED
    BY <2>3, <2>4, <2>5
<1>3. ASSUME NEW i \in 1..Len(args)
      PROVE  Line!IsValue(i + 1) <=> args[i] \in Line!WithValue /\ ~Line!IsValue(i)
  <2>1. i \in Nat /\ i + 1 - 1 = i
    OBVIOUS
  <2>2. CASE args[i] \in Line!WithValue
    <3>1. Others(i + 1) = Others(i)
      BY <2>1, <2>2
    <3>2. Others(i) \in SUBSET (0..i - 1) /\ Others(i) # {} /\ i - 1 \in Nat
      BY <2>1
    <3> HIDE DEF Others
    <3>3. Line!Max(Others(i)) \in 0..i - 1
      BY <3>2, MaxFacts
    <3>4. \A m \in 0..i - 1 : (i - m) % 2 = 1 <=> (i - 1 - m) % 2 # 1
      BY <2>1
    <3> DEFINE m == Line!Max(Others(i))
    <3>5. Line!IsValue(i) <=> (i - 1 - m) % 2 = 1
      BY <1>1
    <3>6. Line!IsValue(i + 1) <=> (i - m) % 2 = 1
      BY <1>1, <2>1, <3>1
    <3>7. m \in 0..i - 1
      BY <3>3
    <3> HIDE DEF m
    <3> QED
      BY <2>2, <3>4, <3>5, <3>6, <3>7
  <2>3. CASE args[i] \notin Line!WithValue
    <3>1. Others(i + 1) = Others(i) \cup {i}
      BY <2>1, <2>3
    <3>2. \A j \in Others(i) : j \in Nat /\ j < i
      BY <2>1
    <3> HIDE DEF Others
    <3>3. Line!Max(Others(i + 1)) = i
      BY <2>1, <3>1, <3>2, MaxIsNew
    <3> QED
      BY <1>1, <2>1, <2>3, <3>3
  <2> QED
    BY <2>2, <2>3
<1> QED
  BY <1>2, <1>3

(* The places before k, and what they become when the word at k is read: an   *)
(* option with its value, or a word alone.                                   *)
PlacesTo(words, k) == {i \in Line!Places(words) : i < k}
After(k) == IF args[k] \in Line!WithValue THEN k + 2 ELSE k + 1

LEMMA WordRead ==
  ASSUME args \in Seq(Line!Words), NEW k \in 1..Len(args), ~Line!IsValue(k)
  PROVE  /\ After(k) \in Nat /\ k < After(k)
         /\ After(k) <= Len(args) + 1 => ~Line!IsValue(After(k))
         /\ \A words : PlacesTo(words, After(k)) =
              IF args[k] \in words THEN PlacesTo(words, k) \cup {k} ELSE PlacesTo(words, k)
<1> DEFINE n == Len(args)
<1>1. n \in Nat /\ DOMAIN args = 1..n
  BY LenProperties
<1> HIDE DEF n
<1>2. k \in Nat /\ k <= n
  BY <1>1 DEF n
<1>3. Line!IsValue(k + 1) <=> args[k] \in Line!WithValue
  BY NextIsValue
<1>4. k + 1 <= n => (Line!IsValue(k + 2) <=>
                       args[k + 1] \in Line!WithValue /\ ~Line!IsValue(k + 1))
  <2>1. k + 1 <= n => k + 1 \in 1..n
    BY <1>1, <1>2
  <2>2. k + 1 + 1 = k + 2
    BY <1>2
  <2> QED
    BY <2>1, <2>2, NextIsValue DEF n
<1>5. After(k) \in Nat /\ k < After(k)
  BY <1>2 DEF After
<1>6. After(k) <= n + 1 => ~Line!IsValue(After(k))
  <2>1. k + 2 <= n + 1 => k + 1 <= n
    BY <1>1, <1>2
  <2> QED
    BY <1>3, <1>4, <2>1 DEF After
<1>7. ASSUME NEW words, NEW i \in Line!Places(words)
      PROVE  i < After(k) <=> i < k \/ i = k
  <2>1. i \in 1..n /\ ~Line!IsValue(i)
    BY <1>1, <1>7 DEF Line!Places
  <2>2. CASE args[k] \in Line!WithValue
    <3>1. i # k + 1
      BY <1>3, <2>1, <2>2
    <3> QED
      BY <1>2, <2>1, <2>2, <3>1 DEF After
  <2>3. CASE args[k] \notin Line!WithValue
    BY <1>2, <2>1, <2>3 DEF After
  <2> QED
    BY <2>2, <2>3
<1>8. \A words : k \in Line!Places(words) <=> args[k] \in words
  BY <1>1, <1>2 DEF Line!Places
<1>9. \A words : PlacesTo(words, After(k)) =
        IF args[k] \in words THEN PlacesTo(words, k) \cup {k} ELSE PlacesTo(words, k)
  BY <1>2, <1>7, <1>8 DEF PlacesTo
<1> QED
  BY <1>5, <1>6, <1>9 DEF n

LEMMA PlacesToFacts ==
  ASSUME args \in Seq(Line!Words), NEW words, NEW k \in Nat
  PROVE  /\ IsFiniteSet(PlacesTo(words, k))
         /\ PlacesTo(words, k) \in SUBSET (0..Len(args))
         /\ \A i \in PlacesTo(words, k) : i \in Nat /\ i < k /\ i \in Line!Places(words)
         /\ Len(args) < k => PlacesTo(words, k) = Line!Places(words)
         /\ PlacesTo(words, 1) = {}
<1> DEFINE n == Len(args)
<1>1. n \in Nat /\ DOMAIN args = 1..n
  BY LenProperties
<1> HIDE DEF n
<1>2. Line!Places(words) \in SUBSET (1..n)
  BY <1>1 DEF Line!Places
<1>3. PlacesTo(words, k) \in SUBSET (1..n)
  BY <1>2 DEF PlacesTo
<1>4. IsFiniteSet(1..n)
  BY <1>1, FS_Interval
<1>5. IsFiniteSet(PlacesTo(words, k))
  BY <1>3, <1>4, FS_Subset
<1>6. /\ PlacesTo(words, k) \in SUBSET (0..n)
      /\ \A i \in PlacesTo(words, k) : i \in Nat /\ i < k /\ i \in Line!Places(words)
      /\ n < k => PlacesTo(words, k) = Line!Places(words)
      /\ PlacesTo(words, 1) = {}
  BY <1>1, <1>2 DEF PlacesTo
<1> QED
  BY <1>5, <1>6 DEF n

(* The value in force after the words before k.                              *)
ValueAt(option, otherwise, k) ==
  IF PlacesTo({option}, k) = {} THEN otherwise ELSE args[Line!Max(PlacesTo({option}, k)) + 1]

LEMMA ValueRead ==
  ASSUME args \in Seq(Line!Words), NEW k \in 1..Len(args), ~Line!IsValue(k),
         NEW option, NEW otherwise
  PROVE  ValueAt(option, otherwise, After(k)) =
           IF args[k] = option THEN args[k + 1] ELSE ValueAt(option, otherwise, k)
<1>1. k \in Nat
  OBVIOUS
<1>2. CASE args[k] = option
  <2>1. PlacesTo({option}, After(k)) = PlacesTo({option}, k) \cup {k}
    BY <1>2, WordRead
  <2>2. \A i \in PlacesTo({option}, k) : i \in Nat /\ i < k
    BY <1>1, PlacesToFacts
  <2>3. Line!Max(PlacesTo({option}, After(k))) = k
    BY <1>1, <2>1, <2>2, MaxIsNew
  <2> QED
    BY <1>2, <2>1, <2>3 DEF ValueAt
<1>3. CASE args[k] # option
  <2>1. PlacesTo({option}, After(k)) = PlacesTo({option}, k)
    BY <1>3, WordRead
  <2> QED
    BY <1>3, <2>1 DEF ValueAt
<1> QED
  BY <1>2, <1>3

(* The free words before k.                                                  *)
FreeAt(k) == InOrder(args, PlacesTo(Line!Plain, k))

LEMMA FreeRead ==
  ASSUME args \in Seq(Line!Words), NEW k \in 1..Len(args), ~Line!IsValue(k)
  PROVE  FreeAt(After(k)) =
           IF args[k] \in Line!Plain THEN Append(FreeAt(k), args[k]) ELSE FreeAt(k)
<1> DEFINE S == PlacesTo(Line!Plain, k)
<1>1. k \in Nat
  OBVIOUS
<1>2. IsFiniteSet(S) /\ \A i \in S : i \in Nat /\ i < k
  BY <1>1, PlacesToFacts
<1>3. PlacesTo(Line!Plain, After(k)) = IF args[k] \in Line!Plain THEN S \cup {k} ELSE S
  BY WordRead
<1> HIDE DEF S
<1>4. InOrder(args, S \cup {k}) = Append(InOrder(args, S), args[k])
  BY <1>1, <1>2, InOrderAppended
<1> QED
  BY <1>3, <1>4 DEF FreeAt, S

(* What is wrong with a word that is no value.                               *)
LEMMA ErrorAt ==
  ASSUME args \in Seq(Line!Words), NEW k \in 1..Len(args), ~Line!IsValue(k)
  PROVE  k \in Line!Errors <=>
           \/ args[k] \in Line!Unknown
           \/ args[k] \in Line!WithValue /\ k = Len(args)
           \/ /\ args[k] = "--max-steps" /\ k < Len(args)
              /\ Line!ParsePositiveSize(args[k + 1]) = Line!Invalid
<1>1. k \in DOMAIN args
  BY LenProperties
<1> QED
  BY <1>1 DEF Line!Errors, Line!Places

(* What the program knows when it has read the words before index.           *)
Accepted == {"main", "agent", "tools", "usage", "answered", "failed"}

LineTypes ==
  /\ args \in Seq(Line!Words)
  /\ index \in 1..Len(args) + 1
  /\ options = [task |-> options.task, model |-> options.model,
                max_steps |-> options.max_steps, list_tools |-> options.list_tools]
  /\ stage \in {"environment", "arguments", "help", "rejected"} \cup Accepted

Given ==
  IF PlacesTo({"--task"}, index) = {} THEN <<>> ELSE <<ValueAt("--task", "", index)>>

Meant ==
  LET said == Line!LastValue("--task", "")
  IN IF said # "" THEN <<said>> ELSE Line!FreeWords

NoErrorInv ==
  /\ ~Line!EnvironmentIsWrong
  /\ \A i \in 1..index - 1 : i \notin Line!Errors /\ i \notin Line!Places({"--help"})
  /\ index <= Len(args) => ~Line!IsValue(index)

ModelMeant == IF env.model = "" THEN Line!Defaults.model ELSE env.model
StepsMeant(steps) ==
  IF steps = "" THEN Line!Defaults.max_steps ELSE Line!ParsePositiveSize(steps)

ReadInv ==
  /\ options.model = ValueAt("--model", ModelMeant, index)
  /\ options.max_steps = StepsMeant(ValueAt("--max-steps", env.max_steps, index))
  /\ options.max_steps # Line!Invalid
  /\ options.list_tools = (PlacesTo({"--list-tools"}, index) # {})
  /\ positional = FreeAt(index)
  /\ stage \in {"arguments", "help"} => options.task = Given

ReadAllInv ==
  /\ index = Len(args) + 1
  /\ \/ options.task = Meant
     \/ Line!IsEmpty(options.task) /\ Line!IsEmpty(Meant)
  /\ stage = "tools" => options.list_tools
  /\ stage = "usage" => ~options.list_tools /\ Line!IsEmpty(options.task)
  /\ stage \in {"agent", "answered"} => ~options.list_tools /\ ~Line!IsEmpty(options.task)

LineInv ==
  /\ LineTypes
  /\ stage = "environment" => index = 1 /\ options = Line!Defaults /\ positional = <<>>
  /\ stage \notin {"environment", "rejected"} => NoErrorInv /\ ReadInv
  /\ stage = "help" => index \in Line!Places({"--help"})
  /\ stage = "rejected" =>
       \/ Line!EnvironmentIsWrong
       \/ \E i \in Line!Errors : \A j \in Line!Places({"--help"}) : i < j
  /\ stage \in Accepted => ReadAllInv

LEMMA ErrorsAreOptions ==
  /\ Line!Errors \in SUBSET Line!Places(Line!Unknown \cup Line!WithValue)
  /\ \A i \in Line!Errors : i \notin Line!Places({"--help"})
BY DEF Line!Errors, Line!Places, Line!Unknown, Line!WithValue

(* The words and the environment do not change, nor what is drawn from them.  *)
LEMMA LineFrozen ==
  ASSUME UNCHANGED <<args, env>>
  PROVE  /\ Line!Errors' = Line!Errors
         /\ Line!EnvironmentIsWrong' <=> Line!EnvironmentIsWrong
         /\ \A words : Line!Places(words)' = Line!Places(words)
         /\ Line!IsEmpty(Meant)' <=> Line!IsEmpty(Meant)
         /\ Meant' = Meant
         /\ ModelMeant' = ModelMeant
<1>1. /\ Line!Errors' = Line!Errors
      /\ \A words : Line!Places(words)' = Line!Places(words)
  BY DEF Line!Errors, Line!Places, Line!IsValue
<1>2. Line!EnvironmentIsWrong' <=> Line!EnvironmentIsWrong
  BY DEF Line!EnvironmentIsWrong
<1>3. Meant' = Meant
  BY DEF Meant, Line!LastValue, Line!FreeWords, Line!Places, Line!IsValue
<1>4. ModelMeant' = ModelMeant
  BY DEF ModelMeant
<1> QED
  BY <1>1, <1>2, <1>3, <1>4 DEF Line!IsEmpty

(* So what has been read changes with the place reached only.                *)
LEMMA PlaceMoves ==
  ASSUME UNCHANGED <<args, env>>, index' = After(index)
  PROVE  /\ PlacesTo({"--task"}, index)' = PlacesTo({"--task"}, After(index))
         /\ PlacesTo({"--list-tools"}, index)' = PlacesTo({"--list-tools"}, After(index))
         /\ ValueAt("--task", "", index)' = ValueAt("--task", "", After(index))
         /\ ValueAt("--model", ModelMeant, index)'
              = ValueAt("--model", ModelMeant, After(index))
         /\ ValueAt("--max-steps", env.max_steps, index)'
              = ValueAt("--max-steps", env.max_steps, After(index))
         /\ FreeAt(index)' = FreeAt(After(index))
         /\ Line!IsValue(index)' <=> Line!IsValue(After(index))
<1>1. \A words : Line!Places(words)' = Line!Places(words)
  BY LineFrozen
<1>2. ModelMeant' = ModelMeant
  BY LineFrozen
<1>3. /\ PlacesTo({"--task"}, index)' = PlacesTo({"--task"}, After(index))
      /\ PlacesTo({"--list-tools"}, index)' = PlacesTo({"--list-tools"}, After(index))
      /\ PlacesTo({"--model"}, index)' = PlacesTo({"--model"}, After(index))
      /\ PlacesTo({"--max-steps"}, index)' = PlacesTo({"--max-steps"}, After(index))
      /\ PlacesTo(Line!Plain, index)' = PlacesTo(Line!Plain, After(index))
  BY <1>1 DEF PlacesTo
<1>4. Line!IsValue(index)' <=> Line!IsValue(After(index))
  BY DEF Line!IsValue
<1>5. FreeAt(index)' = FreeAt(After(index))
  BY <1>3 DEF FreeAt
<1> QED
  BY <1>2, <1>3, <1>4, <1>5 DEF ValueAt

LEMMA PlaceStays ==
  ASSUME UNCHANGED <<args, env, index>>
  PROVE  /\ PlacesTo({"--task"}, index)' = PlacesTo({"--task"}, index)
         /\ PlacesTo({"--list-tools"}, index)' = PlacesTo({"--list-tools"}, index)
         /\ ValueAt("--task", "", index)' = ValueAt("--task", "", index)
         /\ ValueAt("--model", ModelMeant, index)' = ValueAt("--model", ModelMeant, index)
         /\ ValueAt("--max-steps", env.max_steps, index)'
              = ValueAt("--max-steps", env.max_steps, index)
         /\ FreeAt(index)' = FreeAt(index)
         /\ Line!IsValue(index)' <=> Line!IsValue(index)
<1>1. \A words : Line!Places(words)' = Line!Places(words)
  BY LineFrozen
<1>2. ModelMeant' = ModelMeant
  BY LineFrozen
<1>3. /\ PlacesTo({"--task"}, index)' = PlacesTo({"--task"}, index)
      /\ PlacesTo({"--list-tools"}, index)' = PlacesTo({"--list-tools"}, index)
      /\ PlacesTo({"--model"}, index)' = PlacesTo({"--model"}, index)
      /\ PlacesTo({"--max-steps"}, index)' = PlacesTo({"--max-steps"}, index)
      /\ PlacesTo(Line!Plain, index)' = PlacesTo(Line!Plain, index)
  BY <1>1 DEF PlacesTo
<1>4. Line!IsValue(index)' <=> Line!IsValue(index)
  BY DEF Line!IsValue
<1>5. FreeAt(index)' = FreeAt(index)
  BY <1>3 DEF FreeAt
<1> QED
  BY <1>2, <1>3, <1>4, <1>5 DEF ValueAt

(* A word read without an error: an option with its value, --list-tools or a  *)
(* word of the task.                                                         *)
ReadsWord ==
  /\ stage = "arguments" /\ stage' = "arguments"
  /\ index <= Len(args) /\ index' = After(index) /\ After(index) <= Len(args) + 1
  /\ index \notin Line!Errors /\ args[index] # "--help"
  /\ options' = [task |-> options'.task, model |-> options'.model,
                 max_steps |-> options'.max_steps, list_tools |-> options'.list_tools]
  /\ options'.task = IF args[index] = "--task" THEN <<args[index + 1]>> ELSE options.task
  /\ options'.model = IF args[index] = "--model" THEN args[index + 1] ELSE options.model
  /\ options'.max_steps = IF args[index] = "--max-steps"
                          THEN Line!ParsePositiveSize(args[index + 1])
                          ELSE options.max_steps
  /\ options'.list_tools = (options.list_tools \/ args[index] = "--list-tools")
  /\ positional' = IF args[index] \in Line!Plain THEN Append(positional, args[index])
                   ELSE positional
  /\ UNCHANGED <<args, env>>

LEMMA NoErrorKept ==
  ASSUME LineInv, ReadsWord
  PROVE  NoErrorInv'
<1>1. /\ args \in Seq(Line!Words) /\ index \in 1..Len(args) /\ Len(args) \in Nat
      /\ NoErrorInv /\ UNCHANGED <<args, env>> /\ index' = After(index)
      /\ After(index) <= Len(args) + 1 /\ index \notin Line!Errors
      /\ args[index] # "--help"
  <2>1. index \in 1..Len(args) + 1 /\ index <= Len(args) /\ args \in Seq(Line!Words)
    BY DEF LineInv, LineTypes, ReadsWord
  <2>2. Len(args) \in Nat
    BY <2>1
  <2> QED
    BY <2>1, <2>2 DEF LineInv, ReadsWord, Accepted
<1>2. ~Line!IsValue(index)
  BY <1>1 DEF NoErrorInv
<1>3. ASSUME NEW i \in 1..After(index) - 1
      PROVE  i \notin Line!Errors /\ i \notin Line!Places({"--help"})
  <2> DEFINE opts == Line!Unknown \cup Line!WithValue \cup {"--help"}
  <2>1. Line!Errors \subseteq Line!Places(opts) /\ Line!Places({"--help"}) \subseteq Line!Places(opts)
    BY ErrorsAreOptions DEF Line!Places
  <2>2. PlacesTo(opts, After(index)) \subseteq PlacesTo(opts, index) \cup {index}
    BY <1>1, <1>2, WordRead
  <2>3. index \notin Line!Places({"--help"})
    BY <1>1 DEF Line!Places
  <2> HIDE DEF opts
  <2>4. After(index) \in Nat /\ i < After(index) /\ i \in Nat /\ i >= 1
    BY <1>1, <1>2, WordRead
  <2>5. i \in Line!Places(opts) => i \in PlacesTo(opts, After(index))
    BY <2>4 DEF PlacesTo
  <2>6. i \in Line!Places(opts) => i = index \/ i \in 1..index - 1
    BY <1>1, <2>2, <2>4, <2>5 DEF PlacesTo
  <2> QED
    BY <1>1, <2>1, <2>3, <2>6 DEF NoErrorInv
<1>4. After(index) <= Len(args) + 1 => ~Line!IsValue(After(index))
  BY <1>1, <1>2, WordRead
<1>5. /\ Line!Errors' = Line!Errors /\ (Line!EnvironmentIsWrong' <=> Line!EnvironmentIsWrong)
      /\ Line!Places({"--help"})' = Line!Places({"--help"})
      /\ (Line!IsValue(index)' <=> Line!IsValue(After(index)))
  BY <1>1, LineFrozen, PlaceMoves
<1>6. ~Line!EnvironmentIsWrong
  BY <1>1 DEF NoErrorInv
<1>7. index' <= Len(args') => ~Line!IsValue(index)'
  BY <1>1, <1>4, <1>5
<1>8. \A i \in 1..index' - 1 : i \notin Line!Errors' /\ i \notin Line!Places({"--help"})'
  BY <1>1, <1>3, <1>5
<1> QED
  BY <1>5, <1>6, <1>7, <1>8 DEF NoErrorInv

LEMMA ReadKept ==
  ASSUME LineInv, ReadsWord
  PROVE  ReadInv'
<1>1. /\ args \in Seq(Line!Words) /\ index \in 1..Len(args)
      /\ ReadInv /\ UNCHANGED <<args, env>> /\ index' = After(index)
      /\ ~Line!IsValue(index) /\ index \notin Line!Errors
      /\ stage = "arguments" /\ stage' = "arguments" /\ After(index) <= Len(args) + 1
  <2>1. index \in 1..Len(args) + 1 /\ index <= Len(args) /\ args \in Seq(Line!Words)
    BY DEF LineInv, LineTypes, ReadsWord
  <2>2. Len(args) \in Nat
    BY <2>1
  <2> QED
    BY <2>1, <2>2 DEF LineInv, ReadsWord, NoErrorInv
<1>2. \A option, otherwise :
        ValueAt(option, otherwise, After(index)) =
          IF args[index] = option THEN args[index + 1] ELSE ValueAt(option, otherwise, index)
  BY <1>1, ValueRead
<1>3. ModelMeant' = ModelMeant
  BY <1>1, LineFrozen
<1>4. options'.model = ValueAt("--model", ModelMeant, index)'
  BY <1>1, <1>2, PlaceMoves DEF ReadInv, ReadsWord
<1>5. args[index] = "--max-steps" =>
        /\ args[index + 1] # ""
        /\ Line!ParsePositiveSize(args[index + 1]) # Line!Invalid
  <2> SUFFICES ASSUME args[index] = "--max-steps"
               PROVE  /\ args[index + 1] # ""
                      /\ Line!ParsePositiveSize(args[index + 1]) # Line!Invalid
    OBVIOUS
  <2>1. index < Len(args)
    <3>1. Len(args) \in Nat /\ index \in Nat
      BY <1>1
    <3>2. index + 2 <= Len(args) + 1
      BY <1>1 DEF After, Line!WithValue
    <3> QED
      BY <3>1, <3>2
  <2>2. Line!ParsePositiveSize(args[index + 1]) # Line!Invalid
    BY <1>1, <2>1, ErrorAt
  <2>3. Line!ParsePositiveSize("") = Line!Invalid
    BY DEF Line!ParsePositiveSize, Line!Number
  <2> QED
    BY <2>2, <2>3
<1>6. /\ options'.max_steps = StepsMeant(ValueAt("--max-steps", env.max_steps, index))'
      /\ options'.max_steps # Line!Invalid
  <2>1. ValueAt("--max-steps", env.max_steps, index)' =
          IF args[index] = "--max-steps" THEN args[index + 1]
          ELSE ValueAt("--max-steps", env.max_steps, index)
    BY <1>1, <1>2, PlaceMoves
  <2>2. options'.max_steps = IF args[index] = "--max-steps"
                             THEN Line!ParsePositiveSize(args[index + 1])
                             ELSE options.max_steps
    BY DEF ReadsWord
  <2>3. /\ options.max_steps = StepsMeant(ValueAt("--max-steps", env.max_steps, index))
        /\ options.max_steps # Line!Invalid
    BY <1>1 DEF ReadInv
  <2> QED
    BY <1>5, <2>1, <2>2, <2>3 DEF StepsMeant, Line!ParsePositiveSize, Line!Invalid
<1>7. options'.list_tools = (PlacesTo({"--list-tools"}, index)' # {})
  <2>1. PlacesTo({"--list-tools"}, After(index)) =
          IF args[index] = "--list-tools" THEN PlacesTo({"--list-tools"}, index) \cup {index}
          ELSE PlacesTo({"--list-tools"}, index)
    BY <1>1, WordRead
  <2>2. PlacesTo({"--list-tools"}, index)' = PlacesTo({"--list-tools"}, After(index))
    BY <1>1, PlaceMoves
  <2>3. options'.list_tools = (options.list_tools \/ args[index] = "--list-tools")
    BY DEF ReadsWord
  <2>4. options.list_tools = (PlacesTo({"--list-tools"}, index) # {})
    BY <1>1 DEF ReadInv
  <2> QED
    BY <2>1, <2>2, <2>3, <2>4
<1>8. positional' = FreeAt(index)'
  BY <1>1, FreeRead, PlaceMoves DEF ReadInv, ReadsWord
<1>9. options'.task = Given'
  <2>1. PlacesTo({"--task"}, After(index)) =
          IF args[index] = "--task" THEN PlacesTo({"--task"}, index) \cup {index}
          ELSE PlacesTo({"--task"}, index)
    BY <1>1, WordRead
  <2>2. Given' = IF PlacesTo({"--task"}, After(index)) = {} THEN <<>>
                 ELSE <<ValueAt("--task", "", After(index))>>
    BY <1>1, PlaceMoves DEF Given
  <2>3. options.task = Given
    BY <1>1 DEF ReadInv
  <2>4. options'.task = IF args[index] = "--task" THEN <<args[index + 1]>> ELSE options.task
    BY DEF ReadsWord
  <2> QED
    BY <1>2, <2>1, <2>2, <2>3, <2>4 DEF Given
<1> QED
  BY <1>3, <1>4, <1>6, <1>7, <1>8, <1>9 DEF ReadInv

LEMMA ReadStep ==
  ASSUME LineInv, ReadsWord
  PROVE  LineInv'
<1>1. LineTypes'
  <2>1. After(index) \in Nat /\ After(index) >= 1
    BY DEF LineInv, LineTypes, ReadsWord, After
  <2>2. index' \in 1..Len(args') + 1
    BY <2>1 DEF LineInv, LineTypes, ReadsWord
  <2> QED
    BY <2>2 DEF LineInv, LineTypes, ReadsWord
<1>2. stage' = "arguments"
  BY DEF ReadsWord
<1> QED
  BY <1>1, <1>2, NoErrorKept, ReadKept DEF LineInv, Accepted

LEMMA LineInitially ==
  ASSUME Line!Init
  PROVE  LineInv
<1>1. PICK n \in 0..MaxArgs : args \in [1..n -> Line!Words]
  BY DEF Line!Init
<1>2. n \in Nat
  BY LineAssumption
<1>3. args \in Seq(Line!Words)
  BY <1>1, <1>2, SeqDef
<1>4. Len(args) \in Nat
  BY <1>3
<1>5. /\ index = 1 /\ options = Line!Defaults /\ positional = <<>> /\ stage = "environment"
  BY DEF Line!Init
<1>6. LineTypes
  BY <1>3, <1>4, <1>5 DEF LineTypes, Line!Defaults
<1> QED
  BY <1>5, <1>6 DEF LineInv, Accepted

(* The environment gives what no option has given yet.                       *)
LEMMA EnvironmentStep ==
  ASSUME LineInv, Line!ReadEnvironment
  PROVE  LineInv'
<1>1. /\ args \in Seq(Line!Words) /\ index = 1 /\ options = Line!Defaults
      /\ positional = <<>> /\ stage = "environment"
      /\ UNCHANGED <<args, env, index, positional>>
  BY DEF LineInv, LineTypes, Line!ReadEnvironment, Line!End
<1>2. CASE Line!EnvironmentIsWrong
  <2>1. stage' = "rejected" /\ UNCHANGED options
    BY <1>2 DEF Line!ReadEnvironment, Line!EnvironmentIsWrong, Line!End
  <2>2. Line!EnvironmentIsWrong'
    BY <1>1, <1>2, LineFrozen
  <2>3. LineTypes'
    BY <1>1, <2>1 DEF LineInv, LineTypes
  <2> QED
    BY <2>1, <2>2, <2>3 DEF LineInv, Accepted
<1>3. CASE ~Line!EnvironmentIsWrong
  <2>1. /\ stage' = "arguments"
        /\ options' = [options EXCEPT
                         !.model = IF env.model = "" THEN @ ELSE env.model,
                         !.max_steps = IF env.max_steps = "" THEN @
                                       ELSE Line!ParsePositiveSize(env.max_steps)]
    BY <1>3 DEF Line!ReadEnvironment, Line!EnvironmentIsWrong
  <2>2. /\ options' = [task |-> options'.task, model |-> options'.model,
                       max_steps |-> options'.max_steps, list_tools |-> options'.list_tools]
        /\ options'.task = <<>> /\ options'.list_tools = FALSE
        /\ options'.model = ModelMeant
        /\ options'.max_steps = StepsMeant(env.max_steps)
    BY <1>1, <2>1 DEF Line!Defaults, ModelMeant, StepsMeant
  <2>3. \A words : PlacesTo(words, index) = {}
    BY <1>1, PlacesToFacts
  <2>4. /\ ValueAt("--model", ModelMeant, index) = ModelMeant
        /\ ValueAt("--max-steps", env.max_steps, index) = env.max_steps
    BY <2>3 DEF ValueAt
  <2>5. FreeAt(index) = <<>>
    <3>1. Cardinality({}) = 0 /\ 1..0 = {}
      BY FS_EmptySet
    <3>2. InOrder(args, {}) = <<>>
      BY <3>1 DEF InOrder
    <3> QED
      BY <2>3, <3>2 DEF FreeAt
  <2>6. options'.max_steps # Line!Invalid
    <3>1. CASE env.max_steps = ""
      <4>1. options'.max_steps = Line!Defaults.max_steps
        BY <2>2, <3>1 DEF StepsMeant
      <4> QED
        BY <4>1 DEF Line!Defaults, Line!Invalid
    <3>2. CASE env.max_steps # ""
      <4>1. options'.max_steps = Line!ParsePositiveSize(env.max_steps)
        BY <2>2, <3>2 DEF StepsMeant
      <4> QED
        BY <1>3, <3>2, <4>1 DEF Line!EnvironmentIsWrong
    <3> QED
      BY <3>1, <3>2
  <2>7. ReadInv'
    <3>1. ModelMeant' = ModelMeant
      BY <1>1, LineFrozen
    <3>2. /\ PlacesTo({"--task"}, index)' = {}
          /\ PlacesTo({"--list-tools"}, index)' = {}
          /\ ValueAt("--model", ModelMeant, index)' = ModelMeant
          /\ ValueAt("--max-steps", env.max_steps, index)' = env.max_steps
          /\ FreeAt(index)' = <<>>
      BY <1>1, <2>3, <2>4, <2>5, PlaceStays
    <3>3. Given' = <<>>
      BY <3>2 DEF Given
    <3>4. StepsMeant(env.max_steps') = StepsMeant(env.max_steps)
      BY <1>1
    <3>5. options'.max_steps = StepsMeant(ValueAt("--max-steps", env.max_steps, index))'
      BY <2>2, <3>2 DEF StepsMeant, Line!ParsePositiveSize
    <3> QED
      BY <1>1, <2>2, <2>6, <3>1, <3>2, <3>3, <3>5 DEF ReadInv
  <2>8. NoErrorInv'
    <3>1. ~Line!IsValue(1)
      BY <1>1, NextIsValue
    <3>2. Line!IsValue(index)' <=> Line!IsValue(index)
      BY <1>1, PlaceStays
    <3>3. ~Line!EnvironmentIsWrong'
      BY <1>1, <1>3, LineFrozen
    <3>4. 1..index' - 1 = {}
      BY <1>1
    <3> QED
      BY <1>1, <3>1, <3>2, <3>3, <3>4 DEF NoErrorInv
  <2>9. LineTypes'
    BY <1>1, <2>1, <2>2 DEF LineInv, LineTypes
  <2> QED
    BY <2>1, <2>7, <2>8, <2>9 DEF LineInv, Accepted
<1> QED
  BY <1>2, <1>3

(* The word at index, which is no value.                                     *)
LEMMA NextWord ==
  ASSUME LineInv, NEW words, Line!NextIs(words)
  PROVE  /\ args \in Seq(Line!Words) /\ Len(args) \in Nat /\ index \in 1..Len(args)
         /\ stage = "arguments" /\ args[index] \in words /\ ~Line!IsValue(index)
         /\ index \in Line!Places(words)
         /\ NoErrorInv /\ ReadInv
<1>1. /\ args \in Seq(Line!Words) /\ index \in 1..Len(args) + 1 /\ index <= Len(args)
      /\ stage = "arguments" /\ args[index] \in words
  BY DEF LineInv, LineTypes, Line!NextIs
<1>2. Len(args) \in Nat /\ DOMAIN args = 1..Len(args)
  BY <1>1
<1>3. index \in 1..Len(args)
  BY <1>1, <1>2
<1>4. NoErrorInv /\ ReadInv
  BY <1>1 DEF LineInv
<1> QED
  BY <1>1, <1>2, <1>3, <1>4 DEF NoErrorInv, Line!Places

(* The program ends over an error: no --help came before it.                 *)
LEMMA RejectStep ==
  ASSUME LineInv, stage = "arguments", index \in Line!Errors, Line!End("rejected")
  PROVE  LineInv'
<1>1. NoErrorInv /\ LineTypes
  BY DEF LineInv
<1>2. /\ stage' = "rejected" /\ UNCHANGED <<args, env, index, options, positional>>
  BY DEF Line!End
<1>3. \A j \in Line!Places({"--help"}) : index < j
  <2> SUFFICES ASSUME NEW j \in Line!Places({"--help"}) PROVE index < j
    OBVIOUS
  <2>1. j \in DOMAIN args /\ DOMAIN args = 1..Len(args)
    BY <1>1 DEF LineTypes, Line!Places
  <2>2. index \in Nat /\ j \in Nat /\ j >= 1
    BY <1>1, <2>1 DEF LineTypes
  <2>3. j # index
    BY ErrorsAreOptions
  <2>4. ~(j \in 1..index - 1)
    BY <1>1 DEF NoErrorInv
  <2> QED
    BY <2>2, <2>3, <2>4
<1>4. \E i \in Line!Errors' : \A j \in Line!Places({"--help"})' : i < j
  BY <1>2, <1>3, LineFrozen
<1>5. LineTypes'
  BY <1>1, <1>2 DEF LineTypes
<1> QED
  BY <1>2, <1>4, <1>5 DEF LineInv, Accepted

LEMMA WordsDiffer ==
  /\ Line!WithValue \cap Line!Unknown = {} /\ Line!WithValue \cap Line!Plain = {}
  /\ Line!Unknown \cap Line!Plain = {}
  /\ \A w \in Line!WithValue \cup Line!Unknown \cup Line!Plain :
       w # "--help" /\ w # "--list-tools"
BY DEF Line!WithValue, Line!Unknown, Line!Plain

LEMMA ListToolsReads ==
  ASSUME LineInv, Line!ListTools
  PROVE  ReadsWord
<1>1. Line!NextIs({"--list-tools"})
  BY DEF Line!ListTools
<1>2. /\ args \in Seq(Line!Words) /\ index \in 1..Len(args) /\ stage = "arguments"
      /\ args[index] = "--list-tools" /\ ~Line!IsValue(index) /\ Len(args) \in Nat
      /\ ReadInv /\ LineTypes
  BY <1>1, NextWord DEF LineInv
<1>3. args[index] \notin Line!WithValue \cup Line!Unknown \cup Line!Plain
  BY <1>2, WordsDiffer
<1>4. After(index) = index + 1 /\ After(index) <= Len(args) + 1
  BY <1>2, <1>3 DEF After
<1>5. index \notin Line!Errors
  BY <1>2, <1>3, ErrorAt
<1>6. /\ options' = [options EXCEPT !.list_tools = TRUE] /\ index' = index + 1
      /\ UNCHANGED <<args, env, positional, stage>>
  BY DEF Line!ListTools
<1>7. /\ options' = [task |-> options.task, model |-> options.model,
                     max_steps |-> options.max_steps, list_tools |-> TRUE]
  BY <1>2, <1>6 DEF LineTypes
<1>8. /\ options'.task = options.task /\ options'.model = options.model
      /\ options'.max_steps = options.max_steps
      /\ options'.list_tools = (options.list_tools \/ args[index] = "--list-tools")
      /\ options' = [task |-> options'.task, model |-> options'.model,
                     max_steps |-> options'.max_steps, list_tools |-> options'.list_tools]
  BY <1>2, <1>7
<1>9. /\ args[index] # "--task" /\ args[index] # "--model" /\ args[index] # "--max-steps"
      /\ args[index] # "--help" /\ args[index] \notin Line!Plain
  BY <1>2, <1>3
<1>10. /\ stage = "arguments" /\ stage' = "arguments" /\ index <= Len(args)
       /\ index' = After(index) /\ UNCHANGED <<args, env, positional>>
  BY <1>2, <1>4, <1>6
<1> HIDE DEF After
<1> QED
  BY <1>4, <1>5, <1>8, <1>9, <1>10 DEF ReadsWord

LEMMA PositionalReads ==
  ASSUME LineInv, Line!TakePositional
  PROVE  ReadsWord
<1>1. Line!NextIs(Line!Plain)
  BY DEF Line!TakePositional
<1>2. /\ args \in Seq(Line!Words) /\ index \in 1..Len(args) /\ stage = "arguments"
      /\ args[index] \in Line!Plain /\ ~Line!IsValue(index) /\ Len(args) \in Nat
      /\ ReadInv /\ LineTypes
  BY <1>1, NextWord DEF LineInv
<1>3. /\ args[index] \notin Line!WithValue \cup Line!Unknown
      /\ args[index] # "--help" /\ args[index] # "--list-tools"
  BY <1>2, WordsDiffer
<1>4. After(index) = index + 1 /\ After(index) <= Len(args) + 1
  BY <1>2, <1>3 DEF After
<1>5. args[index] # "--max-steps" /\ args[index] # "--task" /\ args[index] # "--model"
  BY <1>3 DEF Line!WithValue
<1>6. index \notin Line!Errors
  BY <1>2, <1>3, <1>5, ErrorAt
<1>7. /\ positional' = Append(positional, args[index]) /\ index' = index + 1
      /\ UNCHANGED <<args, env, options, stage>>
  BY DEF Line!TakePositional
<1>8. options.list_tools \in BOOLEAN
  BY <1>2 DEF ReadInv
<1> QED
  BY <1>2, <1>3, <1>4, <1>5, <1>6, <1>7, <1>8 DEF ReadsWord, LineTypes

(* An option is set from its value, or the value is no number of steps.      *)
LEMMA ValueStep ==
  ASSUME LineInv, Line!TakeValue
  PROVE  LineInv'
<1> DEFINE value == args[index + 1]
           set == CASE args[index] = "--task" -> [options EXCEPT !.task = <<value>>]
                    [] args[index] = "--model" -> [options EXCEPT !.model = value]
                    [] OTHER -> [options EXCEPT !.max_steps = Line!ParsePositiveSize(value)]
<1>1. Line!NextIs(Line!WithValue) /\ index < Len(args)
  BY DEF Line!TakeValue
<1>2. /\ args \in Seq(Line!Words) /\ index \in 1..Len(args) /\ stage = "arguments"
      /\ args[index] \in Line!WithValue /\ ~Line!IsValue(index) /\ Len(args) \in Nat
      /\ ReadInv /\ LineTypes
  BY <1>1, NextWord DEF LineInv
<1>3. /\ set.max_steps = Line!Invalid => Line!End("rejected")
      /\ set.max_steps # Line!Invalid =>
           options' = set /\ index' = index + 2 /\ UNCHANGED <<args, env, positional, stage>>
  BY Zenon DEF Line!TakeValue
<1>4. args[index] \in {"--task", "--model", "--max-steps"}
  BY <1>2 DEF Line!WithValue
<1>5. /\ set = [task |-> set.task, model |-> set.model,
                max_steps |-> set.max_steps, list_tools |-> set.list_tools]
      /\ set.task = IF args[index] = "--task" THEN <<value>> ELSE options.task
      /\ set.model = IF args[index] = "--model" THEN value ELSE options.model
      /\ set.max_steps = IF args[index] = "--max-steps" THEN Line!ParsePositiveSize(value)
                         ELSE options.max_steps
      /\ set.list_tools = options.list_tools
  <2> DEFINE o == options
             p == Line!ParsePositiveSize(value)
  <2>1. o = [task |-> o.task, model |-> o.model, max_steps |-> o.max_steps,
             list_tools |-> o.list_tools]
    BY <1>2 DEF LineTypes
  <2> HIDE DEF o, value, p
  <2>2. set = CASE args[index] = "--task" -> [o EXCEPT !.task = <<value>>]
                [] args[index] = "--model" -> [o EXCEPT !.model = value]
                [] OTHER -> [o EXCEPT !.max_steps = p]
    BY DEF o, p
  <2>3. CASE args[index] = "--task"
    BY <2>1, <2>2, <2>3 DEF o
  <2>4. CASE args[index] = "--model"
    BY <2>1, <2>2, <2>4 DEF o
  <2>5. CASE args[index] = "--max-steps"
    BY <2>1, <2>2, <2>5 DEF o, p
  <2> QED
    BY <1>4, <2>3, <2>4, <2>5
<1> HIDE DEF set
<1>6. CASE set.max_steps = Line!Invalid
  <2>1. args[index] = "--max-steps" /\ Line!ParsePositiveSize(value) = Line!Invalid
    BY <1>2, <1>5, <1>6 DEF ReadInv
  <2>2. index \in Line!Errors
    BY <1>1, <1>2, <2>1, ErrorAt
  <2> QED
    BY <1>2, <1>3, <1>6, <2>2, RejectStep
<1>7. CASE set.max_steps # Line!Invalid
  <2>1. After(index) = index + 2 /\ After(index) <= Len(args) + 1
    BY <1>1, <1>2 DEF After
  <2>2. /\ args[index] \notin Line!Unknown /\ args[index] \notin Line!Plain
        /\ args[index] # "--help" /\ args[index] # "--list-tools"
    BY <1>2, WordsDiffer
  <2>3. index \notin Line!Errors
    BY <1>1, <1>2, <1>5, <1>7, <2>2, ErrorAt
  <2>4. options' = set /\ index' = index + 2 /\ UNCHANGED <<args, env, positional, stage>>
    BY <1>3, <1>7
  <2>5. options.list_tools \in BOOLEAN
    BY <1>2 DEF ReadInv
  <2>6. ReadsWord
    BY <1>2, <1>5, <2>1, <2>2, <2>3, <2>4, <2>5 DEF ReadsWord
  <2> QED
    BY <2>6, ReadStep
<1> QED
  BY <1>6, <1>7

(* The last words are read: the task is settled.                             *)
LEMMA AllRead ==
  ASSUME args \in Seq(Line!Words), index = Len(args) + 1
  PROVE  /\ \A words : PlacesTo(words, index) = Line!Places(words)
         /\ FreeAt(index) = Line!FreeWords
         /\ \A option, otherwise :
              ValueAt(option, otherwise, index) = Line!LastValue(option, otherwise)
<1>1. Len(args) \in Nat
  OBVIOUS
<1>2. index \in Nat /\ Len(args) < index
  BY <1>1
<1>3. \A words : PlacesTo(words, index) = Line!Places(words)
  BY <1>2, PlacesToFacts
<1>4. FreeAt(index) = InOrder(args, Line!Places(Line!Plain))
  BY <1>3 DEF FreeAt
<1>5. InOrder(args, Line!Places(Line!Plain)) = Line!FreeWords
  <2>1. \A S : Line!Cardinality(S) = Cardinality(S)
    BY DEF Line!Cardinality, Cardinality
  <2> DEFINE free == Line!Places(Line!Plain)
  <2>2. Line!FreeWords =
          [n \in 1..Line!Cardinality(free) |->
             args[CHOOSE i \in free : Line!Cardinality({j \in free : j <= i}) = n]]
    BY Zenon DEF Line!FreeWords
  <2> HIDE DEF free
  <2> DEFINE Theirs(n) == CHOOSE i \in free : Line!Cardinality({j \in free : j <= i}) = n
             Ours(n) == CHOOSE i \in free : Rank(free, i) = n
  <2>3. ASSUME NEW n PROVE Theirs(n) = Ours(n)
    <3>1. \A i : (i \in free /\ Line!Cardinality({j \in free : j <= i}) = n)
                  <=> (i \in free /\ Rank(free, i) = n)
      BY <2>1 DEF Rank
    <3> QED
      BY <3>1
  <2>4. Line!FreeWords = [n \in 1..Line!Cardinality(free) |-> args[Theirs(n)]]
    BY <2>2
  <2>5. InOrder(args, free) = [n \in 1..Cardinality(free) |-> args[Ours(n)]]
    BY Zenon DEF InOrder
  <2> HIDE DEF Theirs, Ours
  <2>6. Line!FreeWords = InOrder(args, free)
    BY <2>1, <2>3, <2>4, <2>5
  <2> QED
    BY <2>6 DEF free
<1>6. \A option, otherwise :
        ValueAt(option, otherwise, index) = Line!LastValue(option, otherwise)
  BY <1>3 DEF ValueAt, Line!LastValue
<1> QED
  BY <1>3, <1>4, <1>5, <1>6

LEMMA EndOfArgumentsStep ==
  ASSUME LineInv, Line!EndOfArguments
  PROVE  LineInv'
<1>1. /\ args \in Seq(Line!Words) /\ index = Len(args) + 1 /\ stage = "arguments"
      /\ NoErrorInv /\ ReadInv /\ LineTypes /\ Len(args) \in Nat
  <2>1. args \in Seq(Line!Words) /\ index \in 1..Len(args) + 1 /\ index > Len(args)
    BY DEF LineInv, LineTypes, Line!EndOfArguments
  <2>2. Len(args) \in Nat
    BY <2>1
  <2> QED
    BY <2>1, <2>2 DEF LineInv, Line!EndOfArguments
<1>2. /\ stage' = "main" /\ UNCHANGED <<args, env, index, positional>>
      /\ options' = [options EXCEPT !.task =
                       IF Line!IsEmpty(@) /\ positional # <<>> THEN positional ELSE @]
  BY DEF Line!EndOfArguments
<1>3. /\ options' = [task |-> options'.task, model |-> options.model,
                     max_steps |-> options.max_steps, list_tools |-> options.list_tools]
      /\ options'.task = IF Line!IsEmpty(options.task) /\ positional # <<>>
                         THEN positional ELSE options.task
  BY <1>1, <1>2 DEF LineTypes
<1>4. \/ options'.task = Meant
      \/ Line!IsEmpty(options'.task) /\ Line!IsEmpty(Meant)
  <2> DEFINE said == Line!LastValue("--task", "")
             free == Line!FreeWords
  <2>1. positional = free
    BY <1>1, AllRead DEF ReadInv
  <2>2. options.task = IF Line!Places({"--task"}) = {} THEN <<>> ELSE <<said>>
    BY <1>1, AllRead DEF ReadInv, Given
  <2>3. Line!Places({"--task"}) = {} => said = ""
    BY DEF Line!LastValue
  <2>4. Meant = IF said # "" THEN <<said>> ELSE free
    BY DEF Meant
  <2> HIDE DEF said, free
  <2>5. CASE said # ""
    <3>1. options.task = <<said>> /\ Meant = <<said>>
      BY <2>2, <2>3, <2>4, <2>5
    <3>2. ~Line!IsEmpty(<<said>>)
      BY <2>5 DEF Line!IsEmpty
    <3> QED
      BY <1>3, <3>1, <3>2
  <2>6. CASE said = ""
    <3>1. Meant = free /\ Line!IsEmpty(options.task)
      BY <2>2, <2>4, <2>6 DEF Line!IsEmpty
    <3>2. free = <<>> => Line!IsEmpty(free)
      BY DEF Line!IsEmpty
    <3> QED
      BY <1>3, <2>1, <3>1, <3>2
  <2> QED
    BY <2>5, <2>6
<1>5. LineTypes'
  BY <1>1, <1>2, <1>3 DEF LineTypes, Accepted
<1>6. NoErrorInv'
  BY <1>1, <1>2, LineFrozen, PlaceStays DEF NoErrorInv
<1>7. ReadInv'
  <2>1. options'.max_steps = StepsMeant(ValueAt("--max-steps", env.max_steps, index))'
    BY <1>1, <1>2, <1>3, PlaceStays DEF ReadInv, StepsMeant, Line!ParsePositiveSize
  <2> QED
    BY <1>1, <1>2, <1>3, <2>1, LineFrozen, PlaceStays DEF ReadInv
<1>8. ReadAllInv'
  <2>1. Meant' = Meant
    BY <1>2, LineFrozen
  <2>2. Line!IsEmpty(options.task)' <=> Line!IsEmpty(options'.task)
    BY DEF Line!IsEmpty
  <2>3. Line!IsEmpty(Meant)' <=> Line!IsEmpty(Meant)
    BY <1>2, LineFrozen
  <2> QED
    BY <1>1, <1>2, <1>4, <2>1, <2>2, <2>3 DEF ReadAllInv
<1> QED
  BY <1>2, <1>5, <1>6, <1>7, <1>8 DEF LineInv, Accepted

(* An end changes nothing but the stage.                                     *)
LEMMA EndStep ==
  ASSUME LineInv, UNCHANGED <<args, env, index, options, positional>>,
         stage \notin {"environment", "rejected"},
         stage' \in {"arguments", "help"} \cup Accepted,
         stage' \in {"arguments", "help"} => stage \in {"arguments", "help"},
         stage' = "help" => index \in Line!Places({"--help"}),
         stage' \in Accepted => ReadAllInv'
  PROVE  LineInv'
<1>1. LineTypes /\ NoErrorInv /\ ReadInv
  BY DEF LineInv
<1>2. LineTypes'
  BY <1>1 DEF LineTypes
<1>3. NoErrorInv'
  BY <1>1, LineFrozen, PlaceStays DEF NoErrorInv
<1>4. ReadInv'
  <2>1. options'.max_steps = StepsMeant(ValueAt("--max-steps", env.max_steps, index))'
    BY <1>1, PlaceStays DEF ReadInv, StepsMeant, Line!ParsePositiveSize
  <2>2. Given' = Given
    BY PlaceStays DEF Given
  <2> QED
    BY <1>1, <2>1, <2>2, LineFrozen, PlaceStays DEF ReadInv
<1>5. stage' = "help" => index' \in Line!Places({"--help"})'
  BY LineFrozen
<1>6. stage' # "environment" /\ stage' # "rejected"
  BY DEF Accepted
<1> QED
  BY <1>2, <1>3, <1>4, <1>5, <1>6 DEF LineInv

(* What is left of ReadAllInv once the line is read is said of its end.       *)
LEMMA ReadAllKept ==
  ASSUME LineInv, stage \in Accepted, UNCHANGED <<args, env, index, options, positional>>,
         stage' = "tools" => options.list_tools,
         stage' = "usage" => ~options.list_tools /\ Line!IsEmpty(options.task),
         stage' \in {"agent", "answered"} =>
           ~options.list_tools /\ ~Line!IsEmpty(options.task)
  PROVE  ReadAllInv'
<1>1. ReadAllInv
  BY DEF LineInv
<1>2. Meant' = Meant /\ (Line!IsEmpty(Meant)' <=> Line!IsEmpty(Meant))
  BY LineFrozen
<1>3. Line!IsEmpty(options.task)' <=> Line!IsEmpty(options.task)
  BY DEF Line!IsEmpty
<1> QED
  BY <1>1, <1>2, <1>3 DEF ReadAllInv

LEMMA LinePreserved ==
  ASSUME LineInv, [Line!Next]_(Line!vars)
  PROVE  LineInv'
<1>1. CASE Line!ReadEnvironment
  BY <1>1, EnvironmentStep
<1>2. CASE Line!Help
  <2>1. Line!NextIs({"--help"}) /\ Line!End("help")
    BY <1>2 DEF Line!Help
  <2>2. stage = "arguments" /\ index \in Line!Places({"--help"})
    BY <2>1, NextWord
  <2> QED
    BY <2>1, <2>2, EndStep DEF Line!End, Accepted
<1>3. CASE Line!ListTools
  BY <1>3, ListToolsReads, ReadStep
<1>4. CASE Line!TakeValue
  BY <1>4, ValueStep
<1>5. CASE Line!MissingValue
  <2>1. Line!NextIs(Line!WithValue) /\ index = Len(args) /\ Line!End("rejected")
    BY <1>5 DEF Line!MissingValue
  <2>2. stage = "arguments" /\ index \in Line!Errors
    BY <2>1, NextWord, ErrorAt
  <2> QED
    BY <2>1, <2>2, RejectStep
<1>6. CASE Line!UnknownOption
  <2>1. Line!NextIs(Line!Unknown) /\ Line!End("rejected")
    BY <1>6 DEF Line!UnknownOption
  <2>2. stage = "arguments" /\ index \in Line!Errors
    BY <2>1, NextWord, ErrorAt
  <2> QED
    BY <2>1, <2>2, RejectStep
<1>7. CASE Line!TakePositional
  BY <1>7, PositionalReads, ReadStep
<1>8. CASE Line!EndOfArguments
  BY <1>8, EndOfArgumentsStep
<1>9. CASE Line!StartFails
  <2>1. stage = "main" /\ stage' = "failed"
        /\ UNCHANGED <<args, env, index, options, positional>>
    BY <1>9 DEF Line!StartFails, Line!End
  <2> QED
    BY <2>1, ReadAllKept, EndStep DEF Accepted
<1>10. CASE Line!Start
  <2>1. /\ stage = "main" /\ UNCHANGED <<args, env, index, options, positional>>
        /\ stage' = IF options.list_tools THEN "tools"
                    ELSE IF Line!IsEmpty(options.task) THEN "usage" ELSE "agent"
    BY <1>10 DEF Line!Start, Line!End
  <2>2. ReadAllInv'
    BY <2>1, ReadAllKept DEF Accepted
  <2> QED
    BY <2>1, <2>2, EndStep DEF Accepted
<1>11. CASE Line!AgentEnds
  <2>1. /\ stage = "agent" /\ UNCHANGED <<args, env, index, options, positional>>
        /\ stage' \in {"answered", "failed"}
    BY <1>11 DEF Line!AgentEnds, Line!End
  <2>2. ~options.list_tools /\ ~Line!IsEmpty(options.task)
    BY <2>1 DEF LineInv, ReadAllInv, Accepted
  <2>3. ReadAllInv'
    BY <2>1, <2>2, ReadAllKept DEF Accepted
  <2> QED
    BY <2>1, <2>3, EndStep DEF Accepted
<1>12. CASE UNCHANGED Line!vars
  <2>1. UNCHANGED <<args, env, index, options, positional, stage>>
    BY <1>12 DEF Line!vars
  <2>2. CASE stage \in {"environment", "rejected"}
    <3>1. LineTypes'
      BY <2>1 DEF LineInv, LineTypes
    <3>2. stage = "rejected" =>
            \/ Line!EnvironmentIsWrong'
            \/ \E i \in Line!Errors' : \A j \in Line!Places({"--help"})' : i < j
      BY <2>1, LineFrozen DEF LineInv
    <3> QED
      BY <2>1, <2>2, <3>1, <3>2 DEF LineInv, Accepted
  <2>3. CASE stage \in {"arguments", "help"}
    <3>1. stage = "help" => index \in Line!Places({"--help"})
      BY DEF LineInv
    <3> QED
      BY <2>1, <2>3, <3>1, EndStep DEF Accepted
  <2>4. CASE stage \in Accepted
    <3>1. ReadAllInv
      BY <2>4 DEF LineInv
    <3>2. ReadAllInv'
      BY <2>1, <2>4, <3>1, ReadAllKept DEF ReadAllInv
    <3> QED
      BY <2>1, <2>4, <3>2, EndStep DEF Accepted
  <2> QED
    BY <2>2, <2>3, <2>4 DEF LineInv, LineTypes
<1> QED
  BY <1>1, <1>2, <1>3, <1>4, <1>5, <1>6, <1>7, <1>8, <1>9, <1>10, <1>11, <1>12
  DEF Line!Next, Line!vars

(* A command line, of any length, does what it says when it is read as a whole*)
(* (main.cpp:142-240, 326-336): what is rejected, listed and printed, which    *)
(* values count, and which task the agent runs.                              *)
THEOREM LineMeans == Line!Spec => []LineMeansWhatItSays
<1>1. Line!Init => LineInv
  BY LineInitially
<1>2. LineInv /\ [Line!Next]_(Line!vars) => LineInv'
  BY LinePreserved
<1>3. LineInv => LineMeansWhatItSays
  <2> SUFFICES ASSUME LineInv PROVE Line!LineMeansWhatItSays
    BY DEF LineMeansWhatItSays
  <2> DEFINE help == Line!Places({"--help"})
             listing == Line!Places({"--list-tools"})
  <2>1. stage = "help" =>
          ~Line!EnvironmentIsWrong /\ \E i \in help : \A j \in Line!Errors : i < j
    <3> SUFFICES ASSUME stage = "help"
                 PROVE  ~Line!EnvironmentIsWrong /\ \A j \in Line!Errors : index < j
      BY DEF LineInv
    <3>1. NoErrorInv /\ LineTypes /\ index \in help
      BY DEF LineInv
    <3>2. ASSUME NEW j \in Line!Errors PROVE index < j
      <4>1. j \in DOMAIN args /\ DOMAIN args = 1..Len(args)
        BY <3>1, ErrorsAreOptions DEF LineTypes, Line!Places
      <4>2. index \in Nat /\ j \in Nat /\ j >= 1
        BY <3>1, <4>1 DEF LineTypes
      <4>3. j # index /\ ~(j \in 1..index - 1)
        BY <3>1, ErrorsAreOptions DEF NoErrorInv
      <4> QED
        BY <4>2, <4>3
    <3> QED
      BY <3>1, <3>2 DEF NoErrorInv
  <2>2. ASSUME stage \in Accepted
        PROVE  ~Line!EnvironmentIsWrong /\ help = {} /\ Line!Errors = {}
    <3>1. NoErrorInv /\ args \in Seq(Line!Words) /\ index = Len(args) + 1
      BY <2>2 DEF LineInv, LineTypes, ReadAllInv, Accepted
    <3>2. Len(args) \in Nat /\ DOMAIN args = 1..Len(args)
      BY <3>1
    <3>3. help \subseteq 1..Len(args) /\ Line!Errors \subseteq 1..Len(args)
      BY <3>2, ErrorsAreOptions DEF Line!Places
    <3>4. 1..index - 1 = 1..Len(args)
      BY <3>1, <3>2
    <3>5. help = {} /\ Line!Errors = {}
      BY <3>1, <3>3, <3>4 DEF NoErrorInv
    <3>6. ~Line!EnvironmentIsWrong
      BY <3>1 DEF NoErrorInv
    <3> HIDE DEF help
    <3> QED
      BY <3>5, <3>6, Zenon
  <2>3. ASSUME stage \in Accepted
        PROVE  /\ options.model = Line!LastValue("--model", ModelMeant)
               /\ options.max_steps = StepsMeant(Line!LastValue("--max-steps", env.max_steps))
               /\ options.list_tools = (listing # {})
    <3>1. /\ ReadInv /\ ReadAllInv /\ args \in Seq(Line!Words)
          /\ index = Len(args) + 1
      BY <2>3 DEF LineInv, LineTypes, ReadAllInv, Accepted
    <3>2. /\ ValueAt("--model", ModelMeant, index) = Line!LastValue("--model", ModelMeant)
          /\ ValueAt("--max-steps", env.max_steps, index)
               = Line!LastValue("--max-steps", env.max_steps)
          /\ PlacesTo({"--list-tools"}, index) = listing
      BY <3>1, AllRead
    <3> HIDE DEF listing
    <3> QED
      BY <3>1, <3>2 DEF ReadInv
  <2>4. ASSUME stage \in Accepted
        PROVE  options.task = Meant \/ (Line!IsEmpty(options.task) /\ Line!IsEmpty(Meant))
    BY <2>4 DEF LineInv, ReadAllInv, Accepted
  <2>5. stage = "rejected" =>
          \/ Line!EnvironmentIsWrong
          \/ \E i \in Line!Errors : \A j \in help : i < j
    BY DEF LineInv
  <2>6. /\ stage = "tools" => options.list_tools
        /\ stage = "usage" => ~options.list_tools /\ Line!IsEmpty(options.task)
        /\ stage \in {"agent", "answered"} =>
             ~options.list_tools /\ ~Line!IsEmpty(options.task)
    BY DEF LineInv, ReadAllInv, Accepted
  <2>7. /\ stage = "tools" => listing # {}
        /\ stage = "usage" => Line!IsEmpty(Meant) /\ listing = {}
        /\ stage \in {"agent", "answered"} =>
             options.task = Meant /\ ~Line!IsEmpty(Meant) /\ listing = {}
    <3>1. stage \in {"tools", "usage", "agent", "answered"} => stage \in Accepted
      BY DEF Accepted
    <3>2. options.task = Meant => (Line!IsEmpty(options.task) <=> Line!IsEmpty(Meant))
      BY DEF Line!IsEmpty
    <3> QED
      BY <2>3, <2>4, <2>6, <3>1, <3>2
  <2> HIDE DEF help, listing
  <2> QED
    BY <2>1, <2>2, <2>5, <2>7, <2>3
    DEF Line!LineMeansWhatItSays, Accepted, ModelMeant, StepsMeant, Meant, help, listing
<1> QED
  BY <1>1, <1>2, <1>3, PTL DEF Line!Spec

-----------------------------------------------------------------------------
(* Replies.  What holds at m and is handed on from each number to the next    *)
(* holds up to n.                                                            *)
LEMMA UpTo ==
  ASSUME NEW m \in Nat, NEW n \in Nat, NEW P,
         m \in P, \A i \in m + 1..n : i - 1 \in P => i \in P
  PROVE  \A i \in m..n : i \in P
<1> DEFINE T == {i \in m..n : i \notin P}
<1>1. CASE T = {}
  BY <1>1
<1>2. CASE T # {}
  <2>1. T \in SUBSET Nat
    OBVIOUS
  <2>2. PICK k \in T : \A l \in T : k <= l
    BY <1>2, <2>1, LeastExists
  <2>3. k \in m + 1..n /\ k - 1 \in m..n
    BY <2>2
  <2>4. k - 1 \in P
    BY <2>2, <2>3
  <2> QED
    BY <2>2, <2>3, <2>4
<1> QED
  BY <1>1, <1>2

(* The scan, character by character; Scanning is where it is between the      *)
(* members of an object, Reading and Escaping in a string.                   *)
Chars == {Scanner!Open, Scanner!Close, Scanner!Quote, Scanner!Escape, Scanner!Letter}
Step(s, c) == [Scanner!Advance(s, c) EXCEPT !.length = @ + 1]
ScanState(d, string, escaped, l) ==
  [depth |-> d, in_string |-> string, escaped |-> escaped, length |-> l]
Scanning(d, l) == ScanState(d, FALSE, FALSE, l)
Reading(d, l) == ScanState(d, TRUE, FALSE, l)
Escaping(d, l) == ScanState(d, TRUE, TRUE, l)

LEMMA ScanFields ==
  ASSUME NEW d, NEW string, NEW escaped, NEW l
  PROVE  /\ ScanState(d, string, escaped, l).depth = d
         /\ ScanState(d, string, escaped, l).in_string = string
         /\ ScanState(d, string, escaped, l).escaped = escaped
         /\ ScanState(d, string, escaped, l).length = l
BY Zenon DEF ScanState

LEMMA Depths ==
  ASSUME NEW d, NEW l
  PROVE  Scanning(d, l).depth = d /\ Reading(d, l).depth = d /\ Escaping(d, l).depth = d
BY DEF Scanning, Reading, Escaping, ScanState

LEMMA Advances ==
  ASSUME NEW d, NEW l
  PROVE  /\ Scanner!Advance(Scanning(d, l), Scanner!Open) = Scanning(d + 1, l)
         /\ Scanner!Advance(Scanning(d, l), Scanner!Close) = Scanning(d - 1, l)
         /\ Scanner!Advance(Scanning(d, l), Scanner!Quote) = Reading(d, l)
         /\ Scanner!Advance(Scanning(d, l), Scanner!Letter) = Scanning(d, l)
         /\ Scanner!Advance(Scanning(d, l), Scanner!Escape) = Scanning(d, l)
         /\ Scanner!Advance(Reading(d, l), Scanner!Quote) = Scanning(d, l)
         /\ \A c \in {Scanner!Open, Scanner!Close, Scanner!Letter} :
              Scanner!Advance(Reading(d, l), c) = Reading(d, l)
         /\ Scanner!Advance(Reading(d, l), Scanner!Escape) = Escaping(d, l)
         /\ \A c : Scanner!Advance(Escaping(d, l), c) = Reading(d, l)
<1> DEFINE s == Scanning(d, l)
           r == Reading(d, l)
           e == Escaping(d, l)
           no == FALSE
           yes == TRUE
<1>0. /\ s = ScanState(d, no, no, l) /\ r = ScanState(d, yes, no, l)
      /\ e = ScanState(d, yes, yes, l)
      /\ \A v : Scanning(v, l) = ScanState(v, no, no, l)
  BY DEF Scanning, Reading, Escaping
<1> HIDE DEF s, r, e, no, yes
<1>1. /\ s.escaped = no /\ s.in_string = no /\ s.depth = d
      /\ r.escaped = no /\ r.in_string = yes
      /\ e.escaped = yes
  BY <1>0, ScanFields
<1>2. /\ \A v : [s EXCEPT !.depth = v] = Scanning(v, l)
      /\ [s EXCEPT !.in_string = yes] = r
      /\ [r EXCEPT !.in_string = no] = s
      /\ [r EXCEPT !.in_string = yes] = r
      /\ [r EXCEPT !.escaped = yes] = e
      /\ [e EXCEPT !.escaped = no] = r
  <2>1. \A v : [ScanState(d, no, no, l) EXCEPT !.depth = v] = ScanState(v, no, no, l)
    BY DEF ScanState
  <2>2. \A x, v : [ScanState(d, x, no, l) EXCEPT !.in_string = v] = ScanState(d, v, no, l)
    BY DEF ScanState
  <2>3. \A x, v : [ScanState(d, yes, x, l) EXCEPT !.escaped = v] = ScanState(d, yes, v, l)
    BY DEF ScanState
  <2> QED
    BY <1>0, <2>1, <2>2, <2>3
<1> USE DEF no, yes
<1>3. \A c : Scanner!Advance(s, c) = Scanner!AdvanceUnescaped(s, c)
  BY <1>1 DEF Scanner!Advance
<1>4. \A c : c # Scanner!Escape => Scanner!Advance(r, c) = Scanner!AdvanceUnescaped(r, c)
  BY <1>1 DEF Scanner!Advance
<1>5. Scanner!Advance(r, Scanner!Escape) = e /\ \A c : Scanner!Advance(e, c) = r
  BY <1>1, <1>2 DEF Scanner!Advance
<1> USE DEF Scanner!Open, Scanner!Close, Scanner!Quote, Scanner!Escape, Scanner!Letter
<1>6. /\ Scanner!AdvanceUnescaped(s, Scanner!Open) = Scanning(d + 1, l)
      /\ Scanner!AdvanceUnescaped(s, Scanner!Close) = Scanning(d - 1, l)
      /\ Scanner!AdvanceUnescaped(s, Scanner!Quote) = r
      /\ Scanner!AdvanceUnescaped(s, Scanner!Letter) = s
      /\ Scanner!AdvanceUnescaped(s, Scanner!Escape) = s
  BY <1>1, <1>2 DEF Scanner!AdvanceUnescaped
<1>7. ASSUME NEW c, c # Scanner!Escape
      PROVE  Scanner!Advance(r, c) = [r EXCEPT !.in_string = c # Scanner!Quote]
  BY <1>1, <1>4, <1>7 DEF Scanner!AdvanceUnescaped
<1>8. Scanner!Advance(r, Scanner!Quote) = s
  <2>1. (Scanner!Quote # Scanner!Quote) = FALSE /\ Scanner!Quote # Scanner!Escape
    OBVIOUS
  <2>2. Scanner!Advance(r, Scanner!Quote) = [r EXCEPT !.in_string = FALSE]
    BY <1>7, <2>1, Zenon
  <2> QED
    BY <1>2, <2>2
<1>9. ASSUME NEW c \in {Scanner!Open, Scanner!Close, Scanner!Letter}
      PROVE  Scanner!Advance(r, c) = r
  <2>1. (c # Scanner!Quote) = TRUE /\ c # Scanner!Escape
    OBVIOUS
  <2>2. Scanner!Advance(r, c) = [r EXCEPT !.in_string = TRUE]
    BY <1>7, <2>1, Zenon
  <2> QED
    BY <1>2, <2>2
<1> QED
  BY <1>3, <1>5, <1>6, <1>8, <1>9 DEF s, r, e

LEMMA Steps ==
  ASSUME NEW d, NEW l
  PROVE  /\ Step(Scanning(d, l), Scanner!Open) = Scanning(d + 1, l + 1)
         /\ Step(Scanning(d, l), Scanner!Close) = Scanning(d - 1, l + 1)
         /\ Step(Scanning(d, l), Scanner!Quote) = Reading(d, l + 1)
         /\ Step(Scanning(d, l), Scanner!Letter) = Scanning(d, l + 1)
         /\ Step(Scanning(d, l), Scanner!Escape) = Scanning(d, l + 1)
         /\ Step(Reading(d, l), Scanner!Quote) = Scanning(d, l + 1)
         /\ \A c \in {Scanner!Open, Scanner!Close, Scanner!Letter} :
              Step(Reading(d, l), c) = Reading(d, l + 1)
         /\ Step(Reading(d, l), Scanner!Escape) = Escaping(d, l + 1)
         /\ \A c : Step(Escaping(d, l), c) = Reading(d, l + 1)
<1>1. ASSUME NEW s, NEW c, NEW f, NEW string, NEW escaped,
             Scanner!Advance(s, c) = ScanState(f, string, escaped, l)
      PROVE  Step(s, c) = ScanState(f, string, escaped, l + 1)
  <2>1. Step(s, c) = [ScanState(f, string, escaped, l) EXCEPT !.length = l + 1]
    BY <1>1, ScanFields DEF Step
  <2> QED
    BY <2>1 DEF ScanState
<1>2. ASSUME NEW s, NEW c, NEW f
      PROVE  /\ Scanner!Advance(s, c) = Scanning(f, l) => Step(s, c) = Scanning(f, l + 1)
             /\ Scanner!Advance(s, c) = Reading(f, l) => Step(s, c) = Reading(f, l + 1)
             /\ Scanner!Advance(s, c) = Escaping(f, l) => Step(s, c) = Escaping(f, l + 1)
  <2> DEFINE no == FALSE
             yes == TRUE
  <2>1. \A k : /\ Scanning(f, k) = ScanState(f, no, no, k)
               /\ Reading(f, k) = ScanState(f, yes, no, k)
               /\ Escaping(f, k) = ScanState(f, yes, yes, k)
    BY DEF Scanning, Reading, Escaping
  <2> HIDE DEF no, yes
  <2> QED
    BY <1>1, <2>1
<1> QED
  BY <1>2, Advances

(* The characters v take the scan from s to u, inside braces all the way.     *)
Trace(tr, s, v, u) ==
  /\ tr[0] = s /\ tr[Len(v)] = u
  /\ \A i \in 1..Len(v) : tr[i] = Step(tr[i - 1], v[i]) /\ tr[i].depth # 0
Runs(s, v, u) == \E tr : Trace(tr, s, v, u)

LEMMA RunsOne ==
  ASSUME NEW s, NEW c \in Chars, NEW u, u = Step(s, c), u.depth # 0
  PROVE  Runs(s, <<c>>, u)
<1> DEFINE tr == [i \in 0..1 |-> IF i = 0 THEN s ELSE u]
<1>1. Len(<<c>>) = 1 /\ <<c>>[1] = c
  OBVIOUS
<1>2. tr[0] = s /\ tr[1] = u
  OBVIOUS
<1> HIDE DEF tr
<1>3. Trace(tr, s, <<c>>, u)
  <2>1. \A i \in 1..1 : tr[i] = Step(tr[i - 1], <<c>>[i]) /\ tr[i].depth # 0
    <3> SUFFICES tr[1] = Step(tr[1 - 1], <<c>>[1]) /\ tr[1].depth # 0
      OBVIOUS
    <3> QED
      BY <1>1, <1>2
  <2> QED
    BY <1>1, <1>2, <2>1 DEF Trace
<1> QED
  BY <1>3 DEF Runs

LEMMA RunsConcat ==
  ASSUME NEW v \in Seq(Chars), NEW w \in Seq(Chars),
         NEW s, NEW u, NEW z, Runs(s, v, u), Runs(u, w, z)
  PROVE  Runs(s, v \o w, z)
<1>1. PICK f : Trace(f, s, v, u)
  BY DEF Runs
<1>2. PICK g : Trace(g, u, w, z)
  BY DEF Runs
<1> DEFINE m == Len(v)
           n == Len(w)
           h == [i \in 0..m + n |-> IF i <= m THEN f[i] ELSE g[i - m]]
           x == v \o w
<1>3. m \in Nat /\ n \in Nat /\ Len(x) = m + n
  BY LenProperties, ConcatProperties
<1>4. \A i \in 1..m + n : x[i] = IF i <= m THEN v[i] ELSE w[i - m]
  BY ConcatProperties
<1> HIDE DEF m, n, x
<1>5. \A i \in 0..m + n : h[i] = IF i <= m THEN f[i] ELSE g[i - m]
  OBVIOUS
<1>6. f[0] = s /\ f[m] = u /\ g[0] = u /\ g[n] = z
  BY <1>1, <1>2 DEF Trace, m, n
<1>7. \A i \in 1..m : f[i] = Step(f[i - 1], v[i]) /\ f[i].depth # 0
  BY <1>1 DEF Trace, m
<1>8. \A i \in 1..n : g[i] = Step(g[i - 1], w[i]) /\ g[i].depth # 0
  BY <1>2 DEF Trace, n
<1> HIDE DEF h
<1>9. h[0] = s /\ h[m + n] = z
  <2>1. CASE n = 0
    BY <1>3, <1>5, <1>6, <2>1
  <2>2. CASE n # 0
    <3>1. 0 \in 0..m + n /\ m + n \in 0..m + n /\ ~(m + n <= m) /\ m + n - m = n /\ 0 <= m
      BY <1>3, <2>2
    <3>2. h[0] = f[0] /\ h[m + n] = g[m + n - m]
      BY <1>3, <1>5, <3>1
    <3> QED
      BY <1>6, <3>1, <3>2
  <2> QED
    BY <2>1, <2>2
<1>10. ASSUME NEW i \in 1..m + n
       PROVE  h[i] = Step(h[i - 1], x[i]) /\ h[i].depth # 0
  <2>1. CASE i <= m
    <3>1. i \in 1..m /\ i \in 0..m + n /\ i - 1 \in 0..m + n /\ i - 1 <= m
      BY <1>3, <2>1
    <3> QED
      BY <1>4, <1>5, <1>7, <2>1, <3>1
  <2>2. CASE i = m + 1
    <3>1. /\ i \in 0..m + n /\ ~(i <= m) /\ i - m = 1 /\ 1 \in 1..n
          /\ i - 1 = m /\ m \in 0..m + n /\ m <= m /\ 1 - 1 = 0
      BY <1>3, <2>2
    <3>2. h[i] = g[1] /\ h[i - 1] = u /\ x[i] = w[1]
      BY <1>4, <1>5, <1>6, <3>1
    <3>3. g[1] = Step(g[0], w[1]) /\ g[1].depth # 0
      BY <1>8, <3>1
    <3> QED
      BY <1>6, <3>2, <3>3
  <2>3. CASE i > m + 1
    <3>1. /\ i \in 0..m + n /\ ~(i <= m) /\ i - m \in 1..n
          /\ i - 1 \in 0..m + n /\ ~(i - 1 <= m) /\ i - 1 - m = i - m - 1
      BY <1>3, <2>3
    <3> QED
      BY <1>4, <1>5, <1>8, <3>1
  <2> QED
    BY <1>3, <2>1, <2>2, <2>3
<1>11. Trace(h, s, x, z)
  BY <1>3, <1>9, <1>10 DEF Trace
<1> QED
  BY <1>11 DEF Runs, x
(* What may stand inside braces: text that leaves the scan where it is.       *)
Inside(v) ==
  \A d \in Nat \ {0}, l \in Nat : Runs(Scanning(d, l), v, Scanning(d, l + Len(v)))

LEMMA EmptyInside == Inside(<<>>)
<1> SUFFICES ASSUME NEW s PROVE Runs(s, <<>>, s)
  BY DEF Inside
<1> DEFINE tr == [i \in {0} |-> s]
<1>1. tr[0] = s /\ Len(<<>>) = 0
  OBVIOUS
<1> HIDE DEF tr
<1>2. Trace(tr, s, <<>>, s)
  BY <1>1 DEF Trace
<1> QED
  BY <1>2 DEF Runs

LEMMA InsideConcat ==
  ASSUME NEW v \in Seq(Chars), NEW w \in Seq(Chars), Inside(v), Inside(w)
  PROVE  Inside(v \o w)
<1> SUFFICES ASSUME NEW d \in Nat \ {0}, NEW l \in Nat
             PROVE  Runs(Scanning(d, l), v \o w, Scanning(d, l + Len(v \o w)))
  BY DEF Inside
<1>1. l + Len(v) \in Nat /\ l + Len(v) + Len(w) = l + Len(v \o w)
  BY LenProperties, ConcatProperties
<1>2. /\ Runs(Scanning(d, l), v, Scanning(d, l + Len(v)))
      /\ Runs(Scanning(d, l + Len(v)), w, Scanning(d, l + Len(v) + Len(w)))
  BY <1>1 DEF Inside
<1> QED
  BY <1>1, <1>2, RunsConcat

(* Characters that are special nowhere or within a string only.               *)
LEMMA CharsInside == Inside(<<Scanner!Letter>>) /\ Inside(<<Scanner!Escape>>)
<1>1. ASSUME NEW c \in {Scanner!Letter, Scanner!Escape}, NEW d \in Nat \ {0}, NEW l \in Nat
      PROVE  Runs(Scanning(d, l), <<c>>, Scanning(d, l + Len(<<c>>)))
  <2>1. Step(Scanning(d, l), c) = Scanning(d, l + 1)
    BY Steps
  <2>2. Scanning(d, l + 1).depth # 0
    BY Depths
  <2>3. c \in Chars /\ Len(<<c>>) = 1
    BY DEF Chars
  <2> QED
    BY <2>1, <2>2, <2>3, RunsOne
<1> QED
  BY <1>1 DEF Inside

Bodies == {<<Scanner!Letter>>, <<Scanner!Open>>, <<Scanner!Close>>,
           <<Scanner!Escape, Scanner!Quote>>, <<Scanner!Escape, Scanner!Escape>>}

LEMMA PairOf ==
  ASSUME NEW a \in Chars, NEW c \in Chars
  PROVE  <<a>> \o <<c>> = <<a, c>> /\ <<a, c>> \in Seq(Chars) /\ Len(<<a, c>>) = 2
<1>1. /\ <<a>> \in Seq(Chars) /\ <<c>> \in Seq(Chars) /\ <<a, c>> \in Seq(Chars)
      /\ Len(<<a>>) = 1 /\ Len(<<c>>) = 1 /\ Len(<<a, c>>) = 2
  OBVIOUS
<1>2. /\ <<a>> \o <<c>> \in Seq(Chars) /\ Len(<<a>> \o <<c>>) = 2
      /\ (<<a>> \o <<c>>)[1] = a /\ (<<a>> \o <<c>>)[2] = c
  <2>1. /\ 1 \in 1..Len(<<a>>) + Len(<<c>>) /\ 2 \in 1..Len(<<a>>) + Len(<<c>>)
        /\ 1 <= Len(<<a>>) /\ ~(2 <= Len(<<a>>)) /\ 2 - Len(<<a>>) = 1
    BY <1>1
  <2> QED
    BY <1>1, <2>1, ConcatProperties
<1>3. <<a, c>>[1] = a /\ <<a, c>>[2] = c /\ 1..2 = {1, 2}
  OBVIOUS
<1> QED
  BY <1>1, <1>2, <1>3, SeqEqual

LEMMA BodyRuns ==
  ASSUME NEW b \in Bodies, NEW d \in Nat \ {0}, NEW l \in Nat
  PROVE  b \in Seq(Chars) /\ Runs(Reading(d, l), b, Reading(d, l + Len(b)))
<1>1. ASSUME NEW k PROVE Reading(d, k).depth # 0 /\ Escaping(d, k).depth # 0
  BY Depths
<1>2. ASSUME NEW c \in {Scanner!Letter, Scanner!Open, Scanner!Close}
      PROVE  <<c>> \in Seq(Chars) /\ Runs(Reading(d, l), <<c>>, Reading(d, l + Len(<<c>>)))
  <2>1. c \in Chars /\ Len(<<c>>) = 1
    BY DEF Chars
  <2>2. Step(Reading(d, l), c) = Reading(d, l + 1)
    BY Steps
  <2> QED
    BY <1>1, <2>1, <2>2, RunsOne
<1>3. ASSUME NEW c \in {Scanner!Quote, Scanner!Escape}
      PROVE  /\ <<Scanner!Escape, c>> \in Seq(Chars)
             /\ Runs(Reading(d, l), <<Scanner!Escape, c>>,
                     Reading(d, l + Len(<<Scanner!Escape, c>>)))
  <2>1. c \in Chars /\ Scanner!Escape \in Chars
    BY DEF Chars
  <2>2. /\ <<Scanner!Escape>> \o <<c>> = <<Scanner!Escape, c>>
        /\ Len(<<Scanner!Escape, c>>) = 2 /\ l + 1 + 1 = l + 2
    BY <2>1, PairOf
  <2>3. Runs(Reading(d, l), <<Scanner!Escape>>, Escaping(d, l + 1))
    <3>1. Step(Reading(d, l), Scanner!Escape) = Escaping(d, l + 1)
      BY Steps
    <3> QED
      BY <1>1, <2>1, <3>1, RunsOne
  <2>4. Runs(Escaping(d, l + 1), <<c>>, Reading(d, l + 2))
    <3>1. Step(Escaping(d, l + 1), c) = Reading(d, l + 1 + 1)
      BY Steps
    <3> QED
      BY <1>1, <2>1, <2>2, <3>1, RunsOne
  <2>5. <<Scanner!Escape>> \in Seq(Chars) /\ <<c>> \in Seq(Chars)
    BY <2>1
  <2>6. Runs(Reading(d, l), <<Scanner!Escape>> \o <<c>>, Reading(d, l + 2))
    BY <2>3, <2>4, <2>5, RunsConcat
  <2> QED
    BY <2>1, <2>2, <2>6, PairOf
<1> QED
  BY <1>2, <1>3 DEF Bodies

(* A string may hold any of its bodies, and braces may hold what is inside.   *)
LEMMA Enclosed ==
  ASSUME NEW s, NEW s1, NEW t1, NEW t, NEW a \in Chars, NEW c \in Chars, NEW v \in Seq(Chars),
         Step(s, a) = s1, s1.depth # 0, Runs(s1, v, t1), Step(t1, c) = t, t.depth # 0
  PROVE  Runs(s, <<a>> \o v \o <<c>>, t)
<1>1. Runs(s, <<a>>, s1) /\ Runs(t1, <<c>>, t)
  BY RunsOne
<1>2. <<a>> \in Seq(Chars) /\ <<c>> \in Seq(Chars)
  OBVIOUS
<1>3. Runs(s, <<a>> \o v, t1) /\ <<a>> \o v \in Seq(Chars)
  BY <1>1, <1>2, RunsConcat, ConcatProperties
<1> QED
  BY <1>1, <1>2, <1>3, RunsConcat

LEMMA EnclosedType ==
  ASSUME NEW a \in Chars, NEW c \in Chars, NEW v \in Seq(Chars)
  PROVE  /\ <<a>> \o v \o <<c>> \in Seq(Chars)
         /\ Len(<<a>> \o v \o <<c>>) = Len(v) + 2
<1>1. <<a>> \in Seq(Chars) /\ <<c>> \in Seq(Chars) /\ Len(<<a>>) = 1 /\ Len(<<c>>) = 1
  OBVIOUS
<1>2. <<a>> \o v \in Seq(Chars) /\ Len(<<a>> \o v) = 1 + Len(v)
  BY <1>1, ConcatProperties
<1>3. /\ <<a>> \o v \o <<c>> \in Seq(Chars)
      /\ Len(<<a>> \o v \o <<c>>) = 1 + Len(v) + 1
  BY <1>1, <1>2, ConcatProperties
<1>4. Len(v) \in Nat
  BY LenProperties
<1> QED
  BY <1>3, <1>4

LEMMA QuotedInside ==
  ASSUME NEW b \in Bodies
  PROVE  Scanner!Quoted(b) \in Seq(Chars) /\ Inside(Scanner!Quoted(b))
<1> DEFINE q == <<Scanner!Quote>> \o b \o <<Scanner!Quote>>
<1>1. Scanner!Quote \in Chars /\ b \in Seq(Chars)
  BY BodyRuns DEF Chars
<1>2. q \in Seq(Chars) /\ Len(q) = Len(b) + 2 /\ Len(b) \in Nat
  BY <1>1, EnclosedType, LenProperties
<1>3. ASSUME NEW d \in Nat \ {0}, NEW l \in Nat
      PROVE  Runs(Scanning(d, l), q, Scanning(d, l + Len(q)))
  <2>1. l + 1 \in Nat /\ l + 1 + Len(b) + 1 = l + Len(q)
    BY <1>2
  <2>2. /\ Step(Scanning(d, l), Scanner!Quote) = Reading(d, l + 1)
        /\ Step(Reading(d, l + 1 + Len(b)), Scanner!Quote) = Scanning(d, l + 1 + Len(b) + 1)
    BY Steps
  <2>3. Runs(Reading(d, l + 1), b, Reading(d, l + 1 + Len(b)))
    BY <2>1, BodyRuns
  <2>4. Reading(d, l + 1).depth # 0 /\ Scanning(d, l + Len(q)).depth # 0
    BY <2>1, Depths
  <2> HIDE DEF q
  <2>5. /\ Step(Reading(d, l + 1 + Len(b)), Scanner!Quote) = Scanning(d, l + Len(q))
    BY <2>1, <2>2
  <2> QED
    BY <1>1, <2>2, <2>3, <2>4, <2>5, Enclosed DEF q
<1> HIDE DEF q
<1>4. q = Scanner!Quoted(b)
  BY DEF q, Scanner!Quoted
<1> QED
  BY <1>2, <1>3, <1>4 DEF Inside

Braced(v) == <<Scanner!Open>> \o v \o <<Scanner!Close>>

LEMMA BracedInside ==
  ASSUME NEW v \in Seq(Chars), Inside(v)
  PROVE  /\ Braced(v) \in Seq(Chars) /\ Len(Braced(v)) = Len(v) + 2
         /\ Inside(Braced(v))
<1>1. Scanner!Open \in Chars /\ Scanner!Close \in Chars
  BY DEF Chars
<1>2. Braced(v) \in Seq(Chars) /\ Len(Braced(v)) = Len(v) + 2 /\ Len(v) \in Nat
  BY <1>1, EnclosedType, LenProperties DEF Braced
<1>3. ASSUME NEW d \in Nat \ {0}, NEW l \in Nat
      PROVE  Runs(Scanning(d, l), Braced(v), Scanning(d, l + Len(Braced(v))))
  <2> DEFINE e == l + 1 + Len(v)
  <2>1. /\ l + 1 \in Nat /\ d + 1 \in Nat \ {0} /\ d + 1 - 1 = d
        /\ e + 1 = l + Len(Braced(v))
    BY <1>2
  <2>2. /\ Step(Scanning(d, l), Scanner!Open) = Scanning(d + 1, l + 1)
        /\ Step(Scanning(d + 1, e), Scanner!Close) = Scanning(d, e + 1)
    BY <2>1, Steps
  <2>3. Runs(Scanning(d + 1, l + 1), v, Scanning(d + 1, e))
    BY <2>1 DEF Inside
  <2>4. Scanning(d + 1, l + 1).depth # 0 /\ Scanning(d, e + 1).depth # 0
    BY <2>1, Depths
  <2> HIDE DEF e
  <2> QED
    BY <1>1, <2>1, <2>2, <2>3, <2>4, Enclosed DEF Braced
<1> QED
  BY <1>2, <1>3 DEF Inside

LEMMA MemberInside ==
  ASSUME NEW x \in Seq(Chars), Inside(x)
  PROVE  \E v \in Seq(Chars) : Inside(v) /\ Scanner!Member(x) = Braced(v)
<1> DEFINE name == Scanner!Quoted(<<Scanner!Letter>>)
<1>1. name \in Seq(Chars) /\ Inside(name)
  BY QuotedInside DEF Bodies
<1>2. name \o x \in Seq(Chars) /\ Inside(name \o x)
  BY <1>1, InsideConcat, ConcatProperties
<1>3. <<Scanner!Open>> \in Seq(Chars) /\ <<Scanner!Close>> \in Seq(Chars)
  BY DEF Chars
<1>4. (<<Scanner!Open>> \o name) \o x = <<Scanner!Open>> \o (name \o x)
  BY <1>1, <1>3, ConcatAssociative
<1> HIDE DEF name
<1>5. Scanner!Member(x) = Braced(name \o x)
  BY <1>4 DEF Scanner!Member, Braced, name
<1> QED
  BY <1>2, <1>5

LEMMA ObjectShape ==
  ASSUME NEW o \in Scanner!Objects
  PROVE  \E v \in Seq(Chars) : Inside(v) /\ o = Braced(v)
<1> DEFINE Shaped(x) == \E v \in Seq(Chars) : Inside(v) /\ x = Braced(v)
<1>1. ASSUME NEW x, Shaped(x) PROVE x \in Seq(Chars) /\ Inside(x)
  BY <1>1, BracedInside
<1>2. ASSUME NEW x \in Scanner!Strings PROVE Shaped(Scanner!Member(x))
  <2>1. \E b \in Bodies : x = Scanner!Quoted(b)
    BY DEF Scanner!Strings, Bodies
  <2> QED
    BY <2>1, QuotedInside, MemberInside
<1>3. ASSUME NEW x \in Scanner!Flat PROVE Shaped(x)
  <2>1. CASE x = <<Scanner!Open, Scanner!Close>>
    <3>1. <<>> \in Seq(Chars) /\ Scanner!Open \in Chars /\ Scanner!Close \in Chars
      BY DEF Chars
    <3>2. <<Scanner!Open>> \o <<>> = <<Scanner!Open>>
      BY <3>1, ConcatEmptySeq
    <3>3. x = Braced(<<>>)
      BY <2>1, <3>1, <3>2, PairOf DEF Braced
    <3> QED
      BY <3>1, <3>3, EmptyInside
  <2>2. CASE \E y \in Scanner!Strings : x = Scanner!Member(y)
    BY <1>2, <2>2
  <2> QED
    BY <2>1, <2>2 DEF Scanner!Flat
<1>4. ASSUME NEW x \in Scanner!Flat PROVE Shaped(Scanner!Member(x))
  <2>1. x \in Seq(Chars) /\ Inside(x)
    BY <1>1, <1>3
  <2> QED
    BY <2>1, MemberInside
<1>5. Shaped(o)
  BY <1>3, <1>4 DEF Scanner!Objects
<1> QED
  BY <1>5

-----------------------------------------------------------------------------
(* The scan from a brace, as a function on the positions of the text t.       *)
IsScan(h, t, start) ==
  h = [i \in (start - 1)..Len(t) |->
         IF i < start THEN Scanning(0, 0)
         ELSE IF h[i - 1].depth = 0 /\ i > start THEN h[i - 1]
         ELSE Step(h[i - 1], t[i])]

LEMMA MatchingIs ==
  ASSUME NEW t \in Seq(Chars), NEW start \in 1..Len(t), NEW h, IsScan(h, t, start)
  PROVE  Scanner!Matching(t, start) =
           IF h[Len(t)].depth = 0 THEN start + h[Len(t)].length - 1 ELSE 0
<1> DEFINE n == Len(t)
<1>1. n \in Nat /\ start \in Nat /\ start - 1 \in Nat /\ start <= n
  BY LenProperties
<1> HIDE DEF n
<1>2. ASSUME NEW f, NEW g, IsScan(f, t, start), IsScan(g, t, start) PROVE f = g
  <2> DEFINE P == {i \in (start - 1)..n : f[i] = g[i]}
  <2>1. /\ f = [i \in (start - 1)..n |-> f[i]] /\ g = [i \in (start - 1)..n |-> g[i]]
    BY <1>2 DEF IsScan, n
  <2>2. \A i \in (start - 1)..n :
          f[i] = IF i < start THEN Scanning(0, 0)
                 ELSE IF f[i - 1].depth = 0 /\ i > start THEN f[i - 1]
                 ELSE Step(f[i - 1], t[i])
    BY <1>2 DEF IsScan, n
  <2>3. \A i \in (start - 1)..n :
          g[i] = IF i < start THEN Scanning(0, 0)
                 ELSE IF g[i - 1].depth = 0 /\ i > start THEN g[i - 1]
                 ELSE Step(g[i - 1], t[i])
    BY <1>2 DEF IsScan, n
  <2>4. start - 1 \in P
    <3>1. start - 1 \in (start - 1)..n /\ start - 1 < start
      BY <1>1
    <3> QED
      BY <2>2, <2>3, <3>1
  <2>5. ASSUME NEW i \in (start - 1) + 1..n, i - 1 \in P PROVE i \in P
    <3>1. i \in (start - 1)..n
      BY <1>1
    <3>2. f[i - 1] = g[i - 1]
      BY <2>5
    <3> QED
      BY <2>2, <2>3, <3>1, <3>2
  <2>6. \A i \in (start - 1)..n : i \in P
    <3> HIDE DEF P
    <3> QED
      BY <1>1, <2>4, <2>5, UpTo
  <2> QED
    BY <2>1, <2>6
<1>3. (CHOOSE g : IsScan(g, t, start)) = h
  BY <1>2
<1>4. Scanner!Matching(t, start) =
        LET end == (CHOOSE g : IsScan(g, t, start))[Len(t)]
        IN  IF end.depth = 0 THEN start + end.length - 1 ELSE 0
  BY Zenon DEF Scanner!Matching, IsScan, Step, Scanning, ScanState
<1> QED
  BY <1>3, <1>4

(* What the scan finds when it leaves the braces after m characters, or not   *)
(* at all before the end of the text.                                        *)
LEMMA ScanOfTrace ==
  ASSUME NEW t \in Seq(Chars), NEW start \in 1..Len(t), NEW m \in 1..Len(t) - start + 1, NEW tr,
         tr[0] = Scanning(0, 0),
         \A j \in 1..m : tr[j] = Step(tr[j - 1], t[start - 1 + j]),
         \A j \in 1..m - 1 : tr[j].depth # 0,
         m = Len(t) - start + 1 \/ tr[m].depth = 0
  PROVE  Scanner!Matching(t, start) =
           IF tr[m].depth = 0 THEN start + tr[m].length - 1 ELSE 0
<1> DEFINE n == Len(t)
           b == start - 1
           h == [i \in b..n |-> IF i - b <= m THEN tr[i - b] ELSE tr[m]]
<1>1. /\ n \in Nat /\ start \in Nat /\ b \in Nat /\ b < n /\ m \in Nat
      /\ 1 <= m /\ m <= n - b /\ start = b + 1
  BY LenProperties
<1>2. m = n - b \/ tr[m].depth = 0
  BY <1>1
<1>3. \A j \in 1..m : tr[j] = Step(tr[j - 1], t[b + j])
  OBVIOUS
<1> HIDE DEF n, b
<1>4. \A i \in b..n : h[i] = IF i - b <= m THEN tr[i - b] ELSE tr[m]
  OBVIOUS
<1>5. h = [i \in b..n |-> h[i]]
  OBVIOUS
<1> HIDE DEF h
<1>6. h[n] = tr[m]
  <2>1. n \in b..n /\ (n - b <= m => n - b = m)
    BY <1>1
  <2> QED
    BY <1>4, <2>1
<1>7. ASSUME NEW i \in b..n
      PROVE  h[i] = IF i < start THEN Scanning(0, 0)
                    ELSE IF h[i - 1].depth = 0 /\ i > start THEN h[i - 1]
                    ELSE Step(h[i - 1], t[i])
  <2> DEFINE j == i - b
  <2>1. j \in Nat /\ i = b + j /\ (i < start <=> j = 0) /\ (i > start <=> j > 1) /\ i <= n
    BY <1>1
  <2>0. i - b = j /\ i - 1 - b = j - 1 /\ i \in Nat
    BY <1>1
  <2> HIDE DEF j
  <2>2. CASE j = 0
    <3>1. i - b = 0 /\ 0 <= m
      BY <1>1, <2>1, <2>2
    <3> QED
      BY <1>4, <2>1, <2>2, <3>1
  <2>3. CASE j # 0 /\ j <= m
    <3>1. /\ i - 1 \in b..n /\ i - 1 - b = j - 1 /\ j - 1 <= m /\ i - b = j /\ j \in 1..m
          /\ i - b <= m /\ i - 1 - b <= m
      BY <1>1, <2>1, <2>3
    <3>2. h[i] = tr[j] /\ h[i - 1] = tr[j - 1]
      BY <1>4, <3>1
    <3>3. tr[j] = Step(tr[j - 1], t[i])
      BY <1>3, <2>1, <3>1
    <3>4. i > start => tr[j - 1].depth # 0
      <4>1. m \in Nat /\ j \in Nat /\ j <= m /\ (i > start => j > 1)
        BY <1>1, <2>1, <2>3
      <4>2. i > start => j - 1 \in 1..m - 1
        BY <4>1
      <4> QED
        BY <4>2
    <3> QED
      BY <2>1, <2>3, <3>2, <3>3, <3>4
  <2>4. CASE j # 0 /\ ~(j <= m)
    <3>0. m \in Nat /\ 1 <= m /\ j \in Nat /\ j >= m + 1
      BY <1>1, <2>1, <2>4
    <3>1. /\ i - 1 \in b..n /\ ~(i - b <= m) /\ (i - 1 - b <= m => i - 1 - b = m)
          /\ i > start
      <4>1. ~(j <= m) /\ (j - 1 <= m => j - 1 = m) /\ i > start
        BY <2>1, <3>0
      <4>2. i - 1 \in b..n
        BY <1>1, <2>1, <3>0
      <4> QED
        BY <2>0, <4>1, <4>2
    <3>2. h[i] = tr[m] /\ h[i - 1] = tr[m]
      BY <1>4, <3>1
    <3>3. m # n - b
      BY <1>1, <2>1, <2>4
    <3> QED
      BY <1>2, <2>1, <2>4, <3>1, <3>2, <3>3
  <2> QED
    BY <2>2, <2>3, <2>4
<1>8. IsScan(h, t, start)
  BY <1>5, <1>7 DEF IsScan, n, b
<1> QED
  BY <1>6, <1>8, MatchingIs DEF n

(* The scan of x from its first character, inside braces all the way.         *)
LEMMA OpenedText ==
  ASSUME NEW v \in Seq(Chars), NEW u, Runs(Scanning(1, 1), v, u)
  PROVE  /\ <<Scanner!Open>> \o v \in Seq(Chars)
         /\ Len(<<Scanner!Open>> \o v) = Len(v) + 1
         /\ Runs(Scanning(0, 0), <<Scanner!Open>> \o v, u)
<1>1. Scanner!Open \in Chars
  BY DEF Chars
<1>2. <<Scanner!Open>> \in Seq(Chars) /\ Len(<<Scanner!Open>>) = 1 /\ Len(v) \in Nat
  BY <1>1, LenProperties
<1>3. Runs(Scanning(0, 0), <<Scanner!Open>>, Scanning(1, 1))
  <2>1. Step(Scanning(0, 0), Scanner!Open) = Scanning(0 + 1, 0 + 1)
    BY Steps
  <2>2. Scanning(1, 1).depth # 0
    BY Depths
  <2> QED
    BY <1>1, <2>1, <2>2, RunsOne
<1>4. Runs(Scanning(0, 0), <<Scanner!Open>> \o v, u)
  BY <1>2, <1>3, RunsConcat
<1>5. /\ <<Scanner!Open>> \o v \in Seq(Chars)
      /\ Len(<<Scanner!Open>> \o v) = 1 + Len(v)
  BY <1>2, ConcatProperties
<1> QED
  BY <1>2, <1>4, <1>5

(* Three texts after one another.                                             *)
ThreeTexts(p, q, r) ==
  /\ p \o q \o r \in Seq(Chars)
  /\ Len(p \o q \o r) = Len(p) + Len(q) + Len(r)
  /\ \A j \in 1..Len(q) : (p \o q \o r)[Len(p) + j] = q[j]

LEMMA ThreeParts ==
  ASSUME NEW p \in Seq(Chars), NEW q \in Seq(Chars), NEW r \in Seq(Chars)
  PROVE  ThreeTexts(p, q, r)
<1> DEFINE pq == p \o q
<1>1. Len(p) \in Nat /\ Len(q) \in Nat /\ Len(r) \in Nat
  BY LenProperties
<1>2. pq \in Seq(Chars) /\ Len(pq) = Len(p) + Len(q)
  BY ConcatProperties
<1>3. ASSUME NEW j \in 1..Len(q) PROVE pq[Len(p) + j] = q[j]
  <2>1. /\ Len(p) + j \in 1..Len(p) + Len(q) /\ ~(Len(p) + j <= Len(p))
        /\ Len(p) + j - Len(p) = j
    BY <1>1
  <2> QED
    BY <2>1, ConcatProperties
<1> HIDE DEF pq
<1>4. pq \o r \in Seq(Chars) /\ Len(pq \o r) = Len(pq) + Len(r)
  BY <1>2, ConcatProperties
<1>5. ASSUME NEW j \in 1..Len(q) PROVE (pq \o r)[Len(p) + j] = pq[Len(p) + j]
  <2>1. Len(p) + j \in 1..Len(pq) + Len(r) /\ Len(p) + j <= Len(pq)
    BY <1>1, <1>2
  <2> QED
    BY <1>2, <2>1, ConcatProperties
<1> QED
  BY <1>2, <1>3, <1>4, <1>5 DEF pq, ThreeTexts

(* An object ends where it ends, whatever comes before and after it.          *)
LEMMA Matched ==
  ASSUME NEW p \in Seq(Chars), NEW v \in Seq(Chars), NEW r \in Seq(Chars), Inside(v)
  PROVE  Scanner!Matching(p \o Braced(v) \o r, Len(p) + 1) = Len(p) + Len(v) + 2
<1> DEFINE x == <<Scanner!Open>> \o v
           t == p \o Braced(v) \o r
           k == Len(v)
           a == Len(p)
<1>1. /\ k \in Nat /\ a \in Nat /\ Len(r) \in Nat
      /\ Braced(v) \in Seq(Chars) /\ Len(Braced(v)) = k + 2
  BY LenProperties, BracedInside
<1>2. Runs(Scanning(1, 1), v, Scanning(1, 1 + k))
  BY DEF Inside
<1>3. x \in Seq(Chars) /\ Len(x) = k + 1 /\ Runs(Scanning(0, 0), x, Scanning(1, 1 + k))
  BY <1>2, OpenedText
<1>4. PICK f : Trace(f, Scanning(0, 0), x, Scanning(1, 1 + k))
  BY <1>3 DEF Runs
<1>5. \A j \in 1..k + 2 : Braced(v)[j] = IF j <= k + 1 THEN x[j] ELSE Scanner!Close
  <2>1. <<Scanner!Close>> \in Seq(Chars) /\ Len(<<Scanner!Close>>) = 1
    BY DEF Chars
  <2> HIDE DEF x
  <2>2. \A j \in 1..k + 2 :
          (x \o <<Scanner!Close>>)[j] = IF j <= k + 1 THEN x[j] ELSE <<Scanner!Close>>[j - (k + 1)]
    BY <1>1, <1>3, <2>1, ConcatProperties
  <2>3. Braced(v) = x \o <<Scanner!Close>>
    BY DEF Braced, x
  <2>4. \A j \in 1..k + 2 : ~(j <= k + 1) => j - (k + 1) = 1
    BY <1>1
  <2>5. <<Scanner!Close>>[1] = Scanner!Close
    OBVIOUS
  <2> HIDE DEF k
  <2> QED
    BY <2>2, <2>3, <2>4, <2>5
<1>6. t \in Seq(Chars) /\ Len(t) = a + (k + 2) + Len(r) /\
      \A j \in 1..k + 2 : t[a + j] = Braced(v)[j]
  <2> DEFINE q == Braced(v)
  <2>1. q \in Seq(Chars) /\ Len(q) = k + 2
    BY <1>1
  <2> HIDE DEF q, x, t, k, a
  <2>2. ThreeTexts(p, q, r)
    BY <2>1, ThreeParts
  <2> QED
    BY <2>1, <2>2 DEF ThreeTexts, q, t, a
<1> DEFINE tr == [j \in 0..k + 2 |-> IF j <= k + 1 THEN f[j] ELSE Scanning(0, k + 2)]
<1>7. /\ f[0] = Scanning(0, 0) /\ f[k + 1] = Scanning(1, 1 + k)
      /\ \A j \in 1..k + 1 : f[j] = Step(f[j - 1], x[j]) /\ f[j].depth # 0
  BY <1>3, <1>4 DEF Trace
<1> HIDE DEF x, t, k, a
<1>8. \A j \in 0..k + 2 : tr[j] = IF j <= k + 1 THEN f[j] ELSE Scanning(0, k + 2)
  OBVIOUS
<1> HIDE DEF tr
<1>9. tr[0] = Scanning(0, 0) /\ tr[k + 2] = Scanning(0, k + 2)
  <2>1. 0 \in 0..k + 2 /\ 0 <= k + 1 /\ k + 2 \in 0..k + 2 /\ ~(k + 2 <= k + 1)
    BY <1>1
  <2> QED
    BY <1>7, <1>8, <2>1
<1>10. ASSUME NEW j \in 1..k + 2 PROVE tr[j] = Step(tr[j - 1], t[a + j])
  <2>1. j - 1 \in 0..k + 2 /\ j \in 0..k + 2 /\ j - 1 <= k + 1
    BY <1>1
  <2>2. CASE j <= k + 1
    <3>1. j \in 1..k + 1
      BY <1>1, <2>2
    <3> QED
      BY <1>5, <1>6, <1>7, <1>8, <2>1, <2>2, <3>1
  <2>3. CASE j = k + 2
    <3>1. ~(j <= k + 1) /\ j - 1 = k + 1 /\ 1 - 1 = 0 /\ 1 + k + 1 = k + 2
      BY <1>1, <2>3
    <3>2. tr[j - 1] = Scanning(1, 1 + k) /\ t[a + j] = Scanner!Close
      BY <1>5, <1>6, <1>7, <1>8, <2>1, <3>1
    <3>3. Step(Scanning(1, 1 + k), Scanner!Close) = Scanning(1 - 1, 1 + k + 1)
      BY Steps
    <3> QED
      BY <1>9, <2>3, <3>1, <3>2, <3>3
  <2> QED
    BY <1>1, <2>2, <2>3
<1>11. \A j \in 1..(k + 2) - 1 : tr[j].depth # 0
  <2>1. \A j \in 1..(k + 2) - 1 : j \in 0..k + 2 /\ j <= k + 1 /\ j \in 1..k + 1
    BY <1>1
  <2> QED
    BY <1>7, <1>8, <2>1
<1>12. tr[k + 2].depth = 0 /\ tr[k + 2].length = k + 2
  <2>1. Scanning(0, k + 2).length = k + 2
    BY Zenon DEF Scanning, ScanState
  <2> QED
    BY <1>9, <2>1, Depths
<1>13. /\ a + 1 \in 1..Len(t) /\ k + 2 \in 1..Len(t) - (a + 1) + 1
       /\ a + 1 - 1 = a /\ a + 1 + (k + 2) - 1 = a + k + 2
  BY <1>1, <1>6
<1>14. \A j \in 1..k + 2 : tr[j] = Step(tr[j - 1], t[(a + 1) - 1 + j])
  BY <1>1, <1>10, <1>13
<1>15. Scanner!Matching(t, a + 1) = a + 1 + (k + 2) - 1
  <2> DEFINE m == k + 2
             b == a + 1
  <2>1. /\ t \in Seq(Chars) /\ b \in 1..Len(t) /\ m \in 1..Len(t) - b + 1
        /\ tr[0] = Scanning(0, 0)
        /\ \A j \in 1..m : tr[j] = Step(tr[j - 1], t[b - 1 + j])
        /\ \A j \in 1..m - 1 : tr[j].depth # 0
        /\ tr[m].depth = 0 /\ tr[m].length = m
    <3>1. t \in Seq(Chars) /\ b \in 1..Len(t) /\ m \in 1..Len(t) - b + 1
      BY <1>6, <1>13
    <3>2. tr[0] = Scanning(0, 0) /\ \A j \in 1..m - 1 : tr[j].depth # 0
      BY <1>9, <1>11
    <3>3. \A j \in 1..m : tr[j] = Step(tr[j - 1], t[b - 1 + j])
      BY <1>14
    <3>4. tr[m].depth = 0 /\ tr[m].length = m
      BY <1>12
    <3> QED
      BY <3>1, <3>2, <3>3, <3>4
  <2> HIDE DEF m, b
  <2>2. Scanner!Matching(t, b) =
          IF tr[m].depth = 0 THEN b + tr[m].length - 1 ELSE 0
    BY <2>1, ScanOfTrace
  <2>3. Scanner!Matching(t, b) = b + m - 1
    BY <2>1, <2>2
  <2> QED
    BY <2>3 DEF m, b
<1> QED
  BY <1>13, <1>15 DEF t, a, k

(* A brace that nothing closes has no end.                                    *)
LEMMA Unmatched ==
  ASSUME NEW p \in Seq(Chars), NEW v \in Seq(Chars), NEW u, Runs(Scanning(1, 1), v, u)
  PROVE  Scanner!Matching(p \o (<<Scanner!Open>> \o v), Len(p) + 1) = 0
<1> DEFINE x == <<Scanner!Open>> \o v
           t == p \o x
           m == Len(x)
           a == Len(p)
<1>1. x \in Seq(Chars) /\ m = Len(v) + 1 /\ Runs(Scanning(0, 0), x, u)
  BY OpenedText
<1>2. PICK f : Trace(f, Scanning(0, 0), x, u)
  BY <1>1 DEF Runs
<1>3. a \in Nat /\ Len(v) \in Nat
  BY LenProperties
<1>4. /\ f[0] = Scanning(0, 0)
      /\ \A j \in 1..m : f[j] = Step(f[j - 1], x[j]) /\ f[j].depth # 0
  BY <1>2 DEF Trace
<1> HIDE DEF x
<1>5. t \in Seq(Chars) /\ Len(t) = a + m
  BY <1>1, ConcatProperties
<1>6. ASSUME NEW j \in 1..m PROVE t[a + j] = x[j]
  <2>1. a + j \in 1..a + m /\ ~(a + j <= a) /\ a + j - a = j
    BY <1>1, <1>3
  <2> QED
    BY <1>1, <2>1, ConcatProperties
<1> HIDE DEF t, m, a
<1>7. /\ a + 1 \in 1..Len(t) /\ m \in 1..Len(t) - (a + 1) + 1
      /\ a + 1 - 1 = a /\ m = Len(t) - (a + 1) + 1 /\ m \in 1..m
  BY <1>1, <1>3, <1>5
<1>8. \A j \in 1..m : f[j] = Step(f[j - 1], t[(a + 1) - 1 + j])
  BY <1>3, <1>4, <1>6, <1>7
<1>9. /\ \A j \in 1..m - 1 : f[j].depth # 0
      /\ f[m].depth # 0
  <2>1. \A j \in 1..m - 1 : j \in 1..m
    BY <1>7
  <2> QED
    BY <1>4, <1>7, <2>1
<1>10. Scanner!Matching(t, a + 1) = 0
  BY <1>4, <1>5, <1>7, <1>8, <1>9, ScanOfTrace
<1> QED
  BY <1>10 DEF t, a, x
-----------------------------------------------------------------------------
(* How the search for objects passes the position i of the text t, where it   *)
(* knew e before and knows f after: something was skipped, a brace that       *)
(* nothing closes was passed over, or an object was found.                    *)
Skips(t, i, e, f) == f = e /\ (i < e.next \/ t[i] # Scanner!Open)
Unclosed(t, i) ==
  \E p, r \in Seq(Chars) :
    /\ t = p \o (<<Scanner!Open>> \o r) /\ Len(p) = i - 1
    /\ Runs(Scanning(1, 1), r, Scanning(1, 1 + Len(r)))
Stands(t, i, o) ==
  \E p, r \in Seq(Chars) : t = p \o o \o r /\ Len(p) = i - 1
Finds(t, i, e, f) ==
  \E o \in Scanner!Objects :
    /\ Stands(t, i, o)
    /\ ~(i < e.next)
    /\ f = [next |-> i + Len(o), found |-> Append(e.found, o)]
Passes(t, i, e, f, unclosed) ==
  \/ Skips(t, i, e, f)
  \/ unclosed = TRUE /\ Unclosed(t, i) /\ f = e
  \/ Finds(t, i, e, f)

Nothing == [next |-> 1, found |-> <<>>]
(* The whole search of t, h at its positions, that found fs.                  *)
Search(t, h, unclosed, fs) ==
  /\ h = [i \in 0..Len(t) |-> h[i]]
  /\ h[0] = Nothing
  /\ \A i \in 1..Len(t) : Passes(t, i, h[i - 1], h[i], unclosed)
  /\ h[Len(t)].next \in Nat /\ h[Len(t)].next <= Len(t) + 1
  /\ h[Len(t)].found = fs

(* A step of the search as the code takes it.                                 *)
Object(t, i) == SubSeq(t, i, Scanner!Matching(t, i))
AfterStep(t, i, e) ==
  IF i < e.next \/ t[i] # Scanner!Open \/ Scanner!Matching(t, i) = 0 THEN e
  ELSE [next |-> Scanner!Matching(t, i) + 1,
        found |-> IF Scanner!TryParseObject(Object(t, i)) THEN Append(e.found, Object(t, i))
                  ELSE e.found]
IsSearch(h, t) ==
  h = [i \in 0..Len(t) |-> IF i = 0 THEN Nothing ELSE AfterStep(t, i, h[i - 1])]

LEMMA FoundInProseIs ==
  ASSUME NEW t \in Seq(Chars), NEW h, IsSearch(h, t)
  PROVE  Scanner!FoundInProse(t) = h[Len(t)].found
<1> DEFINE n == Len(t)
<1>1. n \in Nat
  BY LenProperties
<1> HIDE DEF n
<1>2. ASSUME NEW f, NEW g, IsSearch(f, t), IsSearch(g, t) PROVE f = g
  <2> DEFINE P == {i \in 0..n : f[i] = g[i]}
  <2>1. f = [i \in 0..n |-> f[i]] /\ g = [i \in 0..n |-> g[i]]
    BY <1>2 DEF IsSearch, n
  <2>2. \A i \in 0..n : f[i] = IF i = 0 THEN Nothing ELSE AfterStep(t, i, f[i - 1])
    BY <1>2 DEF IsSearch, n
  <2>3. \A i \in 0..n : g[i] = IF i = 0 THEN Nothing ELSE AfterStep(t, i, g[i - 1])
    BY <1>2 DEF IsSearch, n
  <2>4. 0 \in P
    BY <1>1, <2>2, <2>3
  <2>5. ASSUME NEW i \in 0 + 1..n, i - 1 \in P PROVE i \in P
    <3>1. i \in 0..n /\ f[i - 1] = g[i - 1]
      BY <1>1, <2>5
    <3> QED
      BY <2>2, <2>3, <3>1
  <2>6. \A i \in 0..n : i \in P
    <3> HIDE DEF P
    <3> QED
      BY <1>1, <2>4, <2>5, UpTo
  <2> QED
    BY <2>1, <2>6
<1>3. (CHOOSE g : IsSearch(g, t)) = h
  BY <1>2
<1>4. Scanner!FoundInProse(t) = (CHOOSE g : IsSearch(g, t))[Len(t)].found
  BY Zenon DEF Scanner!FoundInProse, IsSearch, AfterStep, Nothing, Object
<1> QED
  BY <1>3, <1>4

(* The part in the middle of a text.                                          *)
LEMMA MiddlePart ==
  ASSUME NEW p \in Seq(Chars), NEW q \in Seq(Chars), NEW r \in Seq(Chars), Len(q) # 0
  PROVE  SubSeq(p \o q \o r, Len(p) + 1, Len(p) + Len(q)) = q
<1> DEFINE t == p \o q \o r
           a == Len(p)
           k == Len(q)
           w == SubSeq(t, a + 1, a + k)
<1>1. a \in Nat /\ k \in Nat /\ Len(r) \in Nat
  BY LenProperties
<1>2. t \in Seq(Chars) /\ Len(t) = a + k + Len(r) /\ \A j \in 1..k : t[a + j] = q[j]
  BY ThreeParts DEF ThreeTexts
<1> HIDE DEF t, a, k
<1>3. a + 1 \in 1..Len(t) /\ a + k \in a + 1..Len(t) /\ a + k - (a + 1) + 1 = k
  BY <1>1, <1>2 DEF k
<1>4. w \in Seq(Chars) /\ Len(w) = k /\ \A j \in 1..k : w[j] = t[a + 1 + j - 1]
  BY <1>1, <1>2, <1>3, SubSeqProperties
<1>5. \A j \in 1..k : w[j] = q[j]
  <2>1. \A j \in 1..k : a + 1 + j - 1 = a + j
    BY <1>1
  <2> QED
    BY <1>2, <1>4, <2>1
<1>6. w = q
  <2> HIDE DEF w
  <2> QED
    BY <1>4, <1>5, SeqEqual DEF k
<1> QED
  BY <1>6 DEF t, a, k

(* The code takes the steps described.                                        *)
LEMMA PassesAsInCode ==
  ASSUME NEW t \in Seq(Chars), NEW i \in 1..Len(t), NEW e, NEW f, NEW unclosed,
         Passes(t, i, e, f, unclosed)
  PROVE  f = AfterStep(t, i, e)
<1>1. CASE Skips(t, i, e, f)
  BY <1>1 DEF Skips, AfterStep
<1>2. CASE Unclosed(t, i) /\ f = e
  <2>1. PICK p \in Seq(Chars), r \in Seq(Chars) :
          /\ t = p \o (<<Scanner!Open>> \o r) /\ Len(p) = i - 1
          /\ Runs(Scanning(1, 1), r, Scanning(1, 1 + Len(r)))
    BY <1>2 DEF Unclosed
  <2>2. Scanner!Matching(t, Len(p) + 1) = 0
    BY <2>1, Unmatched
  <2>3. i = Len(p) + 1
    BY <2>1, LenProperties
  <2> QED
    BY <1>2, <2>2, <2>3 DEF AfterStep
<1>3. CASE Finds(t, i, e, f)
  <2>1. PICK o \in Scanner!Objects :
          Stands(t, i, o) /\ ~(i < e.next)
          /\ f = [next |-> i + Len(o), found |-> Append(e.found, o)]
    BY <1>3 DEF Finds
  <2>2. PICK p \in Seq(Chars), r \in Seq(Chars) : t = p \o o \o r /\ Len(p) = i - 1
    BY <2>1 DEF Stands
  <2>3. PICK v \in Seq(Chars) : Inside(v) /\ o = Braced(v)
    BY ObjectShape
  <2>4. o \in Seq(Chars) /\ Len(o) = Len(v) + 2 /\ Len(v) \in Nat /\ Len(p) \in Nat
    BY <2>3, BracedInside, LenProperties
  <2>5. Len(p) + 1 = i /\ Len(p) + Len(v) + 2 = i + Len(o) - 1 /\ Len(o) # 0
        /\ Len(p) + Len(o) = i + Len(o) - 1 /\ i + Len(o) - 1 # 0
        /\ i + Len(o) - 1 + 1 = i + Len(o)
    <3> DEFINE lp == Len(p)
               lv == Len(v)
               lo == Len(o)
    <3>1. lp \in Nat /\ lv \in Nat /\ lo = lv + 2 /\ lp = i - 1 /\ i \in Nat
      BY <2>2, <2>4
    <3> HIDE DEF lp, lv, lo
    <3>2. /\ lp + 1 = i /\ lp + lv + 2 = i + lo - 1 /\ lo # 0 /\ lp + lo = i + lo - 1
          /\ i + lo - 1 # 0 /\ i + lo - 1 + 1 = i + lo
      BY <3>1
    <3> QED
      BY <3>2 DEF lp, lv, lo
  <2>6. Scanner!Matching(t, i) = i + Len(o) - 1
    BY <2>2, <2>3, <2>5, Matched
  <2>7. Object(t, i) = o
    <3>1. SubSeq(p \o o \o r, Len(p) + 1, Len(p) + Len(o)) = o
      BY <2>4, <2>5, MiddlePart
    <3> QED
      BY <2>2, <2>5, <2>6, <3>1 DEF Object
  <2>8. t[i] = Scanner!Open
    <3>0. ThreeTexts(p, o, r)
      BY <2>4, ThreeParts
    <3>1. 1 \in 1..Len(o)
      BY <2>4
    <3>2. t[i] = o[1]
      BY <2>2, <2>4, <2>5, <3>1, <3>0 DEF ThreeTexts
    <3>3. o[1] = Scanner!Open
      <4>1. /\ <<Scanner!Open>> \in Seq(Chars) /\ <<Scanner!Close>> \in Seq(Chars)
            /\ Len(<<Scanner!Open>>) = 1 /\ <<Scanner!Open>>[1] = Scanner!Open
        BY DEF Chars
      <4>2. /\ <<Scanner!Open>> \o v \in Seq(Chars)
            /\ Len(<<Scanner!Open>> \o v) = 1 + Len(v)
            /\ (<<Scanner!Open>> \o v)[1] = Scanner!Open
        BY <2>4, <4>1, ConcatProperties
      <4>3. /\ 1 \in 1..Len(<<Scanner!Open>> \o v) + Len(<<Scanner!Close>>)
            /\ 1 <= Len(<<Scanner!Open>> \o v)
        BY <2>4, <4>1, <4>2
      <4>4. Braced(v)[1] = Scanner!Open
        BY <4>1, <4>2, <4>3, ConcatProperties DEF Braced
      <4> QED
        BY <2>3, <4>4
    <3> QED
      BY <3>2, <3>3
  <2>9. Scanner!TryParseObject(o)
    BY DEF Scanner!TryParseObject
  <2>10. AfterStep(t, i, e) = [next |-> Scanner!Matching(t, i) + 1, found |-> Append(e.found, o)]
    BY <2>1, <2>5, <2>6, <2>7, <2>8, <2>9 DEF AfterStep
  <2> QED
    BY <2>1, <2>5, <2>6, <2>10
<1> QED
  BY <1>1, <1>2, <1>3 DEF Passes

LEMMA SearchFinds ==
  ASSUME NEW t \in Seq(Chars), NEW h, NEW unclosed, NEW fs, Search(t, h, unclosed, fs)
  PROVE  Scanner!FoundInProse(t) = fs
<1>1. /\ h = [i \in 0..Len(t) |-> h[i]] /\ h[0] = Nothing /\ h[Len(t)].found = fs
      /\ \A i \in 1..Len(t) : Passes(t, i, h[i - 1], h[i], unclosed)
  BY DEF Search
<1>2. \A i \in 1..Len(t) : h[i] = AfterStep(t, i, h[i - 1])
  BY <1>1, PassesAsInCode
<1>3. \A i \in 0..Len(t) : h[i] = IF i = 0 THEN Nothing ELSE AfterStep(t, i, h[i - 1])
  <2>1. \A i \in 0..Len(t) : i = 0 \/ i \in 1..Len(t)
    BY LenProperties
  <2> QED
    BY <1>1, <1>2, <2>1
<1>4. IsSearch(h, t)
  BY <1>1, <1>3 DEF IsSearch
<1> QED
  BY <1>1, <1>4, FoundInProseIs
-----------------------------------------------------------------------------
Regroups(p, q, r) == (p \o q) \o r = p \o (q \o r)

LEMMA Associates ==
  ASSUME NEW p \in Seq(Chars), NEW q \in Seq(Chars), NEW r \in Seq(Chars)
  PROVE  Regroups(p, q, r)
BY ConcatAssociative, SMTT(30) DEF Regroups

(* What has been passed stays so when the text goes on.                       *)
LEMMA PassedStays ==
  ASSUME NEW t \in Seq(Chars), NEW x \in Seq(Chars), NEW i \in 1..Len(t),
         NEW e, NEW f, NEW unclosed, NEW later, Passes(t, i, e, f, unclosed),
         unclosed = TRUE => later = TRUE /\ Inside(x)
  PROVE  Passes(t \o x, i, e, f, later)
<1>1. CASE Skips(t, i, e, f)
  <2>1. (t \o x)[i] = t[i]
    <3>1. i \in 1..Len(t) + Len(x) /\ i <= Len(t)
      BY LenProperties
    <3> QED
      BY <3>1, ConcatProperties
  <2> QED
    BY <1>1, <2>1 DEF Skips, Passes
<1>2. CASE unclosed = TRUE /\ Unclosed(t, i) /\ f = e
  <2>1. PICK p \in Seq(Chars), r \in Seq(Chars) :
          /\ t = p \o (<<Scanner!Open>> \o r) /\ Len(p) = i - 1
          /\ Runs(Scanning(1, 1), r, Scanning(1, 1 + Len(r)))
    BY <1>2 DEF Unclosed
  <2>2. /\ r \o x \in Seq(Chars) /\ Len(r \o x) = Len(r) + Len(x)
        /\ Len(r) \in Nat /\ Len(x) \in Nat
    BY LenProperties, ConcatProperties
  <2>3. 1 + Len(r) \in Nat /\ 1 + Len(r) + Len(x) = 1 + Len(r \o x)
    BY <2>2
  <2>4. Runs(Scanning(1, 1 + Len(r)), x, Scanning(1, 1 + Len(r) + Len(x)))
    BY <1>2, <2>3 DEF Inside
  <2>5. Runs(Scanning(1, 1), r \o x, Scanning(1, 1 + Len(r \o x)))
    BY <2>1, <2>3, <2>4, RunsConcat
  <2>6. t \o x = p \o (<<Scanner!Open>> \o (r \o x))
    <3>1. <<Scanner!Open>> \in Seq(Chars)
      BY DEF Chars
    <3>2. <<Scanner!Open>> \o r \in Seq(Chars)
      BY <3>1, ConcatProperties
    <3>3. Regroups(<<Scanner!Open>>, r, x)
      BY <3>1, Associates
    <3>4. Regroups(p, <<Scanner!Open>> \o r, x)
      BY <3>2, Associates
    <3> QED
      BY <2>1, <3>3, <3>4 DEF Regroups
  <2>7. Unclosed(t \o x, i)
    BY <2>1, <2>2, <2>5, <2>6 DEF Unclosed
  <2> QED
    BY <1>2, <2>7 DEF Passes
<1>3. CASE Finds(t, i, e, f)
  <2>1. ASSUME NEW o \in Scanner!Objects, Stands(t, i, o) PROVE Stands(t \o x, i, o)
    <3>1. PICK p \in Seq(Chars), r \in Seq(Chars) : t = p \o o \o r /\ Len(p) = i - 1
      BY <2>1 DEF Stands
    <3>2. o \in Seq(Chars)
      BY ObjectShape, BracedInside
    <3>3. p \o o \in Seq(Chars) /\ r \o x \in Seq(Chars)
      BY <3>2, ConcatProperties
    <3>4. Regroups(p \o o, r, x)
      BY <3>3, Associates
    <3>5. t \o x = p \o o \o (r \o x)
      BY <3>1, <3>4 DEF Regroups
    <3> QED
      BY <3>1, <3>3, <3>5 DEF Stands
  <2> QED
    BY <1>3, <2>1 DEF Finds, Passes
<1> QED
  BY <1>1, <1>2, <1>3 DEF Passes

(* A search goes on over what is added to its text.                           *)
LEMMA SearchGoesOn ==
  ASSUME NEW t \in Seq(Chars), NEW x \in Seq(Chars), NEW h, NEW unclosed, NEW fs,
         Search(t, h, unclosed, fs), NEW later, NEW f, NEW gs,
         unclosed = TRUE => later = TRUE /\ Inside(x), Len(x) # 0,
         Passes(t \o x, Len(t) + 1, h[Len(t)], f, later),
         \A i \in Len(t) + 2..Len(t) + Len(x) : Passes(t \o x, i, f, f, later),
         f.next \in Nat, f.next <= Len(t) + Len(x) + 1, f.found = gs
  PROVE  \E g : Search(t \o x, g, later, gs)
<1> DEFINE n == Len(t)
           k == Len(x)
           tx == t \o x
           g == [i \in 0..n + k |-> IF i <= n THEN h[i] ELSE f]
<1>1. n \in Nat /\ k \in Nat /\ k >= 1
  BY LenProperties
<1>2. tx \in Seq(Chars) /\ Len(tx) = n + k
  BY ConcatProperties
<1>3. /\ h[0] = Nothing
      /\ \A i \in 1..n : Passes(t, i, h[i - 1], h[i], unclosed)
  BY DEF Search
<1> HIDE DEF n, k, tx
<1>4. \A i \in 0..n + k : g[i] = IF i <= n THEN h[i] ELSE f
  OBVIOUS
<1>5. g = [i \in 0..n + k |-> g[i]]
  OBVIOUS
<1> HIDE DEF g
<1>6. g[0] = Nothing /\ g[n + k] = f
  <2>1. 0 \in 0..n + k /\ 0 <= n /\ n + k \in 0..n + k /\ ~(n + k <= n)
    BY <1>1
  <2> QED
    BY <1>3, <1>4, <2>1
<1>7. ASSUME NEW i \in 1..n + k PROVE Passes(tx, i, g[i - 1], g[i], later)
  <2>1. CASE i <= n
    <3>1. i \in 1..n /\ i \in 0..n + k /\ i - 1 \in 0..n + k /\ i - 1 <= n
      BY <1>1, <2>1
    <3>2. g[i] = h[i] /\ g[i - 1] = h[i - 1] /\ Passes(t, i, h[i - 1], h[i], unclosed)
      BY <1>3, <1>4, <2>1, <3>1
    <3>3. i \in 1..Len(t)
      BY <3>1 DEF n
    <3>4. Passes(t \o x, i, h[i - 1], h[i], later)
      BY <3>2, <3>3, PassedStays
    <3> QED
      BY <3>2, <3>4 DEF tx
  <2>2. CASE i = n + 1
    <3>1. /\ n + 1 \in 0..n + k /\ n \in 0..n + k /\ n <= n /\ ~(n + 1 <= n) /\ i - 1 = n
      BY <1>1, <2>2
    <3>2. g[i] = f /\ g[i - 1] = h[n]
      BY <1>4, <2>2, <3>1
    <3> QED
      BY <2>2, <3>2 DEF tx, n
  <2>3. CASE i > n + 1
    <3>1. /\ i \in 0..n + k /\ i - 1 \in 0..n + k /\ ~(i <= n) /\ ~(i - 1 <= n)
          /\ i \in n + 2..n + k
      BY <1>1, <2>3
    <3>2. g[i] = f /\ g[i - 1] = f
      BY <1>4, <3>1
    <3>3. Passes(tx, i, f, f, later)
      BY <3>1 DEF tx, n, k
    <3> QED
      BY <3>2, <3>3
  <2> QED
    BY <1>1, <2>1, <2>2, <2>3
<1>8. f.next \in Nat /\ f.next <= n + k + 1 /\ f.found = gs
  BY DEF n, k
<1>9. Search(tx, g, later, gs)
  BY <1>2, <1>5, <1>6, <1>7, <1>8 DEF Search
<1> QED
  BY <1>9 DEF tx

(* Prose leaves the search as it was, and so does a brace that nothing closes.*)
LEMMA ProseSearched ==
  ASSUME NEW t \in Seq(Chars), NEW c \in Chars, NEW h, NEW unclosed, NEW later, NEW fs,
         Search(t, h, unclosed, fs),
         unclosed = TRUE => later = TRUE /\ Inside(<<c>>),
         c = Scanner!Open => later = TRUE
  PROVE  \E g : Search(t \o <<c>>, g, later, fs)
<1> DEFINE n == Len(t)
           f == h[n]
           tx == t \o <<c>>
<1>1. n \in Nat /\ <<c>> \in Seq(Chars) /\ Len(<<c>>) = 1 /\ <<c>>[1] = c
  BY LenProperties
<1>2. f.next \in Nat /\ f.next <= n + 1 /\ f.found = fs
  BY DEF Search
<1> HIDE DEF n, f
<1>3. Passes(tx, n + 1, f, f, later)
  <2>1. CASE c = Scanner!Open
    <3>1. tx = t \o (<<Scanner!Open>> \o <<>>)
      <4>1. <<c>> \o <<>> = <<c>>
        BY <1>1, ConcatEmptySeq
      <4> QED
        BY <2>1, <4>1
    <3>2. <<>> \in Seq(Chars) /\ Len(<<>>) = 0 /\ n = (n + 1) - 1
      BY <1>1
    <3>3. Runs(Scanning(1, 1), <<>>, Scanning(1, 1 + Len(<<>>)))
      BY EmptyInside DEF Inside
    <3>4. Unclosed(tx, n + 1)
      <4> HIDE DEF tx
      <4>1. \E r \in Seq(Chars) :
              /\ tx = t \o (<<Scanner!Open>> \o r) /\ Len(t) = (n + 1) - 1
              /\ Runs(Scanning(1, 1), r, Scanning(1, 1 + Len(r)))
        BY <3>1, <3>2, <3>3 DEF n
      <4> QED
        BY <4>1 DEF Unclosed
    <3> QED
      BY <2>1, <3>4 DEF Passes
  <2>2. CASE c # Scanner!Open
    <3>1. tx[n + 1] = c
      <4>1. n + 1 \in 1..n + Len(<<c>>) /\ ~(n + 1 <= n) /\ n + 1 - n = 1
        BY <1>1
      <4> QED
        BY <1>1, <4>1, ConcatProperties DEF n
    <3> QED
      BY <2>2, <3>1 DEF Passes, Skips
  <2> QED
    BY <2>1, <2>2
<1>4. \A i \in n + 2..n + Len(<<c>>) : Passes(tx, i, f, f, later)
  <2>1. n + 2..n + Len(<<c>>) = {}
    BY <1>1
  <2> QED
    BY <2>1
<1>5. f.next <= n + Len(<<c>>) + 1
  BY <1>1, <1>2
<1> DEFINE x == <<c>>
<1> HIDE DEF x, tx
<1>6. /\ x \in Seq(Chars) /\ Len(x) # 0 /\ (unclosed = TRUE => later = TRUE /\ Inside(x))
      /\ tx = t \o x /\ f.next <= n + Len(x) + 1
      /\ \A i \in n + 2..n + Len(x) : Passes(tx, i, f, f, later)
  BY <1>1, <1>4, <1>5 DEF x, tx
<1>7. \E g : Search(t \o x, g, later, fs)
  BY <1>2, <1>3, <1>6, SearchGoesOn DEF n, f
<1> QED
  BY <1>7 DEF x

LEMMA ObjectSearched ==
  ASSUME NEW t \in Seq(Chars), NEW o \in Scanner!Objects, NEW h, NEW unclosed, NEW fs,
         Search(t, h, unclosed, fs)
  PROVE  \E g : Search(t \o o, g, unclosed, Append(fs, o))
<1> DEFINE n == Len(t)
           k == Len(o)
           e == h[n]
           f == [next |-> n + 1 + k, found |-> Append(e.found, o)]
           tx == t \o o
<1>1. o \in Seq(Chars) /\ k \in Nat /\ k >= 2 /\ Inside(o) /\ n \in Nat
  <2>1. PICK v \in Seq(Chars) : Inside(v) /\ o = Braced(v)
    BY ObjectShape
  <2> QED
    BY <2>1, BracedInside, LenProperties
<1>2. e.next \in Nat /\ e.next <= n + 1 /\ e.found = fs
  BY DEF Search
<1> HIDE DEF n, k, e
<1>3. f.next = n + 1 + k /\ f.found = Append(fs, o)
  BY <1>2
<1>4. Passes(tx, n + 1, e, f, unclosed)
  <2>1. tx = t \o o \o <<>> /\ <<>> \in Seq(Chars)
    <3>1. tx \in Seq(Chars)
      BY <1>1, ConcatProperties
    <3> QED
      BY <3>1, ConcatEmptySeq
  <2>2. Stands(tx, n + 1, o)
    <3> HIDE DEF tx
    <3>1. Len(t) = (n + 1) - 1
      BY <1>1 DEF n
    <3>2. \E r \in Seq(Chars) : tx = t \o o \o r /\ Len(t) = (n + 1) - 1
      BY <2>1, <3>1
    <3> QED
      BY <3>2 DEF Stands
  <2>3. ~(n + 1 < e.next)
    BY <1>1, <1>2
  <2> HIDE DEF tx
  <2> QED
    BY <2>2, <2>3 DEF Passes, Finds, k
<1>5. ASSUME NEW i \in n + 2..n + k PROVE Passes(tx, i, f, f, unclosed)
  <2>1. i < f.next
    BY <1>1, <1>3
  <2> QED
    BY <2>1 DEF Passes, Skips
<1>6. f.next \in Nat /\ f.next <= n + k + 1
  BY <1>1, <1>3
<1> HIDE DEF tx, f
<1>7. unclosed = TRUE => unclosed = TRUE /\ Inside(o)
  BY <1>1
<1>8. /\ Len(o) # 0 /\ Passes(t \o o, Len(t) + 1, h[Len(t)], f, unclosed)
      /\ \A i \in Len(t) + 2..Len(t) + Len(o) : Passes(t \o o, i, f, f, unclosed)
      /\ f.next <= Len(t) + Len(o) + 1
  BY <1>1, <1>4, <1>5, <1>6 DEF n, k, e, tx
<1> QED
  BY <1>1, <1>3, <1>6, <1>7, <1>8, SearchGoesOn

LEMMA NothingSearched == \E g : Search(<<>>, g, FALSE, <<>>)
<1> DEFINE g == [i \in 0..0 |-> Nothing]
<1>1. g[0] = Nothing /\ Len(<<>>) = 0 /\ g = [i \in 0..0 |-> g[i]]
  OBVIOUS
<1>2. Nothing.next \in Nat /\ Nothing.next <= 0 + 1 /\ Nothing.found = <<>>
  BY DEF Nothing
<1> HIDE DEF g
<1>3. Search(<<>>, g, FALSE, <<>>)
  BY <1>1, <1>2 DEF Search
<1> QED
  BY <1>3
-----------------------------------------------------------------------------
(* A text that is an object, and nothing else, is found as one, too.          *)
LEMMA FoundIs ==
  ASSUME NEW t \in Seq(Chars), NEW h, NEW unclosed, NEW fs, Search(t, h, unclosed, fs)
  PROVE  Scanner!Found(t) = fs
<1>1. Scanner!FoundInProse(t) = fs
  BY SearchFinds
<1>2. CASE t \in Scanner!Objects
  <2>1. PICK g : Search(<<>>, g, FALSE, <<>>)
    BY NothingSearched
  <2>2. <<>> \in Seq(Chars) /\ <<>> \o t = t /\ Append(<<>>, t) = <<t>>
    <3>1. Append(<<>>, t) = <<t>>
      OBVIOUS
    <3> QED
      BY <3>1, ConcatEmptySeq
  <2>3. \E k : Search(<<>> \o t, k, FALSE, Append(<<>>, t))
    BY <1>2, <2>1, <2>2, ObjectSearched
  <2>4. \E k : Search(t, k, FALSE, <<t>>)
    BY <2>2, <2>3
  <2>5. Scanner!FoundInProse(t) = <<t>>
    BY <2>4, SearchFinds
  <2> QED
    BY <2>5, <1>1, <1>2 DEF Scanner!Found, Scanner!TryParseObject
<1>3. CASE t \notin Scanner!Objects
  BY <1>1, <1>3 DEF Scanner!Found, Scanner!TryParseObject
<1> QED
  BY <1>2, <1>3

(* The reply written so far can be searched, and the objects written are what *)
(* the search finds.                                                          *)
ReplyInv ==
  /\ text \in Seq(Chars) /\ stray \in BOOLEAN
  /\ \E h : Search(text, h, stray, written)

LEMMA ReplyInitially == Scanner!Init => ReplyInv
<1> SUFFICES ASSUME Scanner!Init PROVE ReplyInv
  OBVIOUS
<1>1. text = <<>> /\ written = <<>> /\ stray = FALSE
  BY DEF Scanner!Init
<1>2. \E h : Search(text, h, stray, written)
  BY <1>1, NothingSearched
<1>3. stray \in BOOLEAN
  BY <1>1, Zenon
<1>4. text \in Seq(Chars)
  BY <1>1
<1> QED
  BY <1>2, <1>3, <1>4 DEF ReplyInv

LEMMA CharacterWritten ==
  ASSUME ReplyInv, NEW c \in Chars, text' = Append(text, c), written' = written,
         stray' \in BOOLEAN, stray = TRUE => stray' = TRUE /\ Inside(<<c>>),
         c = Scanner!Open => stray' = TRUE
  PROVE  ReplyInv'
<1>1. PICK h : Search(text, h, stray, written)
  BY DEF ReplyInv
<1>2. text \in Seq(Chars)
  BY DEF ReplyInv
<1>3. text' = text \o <<c>> /\ text' \in Seq(Chars)
  BY <1>2, AppendIsConcat
<1>4. \E g : Search(text \o <<c>>, g, stray', written)
  BY <1>1, <1>2, ProseSearched
<1> QED
  BY <1>3, <1>4 DEF ReplyInv

LEMMA ReplyPreserved == ReplyInv /\ [Scanner!Next]_(Scanner!vars) => ReplyInv'
<1> SUFFICES ASSUME ReplyInv, [Scanner!Next]_(Scanner!vars) PROVE ReplyInv'
  OBVIOUS
<1>1. ASSUME NEW c \in {Scanner!Letter, Scanner!Quote, Scanner!Escape},
             stray => c # Scanner!Quote, Scanner!WriteProse(c)
      PROVE  ReplyInv'
  <2>1. c \in Chars /\ c # Scanner!Open
    BY DEF Chars, Scanner!Open, Scanner!Letter, Scanner!Quote, Scanner!Escape
  <2>2. text' = Append(text, c) /\ written' = written /\ stray' = stray /\ stray \in BOOLEAN
    BY <1>1 DEF Scanner!WriteProse, ReplyInv
  <2>3. stray = TRUE => Inside(<<c>>)
    BY <1>1, CharsInside
  <2> QED
    BY <2>1, <2>2, <2>3, CharacterWritten
<1>2. ASSUME Scanner!WriteStray PROVE ReplyInv'
  <2>1. /\ text' = Append(text, Scanner!Open) /\ written' = written
        /\ stray' = TRUE /\ stray # TRUE /\ Scanner!Open \in Chars
    BY <1>2 DEF Scanner!WriteStray, Chars
  <2> QED
    BY <2>1, CharacterWritten
<1>3. ASSUME NEW o \in Scanner!Objects, Scanner!WriteObject(o) PROVE ReplyInv'
  <2>1. PICK h : Search(text, h, stray, written)
    BY DEF ReplyInv
  <2>2. /\ text' = text \o o /\ written' = Append(written, o) /\ stray' = stray
        /\ text \in Seq(Chars) /\ stray \in BOOLEAN
    BY <1>3 DEF Scanner!WriteObject, ReplyInv
  <2>3. \E g : Search(text \o o, g, stray, Append(written, o))
    BY <2>1, <2>2, ObjectSearched
  <2>4. text' \in Seq(Chars)
    BY <2>2, ObjectShape, BracedInside, ConcatProperties
  <2> QED
    BY <2>2, <2>3, <2>4 DEF ReplyInv
<1>4. ASSUME UNCHANGED Scanner!vars PROVE ReplyInv'
  BY <1>4 DEF Scanner!vars, ReplyInv
<1> QED
  BY <1>1, <1>2, <1>3, <1>4 DEF Scanner!Next

(* However many characters of prose and objects a reply holds, with at most    *)
(* one opening brace too many and no quotation mark of the prose after it, the *)
(* objects found are those written (findJsonObject, agent_loop.cpp:56-106).    *)
THEOREM ObjectsFound == Scanner!Spec => []ObjectsInProseFound
<1>1. Scanner!Init => ReplyInv
  BY ReplyInitially
<1>2. ReplyInv /\ [Scanner!Next]_(Scanner!vars) => ReplyInv'
  BY ReplyPreserved
<1>3. ReplyInv => ObjectsInProseFound
  BY FoundIs DEF ReplyInv, ObjectsInProseFound, Scanner!ObjectsInProseFound
<1> QED
  BY <1>1, <1>2, <1>3, PTL DEF Scanner!Spec

-----------------------------------------------------------------------------
(* Keywords.  Letters(t) are the places of the text t that are no gap.        *)
Alphabet == {"a", "b", "space"}
Letters(t) == {i \in 1..Len(t) : Match!Fold(t[i]) # "space"}

LEMMA Folds == \A c : Match!Fold(c) \in Alphabet
BY DEF Match!Fold, Alphabet

LEMMA GapsAre ==
  ASSUME NEW t \in Seq(Match!Characters), NEW i
  PROVE  Match!Gap(t, i) <=> i \notin Letters(t)
<1>1. DOMAIN t = 1..Len(t)
  BY LenProperties
<1> QED
  BY <1>1 DEF Match!Gap, Letters

(* The k-th of the n words of a text stands at a[k]..z[k]; words are apart,   *)
(* and are made of all letters and nothing else.                             *)
WordsStand(t, n, a, z) ==
  /\ n \in Nat
  /\ \A k \in 1..n : a[k] \in 1..Len(t) /\ z[k] \in a[k]..Len(t)
  /\ \A k, l \in 1..n : k < l => z[k] + 1 < a[l]
  /\ \A i \in 1..Len(t) : i \in Letters(t) <=> \E k \in 1..n : i \in a[k]..z[k]
(* Normalized, it begins at b[k], a space after the word before it.           *)
LaidOut(n, a, z, b) ==
  /\ b[1] = 1
  /\ \A k \in 1..n + 1 : b[k] \in Nat
  /\ \A k \in 1..n : b[k + 1] = b[k] + (z[k] - a[k]) + 2
  /\ \A k, l \in 1..n + 1 : k < l => b[k] + 2 <= b[l]
(* u spells the words so; a gap at the end of the text has left a space.      *)
Spells(t, u, n, a, z, b) ==
  /\ u \in Seq(Alphabet)
  /\ Len(u) = IF Len(t) \in Letters(t) THEN b[n + 1] - 2 ELSE b[n + 1] - 1
  /\ \A k \in 1..n : \A i \in a[k]..z[k] : u[b[k] + (i - a[k])] = Match!Fold(t[i])
  /\ \A k \in 1..n : b[k + 1] - 1 <= Len(u) => u[b[k + 1] - 1] = "space"
Laid(t, u, n, a, z, b) ==
  WordsStand(t, n, a, z) /\ LaidOut(n, a, z, b) /\ Spells(t, u, n, a, z, b)

(* One more character of the text.                                            *)
NormalizedStep(u, f) ==
  IF f = "space" /\ (u = <<>> \/ u[Len(u)] = "space") THEN u ELSE Append(u, f)

LEMMA CharacterAdded ==
  ASSUME NEW t \in Seq(Match!Characters), NEW c \in Match!Characters
  PROVE  /\ Append(t, c) \in Seq(Match!Characters) /\ Len(t) \in Nat
         /\ Len(Append(t, c)) = Len(t) + 1
         /\ \A i \in 1..Len(t) : Append(t, c)[i] = t[i]
         /\ Append(t, c)[Len(t) + 1] = c
         /\ \A i \in 1..Len(t) : i \in Letters(Append(t, c)) <=> i \in Letters(t)
         /\ Len(t) + 1 \in Letters(Append(t, c)) <=> Match!Fold(c) # "space"
<1>1. /\ Append(t, c) \in Seq(Match!Characters) /\ Len(t) \in Nat
      /\ Len(Append(t, c)) = Len(t) + 1
      /\ \A i \in 1..Len(t) : Append(t, c)[i] = t[i]
      /\ Append(t, c)[Len(t) + 1] = c
  BY AppendProperties, LenProperties
<1>2. \A i \in 1..Len(t) : i \in 1..Len(t) + 1
  BY <1>1
<1>3. Len(t) + 1 \in 1..Len(t) + 1
  BY <1>1
<1> DEFINE tc == Append(t, c)
<1> HIDE DEF tc
<1>4. /\ \A i \in 1..Len(t) : i \in Letters(tc) <=> i \in Letters(t)
      /\ Len(t) + 1 \in Letters(tc) <=> Match!Fold(c) # "space"
  BY <1>1, <1>2, <1>3 DEF Letters, tc
<1> QED
  BY <1>1, <1>4 DEF tc

(* What holds of every text laid out: where its last word ends, and where     *)
(* the letters of u are.                                                      *)
LEMMA LastWord ==
  ASSUME NEW t \in Seq(Match!Characters), NEW u, NEW n, NEW a, NEW z, NEW b,
         Laid(t, u, n, a, z, b)
  PROVE  /\ Len(t) \in Letters(t) => n >= 1 /\ z[n] = Len(t)
         /\ \A k \in 1..n : Len(t) \notin Letters(t) => z[k] < Len(t)
<1>1. /\ n \in Nat /\ Len(t) \in Nat
      /\ \A k \in 1..n : a[k] \in 1..Len(t) /\ z[k] \in a[k]..Len(t)
      /\ \A k, l \in 1..n : k < l => z[k] + 1 < a[l]
      /\ \A i \in 1..Len(t) : i \in Letters(t) <=> \E k \in 1..n : i \in a[k]..z[k]
  BY LenProperties DEF Laid, WordsStand
<1>2. ASSUME Len(t) \in Letters(t) PROVE n >= 1 /\ z[n] = Len(t)
  <2>1. Len(t) \in 1..Len(t)
    BY <1>2 DEF Letters
  <2>2. PICK k \in 1..n : Len(t) \in a[k]..z[k]
    BY <1>1, <1>2, <2>1
  <2>3. n >= 1 /\ n \in 1..n /\ k \in Nat /\ k <= n
    BY <1>1
  <2>4. z[k] = Len(t) /\ z[k] \in Nat
    BY <1>1, <2>2
  <2>5. ~(k < n)
    <3> SUFFICES ASSUME k < n PROVE FALSE
      OBVIOUS
    <3>1. z[k] + 1 < a[n] /\ a[n] \in 1..Len(t)
      BY <1>1, <2>3
    <3> QED
      BY <1>1, <2>4, <3>1
  <2>6. k = n
    BY <1>1, <2>3, <2>5
  <2> QED
    BY <2>3, <2>4, <2>6
<1>3. ASSUME NEW k \in 1..n, Len(t) \notin Letters(t) PROVE z[k] < Len(t)
  <2>1. a[k] \in 1..Len(t) /\ z[k] \in a[k]..Len(t)
    BY <1>1
  <2>2. z[k] \in 1..Len(t) /\ z[k] \in a[k]..z[k]
    BY <1>1, <2>1
  <2>3. z[k] \in Letters(t)
    BY <1>1, <2>2
  <2>4. z[k] # Len(t)
    BY <1>3, <2>3
  <2> QED
    BY <1>1, <2>2, <2>4
<1> QED
  BY <1>2, <1>3

LEMMA Within ==
  ASSUME NEW n \in Nat, NEW a, NEW z, NEW b, LaidOut(n, a, z, b), NEW k \in 1..n + 1
  PROVE  /\ b[k] \in Nat /\ b[n + 1] \in Nat /\ 1 <= b[k] /\ b[k] <= b[n + 1]
         /\ k <= n => /\ b[k + 1] = b[k] + (z[k] - a[k]) + 2
                      /\ b[k + 1] \in Nat /\ b[k] + 2 <= b[k + 1] /\ b[k + 1] <= b[n + 1]
         /\ k < n => b[k + 1] + 2 <= b[n + 1]
<1>1. /\ b[1] = 1 /\ \A l \in 1..n + 1 : b[l] \in Nat
      /\ \A l \in 1..n : b[l + 1] = b[l] + (z[l] - a[l]) + 2
      /\ \A l, m \in 1..n + 1 : l < m => b[l] + 2 <= b[m]
  BY DEF LaidOut
<1>2. 1 \in 1..n + 1 /\ n + 1 \in 1..n + 1 /\ (k = 1 \/ 1 < k) /\ (k = n + 1 \/ k < n + 1)
  OBVIOUS
<1>3. ASSUME NEW l \in 1..n + 1 PROVE b[l] \in Nat /\ b[n + 1] \in Nat /\ b[l] <= b[n + 1]
  <2>1. l = n + 1 \/ l < n + 1
    OBVIOUS
  <2>2. l < n + 1 => b[l] + 2 <= b[n + 1]
    BY <1>1, <1>2
  <2>3. b[l] \in Nat /\ b[n + 1] \in Nat
    BY <1>1, <1>2
  <2> QED
    BY <2>1, <2>2, <2>3
<1>4. 1 <= b[k]
  BY <1>1, <1>2
<1>5. ASSUME k <= n
      PROVE  /\ b[k + 1] = b[k] + (z[k] - a[k]) + 2
             /\ b[k + 1] \in Nat /\ b[k] + 2 <= b[k + 1] /\ b[k + 1] <= b[n + 1]
             /\ k < n => b[k + 1] + 2 <= b[n + 1]
  <2>1. /\ k \in 1..n /\ k + 1 \in 1..n + 1 /\ k < k + 1
        /\ k < n => k + 1 < n + 1
    BY <1>5
  <2> QED
    BY <1>1, <1>2, <1>3, <2>1
<1>6. k < n => k <= n
  OBVIOUS
<1> QED
  BY <1>3, <1>4, <1>5, <1>6

(* The places of letters and of the spaces between words in u.                *)
LEMMA LetterPlace ==
  ASSUME NEW t \in Seq(Match!Characters), NEW u, NEW n, NEW a, NEW z, NEW b,
         Laid(t, u, n, a, z, b), NEW k \in 1..n, NEW i \in a[k]..z[k]
  PROVE  i \in 1..Len(t) /\ b[k] + (i - a[k]) \in 1..Len(u)
<1> DEFINE x == b[k + 1]
           y == b[n + 1]
           m == Len(u)
           d == z[k] - a[k]
           j == b[k] + (i - a[k])
<1>1. n \in Nat /\ a[k] \in 1..Len(t) /\ z[k] \in a[k]..Len(t) /\ Len(t) \in Nat
  BY LenProperties DEF Laid, WordsStand
<1>2. m \in Nat /\ (m = y - 2 \/ m = y - 1)
  BY LenProperties DEF Laid, Spells
<1>3. b[k] \in Nat /\ 1 <= b[k] /\ x = b[k] + d + 2 /\ x \in Nat /\ y \in Nat /\ x <= y
  <2>1. k \in 1..n + 1 /\ k <= n
    BY <1>1
  <2> QED
    BY <1>1, <2>1, Within DEF Laid
<1>4. a[k] \in Nat /\ z[k] \in Nat /\ i \in Nat /\ a[k] <= i /\ i <= z[k] /\ i \in 1..Len(t)
  BY <1>1
<1>5. \A p, q, r, s \in Nat : /\ p + (s - q) \in Int /\ r - q \in Int
                             /\ (s >= q => p + (s - q) >= p)
                             /\ (s <= r => p + (s - q) <= p + (r - q))
  OBVIOUS
<1>6. j \in Int /\ d \in Int /\ j >= b[k] /\ j <= b[k] + d
  BY <1>3, <1>4, <1>5
<1> HIDE DEF x, y, m, d, j
<1>7. j \in 1..m
  BY <1>2, <1>3, <1>6
<1> QED
  BY <1>4, <1>7 DEF j, m

LEMMA SpacePlace ==
  ASSUME NEW t \in Seq(Match!Characters), NEW u, NEW n, NEW a, NEW z, NEW b,
         Laid(t, u, n, a, z, b), NEW k \in 1..n, k < n \/ Len(t) \notin Letters(t)
  PROVE  b[k + 1] - 1 \in 1..Len(u)
<1> DEFINE x == b[k + 1]
           y == b[n + 1]
           m == Len(u)
<1>1. n \in Nat
  BY DEF Laid, WordsStand
<1>2. m \in Nat /\ (m = y - 1 \/ (k < n /\ m = y - 2))
  BY LenProperties DEF Laid, Spells
<1>3. /\ b[k] \in Nat /\ 1 <= b[k] /\ b[k] + 2 <= x /\ x \in Nat /\ y \in Nat /\ x <= y
      /\ k < n => x + 2 <= y
  <2>1. k \in 1..n + 1 /\ k <= n
    BY <1>1
  <2> QED
    BY <1>1, <2>1, Within DEF Laid
<1> HIDE DEF x, y, m
<1>4. x - 1 \in 1..m
  BY <1>2, <1>3
<1> QED
  BY <1>4 DEF x, m

(* u ends in a space, or is empty, as long as the text ends in a gap.         *)
LEMMA EndsInGap ==
  ASSUME NEW t \in Seq(Match!Characters), NEW u, NEW n, NEW a, NEW z, NEW b,
         Laid(t, u, n, a, z, b)
  PROVE  (u = <<>> \/ u[Len(u)] = "space") <=> Len(t) \notin Letters(t)
<1> DEFINE L == Len(t)
           m == Len(u)
<1>1. L \in Nat
  BY LenProperties
<1>2. /\ n \in Nat
      /\ \A k \in 1..n : a[k] \in 1..L /\ z[k] \in a[k]..L
  BY DEF Laid, WordsStand
<1>3. LaidOut(n, a, z, b) /\ Spells(t, u, n, a, z, b)
  BY DEF Laid
<1>4. /\ u \in Seq(Alphabet) /\ m \in Nat
      /\ m = IF L \in Letters(t) THEN b[n + 1] - 2 ELSE b[n + 1] - 1
      /\ \A k \in 1..n : \A i \in a[k]..z[k] : u[b[k] + (i - a[k])] = Match!Fold(t[i])
      /\ \A k \in 1..n : b[k + 1] - 1 <= m => u[b[k + 1] - 1] = "space"
  BY <1>3, LenProperties DEF Spells
<1>5. /\ b[1] = 1 /\ \A k \in 1..n + 1 : b[k] \in Nat
      /\ \A k \in 1..n : b[k + 1] = b[k] + (z[k] - a[k]) + 2
      /\ \A k, l \in 1..n + 1 : k < l => b[k] + 2 <= b[l]
  BY <1>3 DEF LaidOut
<1> HIDE DEF L, m
<1>6. (u = <<>> \/ u[m] = "space") <=> L \notin Letters(t)
  <2>1. CASE L \in Letters(t)
    <3>1. n >= 1 /\ z[n] = L /\ n \in 1..n
      BY <1>2, <2>1, LastWord DEF L
    <3>2. a[n] \in 1..L /\ L \in a[n]..z[n]
      BY <1>2, <3>1
    <3>3. /\ b[n] \in Nat /\ b[n + 1] = b[n] + (z[n] - a[n]) + 2 /\ m = b[n + 1] - 2
      BY <1>2, <1>4, <1>5, <2>1, <3>1
    <3>4. m = b[n] + (L - a[n])
      BY <1>1, <3>1, <3>2, <3>3
    <3>5. u[m] = Match!Fold(t[L])
      BY <1>4, <3>1, <3>2, <3>4
    <3>6. b[1] <= b[n]
      <4>1. 1 \in 1..n + 1 /\ n \in 1..n + 1 /\ (n = 1 \/ 1 < n)
        BY <1>2, <3>1
      <4> QED
        BY <1>5, <4>1
    <3>7. m # 0 /\ u # <<>>
      BY <1>1, <1>4, <1>5, <3>2, <3>3, <3>4, <3>6 DEF m
    <3>8. Match!Fold(t[L]) # "space"
      BY <2>1 DEF Letters
    <3> QED
      BY <2>1, <3>5, <3>7, <3>8
  <2>2. CASE L \notin Letters(t) /\ n = 0
    <3>1. m = 0
      BY <1>4, <1>5, <2>2
    <3> QED
      BY <1>4, <2>2, <3>1, EmptySeq DEF m
  <2>3. CASE L \notin Letters(t) /\ n # 0
    <3>1. n \in 1..n /\ n + 1 \in 1..n + 1
      BY <1>2, <2>3
    <3>2. m = b[n + 1] - 1 /\ b[n + 1] - 1 <= m
      BY <1>4, <1>5, <2>3, <3>1
    <3>3. u[m] = "space"
      BY <1>4, <3>1, <3>2
    <3> QED
      BY <2>3, <3>3
  <2> QED
    BY <2>1, <2>2, <2>3
<1> QED
  BY <1>6 DEF L, m

(* A gap: no word changes, and u gets a space unless it has one.              *)
LEMMA GapAdded ==
  ASSUME NEW t \in Seq(Match!Characters), NEW c \in Match!Characters,
         NEW u, NEW n, NEW a, NEW z, NEW b,
         Laid(t, u, n, a, z, b), Match!Fold(c) = "space"
  PROVE  Laid(Append(t, c), NormalizedStep(u, "space"), n, a, z, b)
<1> DEFINE tc == Append(t, c)
           L == Len(t)
           m == Len(u)
           v == NormalizedStep(u, "space")
<1>1. /\ tc \in Seq(Match!Characters) /\ L \in Nat /\ Len(tc) = L + 1
      /\ \A i \in 1..L : tc[i] = t[i]
      /\ \A i \in 1..L : i \in Letters(tc) <=> i \in Letters(t)
      /\ L + 1 \notin Letters(tc)
  BY CharacterAdded
<1> HIDE DEF tc
<1>2. /\ n \in Nat
      /\ \A k \in 1..n : a[k] \in 1..L /\ z[k] \in a[k]..L
      /\ \A k, l \in 1..n : k < l => z[k] + 1 < a[l]
      /\ \A i \in 1..L : i \in Letters(t) <=> \E k \in 1..n : i \in a[k]..z[k]
  BY DEF Laid, WordsStand
<1>3. LaidOut(n, a, z, b) /\ Spells(t, u, n, a, z, b)
  BY DEF Laid
<1>4. /\ u \in Seq(Alphabet) /\ m \in Nat
      /\ m = IF L \in Letters(t) THEN b[n + 1] - 2 ELSE b[n + 1] - 1
      /\ \A k \in 1..n : \A i \in a[k]..z[k] : u[b[k] + (i - a[k])] = Match!Fold(t[i])
      /\ \A k \in 1..n : b[k + 1] - 1 <= m => u[b[k + 1] - 1] = "space"
  BY <1>3, LenProperties DEF Spells
<1>5. /\ b[1] = 1 /\ \A k \in 1..n + 1 : b[k] \in Nat
      /\ \A k \in 1..n : b[k + 1] = b[k] + (z[k] - a[k]) + 2
      /\ \A k, l \in 1..n + 1 : k < l => b[k] + 2 <= b[l]
  BY <1>3 DEF LaidOut
<1> HIDE DEF L, m
<1>6. WordsStand(tc, n, a, z)
  <2>1. \A k \in 1..n : a[k] \in 1..L + 1 /\ z[k] \in a[k]..L + 1
    BY <1>1, <1>2
  <2>2. ASSUME NEW i \in 1..L + 1
        PROVE  i \in Letters(tc) <=> \E k \in 1..n : i \in a[k]..z[k]
    <3>1. CASE i \in 1..L
      BY <1>1, <1>2, <3>1
    <3>2. CASE i = L + 1
      <4>1. \A k \in 1..n : a[k] \in Nat /\ z[k] \in Nat /\ z[k] <= L
        BY <1>1, <1>2
      <4>2. \A k \in 1..n : ~(L + 1 \in a[k]..z[k])
        BY <1>1, <4>1
      <4> QED
        BY <1>1, <3>2, <4>2
    <3> QED
      BY <1>1, <3>1, <3>2
  <2> QED
    BY <1>1, <1>2, <2>1, <2>2 DEF WordsStand
<1>7. (u = <<>> \/ u[m] = "space") <=> L \notin Letters(t)
  BY EndsInGap DEF L, m
<1>8. CASE L \notin Letters(t)
  <2>1. v = u
    BY <1>7, <1>8 DEF NormalizedStep, m
  <2>2. Spells(tc, u, n, a, z, b)
    <3>1. \A k \in 1..n : \A i \in a[k]..z[k] : i \in 1..L
      BY <1>1, <1>2
    <3>2. \A k \in 1..n : \A i \in a[k]..z[k] : u[b[k] + (i - a[k])] = Match!Fold(tc[i])
      BY <1>1, <1>4, <3>1
    <3>3. m = IF Len(tc) \in Letters(tc) THEN b[n + 1] - 2 ELSE b[n + 1] - 1
      BY <1>1, <1>4, <1>8
    <3> QED
      BY <1>4, <3>2, <3>3 DEF Spells, m
  <2> QED
    BY <1>3, <1>6, <2>1, <2>2 DEF Laid, tc
<1>9. CASE L \in Letters(t)
  <2>1. v = Append(u, "space")
    BY <1>7, <1>9 DEF NormalizedStep, m
  <2>2. "space" \in Alphabet
    BY DEF Alphabet
  <2> HIDE DEF v
  <2>3. /\ v \in Seq(Alphabet) /\ Len(v) = m + 1
        /\ \A i \in 1..m : v[i] = u[i]
        /\ v[m + 1] = "space"
    <3> DEFINE w == Append(u, "space")
    <3>1. /\ w \in Seq(Alphabet) /\ Len(w) = Len(u) + 1
          /\ \A i \in 1..Len(u) : w[i] = u[i]
          /\ w[Len(u) + 1] = "space"
      BY <1>4, <2>2, AppendProperties
    <3> HIDE DEF w
    <3>2. v = w
      BY <2>1 DEF w
    <3> QED
      BY <3>1, <3>2 DEF m
  <2>4. n >= 1 /\ n \in 1..n /\ n + 1 \in 1..n + 1 /\ b[n + 1] \in Nat /\ m = b[n + 1] - 2
    BY <1>2, <1>4, <1>5, <1>9, LastWord DEF L
  <2>5. ASSUME NEW k \in 1..n, NEW i \in a[k]..z[k]
        PROVE  v[b[k] + (i - a[k])] = Match!Fold(tc[i])
    <3> DEFINE j == b[k] + (i - a[k])
    <3>1. i \in 1..L /\ j \in 1..m
      BY LetterPlace DEF L, m
    <3>5. u[j] = Match!Fold(t[i])
      BY <1>4
    <3> HIDE DEF j
    <3>6. v[j] = Match!Fold(tc[i])
      BY <1>1, <2>3, <3>1, <3>5
    <3> QED
      BY <3>6 DEF j
  <2>6. ASSUME NEW k \in 1..n, b[k + 1] - 1 <= Len(v) PROVE v[b[k + 1] - 1] = "space"
    <3>1. CASE k = n
      BY <2>3, <2>4, <3>1
    <3>2. CASE k < n
      <4>1. b[k + 1] - 1 \in 1..m /\ b[k + 1] - 1 <= m
        BY <3>2, SpacePlace DEF m
      <4> QED
        BY <1>4, <2>3, <4>1
    <3> QED
      BY <1>2, <3>1, <3>2
  <2>7. Len(v) = IF Len(tc) \in Letters(tc) THEN b[n + 1] - 2 ELSE b[n + 1] - 1
    BY <1>1, <2>3, <2>4
  <2>8. Spells(tc, v, n, a, z, b)
    BY <2>3, <2>5, <2>6, <2>7 DEF Spells
  <2> QED
    BY <1>3, <1>6, <2>8 DEF Laid, tc, v
<1> QED
  BY <1>8, <1>9

(* A letter after a gap begins a word.                                        *)
LEMMA WordBegun ==
  ASSUME NEW t \in Seq(Match!Characters), NEW c \in Match!Characters,
         NEW u, NEW n, NEW a, NEW z, NEW b,
         Laid(t, u, n, a, z, b), Match!Fold(c) # "space", Len(t) \notin Letters(t)
  PROVE  \E f, g, h : Laid(Append(t, c), Append(u, Match!Fold(c)), n + 1, f, g, h)
<1> DEFINE tc == Append(t, c)
           L == Len(t)
           m == Len(u)
           e == Match!Fold(c)
           v == Append(u, e)
           f == [k \in 1..n + 1 |-> IF k <= n THEN a[k] ELSE L + 1]
           g == [k \in 1..n + 1 |-> IF k <= n THEN z[k] ELSE L + 1]
           h == [k \in 1..n + 2 |-> IF k <= n + 1 THEN b[k] ELSE b[n + 1] + 2]
<1>1. /\ tc \in Seq(Match!Characters) /\ L \in Nat /\ Len(tc) = L + 1
      /\ \A i \in 1..L : tc[i] = t[i]
      /\ tc[L + 1] = c
      /\ \A i \in 1..L : i \in Letters(tc) <=> i \in Letters(t)
      /\ L + 1 \in Letters(tc)
  BY CharacterAdded
<1>2. /\ n \in Nat
      /\ \A k \in 1..n : a[k] \in 1..L /\ z[k] \in a[k]..L
      /\ \A k, l \in 1..n : k < l => z[k] + 1 < a[l]
      /\ \A i \in 1..L : i \in Letters(t) <=> \E k \in 1..n : i \in a[k]..z[k]
  BY DEF Laid, WordsStand
<1>3. \A k \in 1..n : z[k] < L
  BY LastWord
<1>4. /\ b[1] = 1 /\ \A k \in 1..n + 1 : b[k] \in Nat
      /\ \A k \in 1..n : b[k + 1] = b[k] + (z[k] - a[k]) + 2
      /\ \A k, l \in 1..n + 1 : k < l => b[k] + 2 <= b[l]
  BY DEF Laid, LaidOut
<1>5. /\ u \in Seq(Alphabet) /\ m \in Nat
      /\ m = b[n + 1] - 1
      /\ \A k \in 1..n : \A i \in a[k]..z[k] : u[b[k] + (i - a[k])] = Match!Fold(t[i])
      /\ \A k \in 1..n : b[k + 1] - 1 <= m => u[b[k + 1] - 1] = "space"
  BY LenProperties DEF Laid, Spells
<1>6. e \in Alphabet
  BY Folds
<1>7. /\ v \in Seq(Alphabet) /\ Len(v) = m + 1
      /\ \A i \in 1..m : v[i] = u[i]
      /\ v[m + 1] = e
  BY <1>5, <1>6, AppendProperties
<1>8. \A k \in 1..n : \A i \in a[k]..z[k] : i \in 1..L /\ b[k] + (i - a[k]) \in 1..m
  BY LetterPlace
<1>9. \A k \in 1..n : b[k + 1] - 1 \in 1..m
  BY SpacePlace
<1> HIDE DEF tc, L, m, e, v
<1>10. /\ \A k \in 1..n : f[k] = a[k] /\ g[k] = z[k]
       /\ f[n + 1] = L + 1 /\ g[n + 1] = L + 1
       /\ \A k \in 1..n + 1 : h[k] = b[k]
       /\ h[n + 2] = b[n + 1] + 2
  <2>1. /\ \A k \in 1..n : k \in 1..n + 1 /\ k <= n
        /\ n + 1 \in 1..n + 1 /\ ~(n + 1 <= n)
        /\ \A k \in 1..n + 1 : k \in 1..n + 2 /\ k <= n + 1
        /\ n + 2 \in 1..n + 2 /\ ~(n + 2 <= n + 1)
    BY <1>2
  <2> QED
    BY <2>1
<1> HIDE DEF f, g, h
<1>11. \A k \in 1..n + 1 : k \in 1..n \/ k = n + 1
  BY <1>2
<1>12. WordsStand(tc, n + 1, f, g)
  <2>1. \A k \in 1..n + 1 : f[k] \in 1..L + 1 /\ g[k] \in f[k]..L + 1
    <3>1. \A k \in 1..n : f[k] \in 1..L + 1 /\ g[k] \in f[k]..L + 1
      <4>1. \A k \in 1..n : a[k] \in 1..L + 1 /\ z[k] \in a[k]..L + 1
        BY <1>1, <1>2
      <4> QED
        BY <1>10, <4>1
    <3>2. f[n + 1] \in 1..L + 1 /\ g[n + 1] \in f[n + 1]..L + 1
      BY <1>1, <1>10
    <3> QED
      BY <1>11, <3>1, <3>2
  <2>2. ASSUME NEW k \in 1..n + 1, NEW l \in 1..n + 1, k < l PROVE g[k] + 1 < f[l]
    <3>1. k \in 1..n
      BY <1>2, <2>2
    <3>2. CASE l \in 1..n
      BY <1>2, <1>10, <2>2, <3>1, <3>2
    <3>3. CASE l = n + 1
      <4>0. a[k] \in 1..L /\ z[k] \in a[k]..L
        BY <1>2, <3>1
      <4>1. z[k] < L /\ z[k] \in Nat
        BY <1>1, <1>3, <3>1, <4>0
      <4> QED
        BY <1>1, <1>10, <3>1, <3>3, <4>1
    <3> QED
      BY <1>11, <3>2, <3>3
  <2>3. ASSUME NEW i \in 1..L + 1
        PROVE  i \in Letters(tc) <=> \E k \in 1..n + 1 : i \in f[k]..g[k]
    <3>1. CASE i \in 1..L
      <4>1. i \notin f[n + 1]..g[n + 1]
        BY <1>1, <1>10, <3>1
      <4>2. (\E k \in 1..n + 1 : i \in f[k]..g[k]) <=> \E k \in 1..n : i \in a[k]..z[k]
        <5>1. \A k \in 1..n : k \in 1..n + 1
          BY <1>2
        <5> QED
          BY <1>10, <1>11, <4>1, <5>1
      <4> QED
        BY <1>1, <1>2, <3>1, <4>2
    <3>2. CASE i = L + 1
      <4>1. n + 1 \in 1..n + 1 /\ L + 1 \in f[n + 1]..g[n + 1]
        BY <1>1, <1>2, <1>10
      <4> QED
        BY <1>1, <3>2, <4>1
    <3> QED
      BY <1>1, <3>1, <3>2
  <2> QED
    BY <1>1, <1>2, <2>1, <2>2, <2>3 DEF WordsStand
<1>13. LaidOut(n + 1, f, g, h)
  <2>1. (n + 1) + 1 = n + 2 /\ n + 1 \in Nat /\ 1 \in 1..n + 1 /\ n + 1 \in 1..n + 1
    BY <1>2
  <2>2. \A k \in 1..n + 2 : k \in 1..n + 1 \/ k = n + 2
    BY <1>2
  <2>3. b[n + 1] \in Nat
    BY <1>4, <2>1
  <2>4. \A k \in 1..n + 2 : h[k] \in Nat
    <3>1. \A k \in 1..n + 1 : h[k] \in Nat
      BY <1>4, <1>10
    <3>2. h[n + 2] \in Nat
      BY <1>10, <2>3
    <3> QED
      BY <2>2, <3>1, <3>2
  <2>5. ASSUME NEW k \in 1..n + 1 PROVE h[k + 1] = h[k] + (g[k] - f[k]) + 2
    <3>1. CASE k \in 1..n
      <4>1. k + 1 \in 1..n + 1
        BY <1>2, <3>1
      <4> QED
        BY <1>4, <1>10, <3>1, <4>1
    <3>2. CASE k = n + 1
      <4>1. k + 1 = n + 2 /\ h[k] = b[n + 1] /\ g[k] - f[k] = 0
        BY <1>1, <1>2, <1>10, <2>1, <3>2
      <4> QED
        BY <1>10, <2>3, <4>1
    <3> QED
      BY <1>11, <3>1, <3>2
  <2>6. ASSUME NEW k \in 1..n + 2, NEW l \in 1..n + 2, k < l PROVE h[k] + 2 <= h[l]
    <3>1. k \in 1..n + 1
      BY <1>2, <2>6
    <3>2. CASE l \in 1..n + 1
      BY <1>4, <1>10, <2>6, <3>1, <3>2
    <3>3. CASE l = n + 2
      <4>1. b[k] \in Nat /\ b[k] <= b[n + 1]
        BY <1>2, <3>1, Within DEF Laid
      <4> QED
        BY <1>10, <2>3, <3>1, <3>3, <4>1
    <3> QED
      BY <2>2, <3>2, <3>3
  <2>7. h[1] = 1
    BY <1>4, <1>10, <2>1
  <2> QED
    BY <2>1, <2>4, <2>5, <2>6, <2>7 DEF LaidOut
<1>14. Spells(tc, v, n + 1, f, g, h)
  <2>1. (n + 1) + 1 = n + 2 /\ b[n + 1] \in Nat /\ n + 1 \in 1..n + 1
    BY <1>2, <1>4
  <2>2. ASSUME NEW k \in 1..n + 1, NEW i \in f[k]..g[k]
        PROVE  v[h[k] + (i - f[k])] = Match!Fold(tc[i])
    <3>1. CASE k \in 1..n
      <4> DEFINE j == b[k] + (i - a[k])
      <4>1. i \in a[k]..z[k] /\ k \in 1..n + 1
        BY <1>2, <1>10, <3>1
      <4>2. i \in 1..L /\ j \in 1..m /\ u[j] = Match!Fold(t[i])
        BY <1>5, <1>8, <3>1, <4>1
      <4>3. j = h[k] + (i - f[k])
        BY <1>10, <3>1, <4>1
      <4> HIDE DEF j
      <4> QED
        BY <1>1, <1>7, <4>2, <4>3
    <3>2. CASE k = n + 1
      <4>1. i = L + 1 /\ i - f[k] = 0
        BY <1>1, <1>10, <3>2
      <4>2. h[k] + (i - f[k]) = m + 1
        BY <1>5, <1>10, <2>1, <3>2, <4>1
      <4> QED
        BY <1>1, <1>7, <4>1, <4>2 DEF e
    <3> QED
      BY <1>11, <3>1, <3>2
  <2>3. ASSUME NEW k \in 1..n + 1, h[k + 1] - 1 <= Len(v) PROVE v[h[k + 1] - 1] = "space"
    <3>1. CASE k \in 1..n
      <4>1. k + 1 \in 1..n + 1
        BY <1>2, <3>1
      <4>2. h[k + 1] = b[k + 1] /\ b[k + 1] - 1 \in 1..m /\ b[k + 1] - 1 <= m
        BY <1>5, <1>9, <1>10, <3>1, <4>1
      <4> QED
        BY <1>5, <1>7, <3>1, <4>2
    <3>2. CASE k = n + 1
      <4>1. h[k + 1] - 1 = m + 2
        BY <1>5, <1>10, <2>1, <3>2
      <4> QED
        BY <1>5, <1>7, <2>3, <4>1
    <3> QED
      BY <1>11, <3>1, <3>2
  <2>4. Len(v) = IF Len(tc) \in Letters(tc) THEN h[(n + 1) + 1] - 2 ELSE h[(n + 1) + 1] - 1
    <3>1. h[(n + 1) + 1] - 2 = m + 1
      BY <1>5, <1>10, <2>1
    <3> QED
      BY <1>1, <1>7, <3>1
  <2> QED
    BY <1>7, <2>2, <2>3, <2>4 DEF Spells
<1> QED
  BY <1>12, <1>13, <1>14 DEF Laid, tc, v, e

(* A letter after a letter prolongs the last word.                            *)
LEMMA WordProlonged ==
  ASSUME NEW t \in Seq(Match!Characters), NEW c \in Match!Characters,
         NEW u, NEW n, NEW a, NEW z, NEW b,
         Laid(t, u, n, a, z, b), Match!Fold(c) # "space", Len(t) \in Letters(t)
  PROVE  \E g, h : Laid(Append(t, c), Append(u, Match!Fold(c)), n, a, g, h)
<1> DEFINE tc == Append(t, c)
           L == Len(t)
           m == Len(u)
           e == Match!Fold(c)
           v == Append(u, e)
           g == [k \in 1..n |-> IF k < n THEN z[k] ELSE L + 1]
           h == [k \in 1..n + 1 |-> IF k <= n THEN b[k] ELSE b[n + 1] + 1]
<1>1. /\ tc \in Seq(Match!Characters) /\ L \in Nat /\ Len(tc) = L + 1
      /\ \A i \in 1..L : tc[i] = t[i]
      /\ tc[L + 1] = c
      /\ \A i \in 1..L : i \in Letters(tc) <=> i \in Letters(t)
      /\ L + 1 \in Letters(tc)
  BY CharacterAdded
<1>2. /\ n \in Nat
      /\ \A k \in 1..n : a[k] \in 1..L /\ z[k] \in a[k]..L
      /\ \A k, l \in 1..n : k < l => z[k] + 1 < a[l]
      /\ \A i \in 1..L : i \in Letters(t) <=> \E k \in 1..n : i \in a[k]..z[k]
  BY DEF Laid, WordsStand
<1>3. n >= 1 /\ z[n] = L
  BY LastWord
<1>4. /\ b[1] = 1 /\ \A k \in 1..n + 1 : b[k] \in Nat
      /\ \A k \in 1..n : b[k + 1] = b[k] + (z[k] - a[k]) + 2
      /\ \A k, l \in 1..n + 1 : k < l => b[k] + 2 <= b[l]
  BY DEF Laid, LaidOut
<1>5. /\ u \in Seq(Alphabet) /\ m \in Nat
      /\ m = b[n + 1] - 2
      /\ \A k \in 1..n : \A i \in a[k]..z[k] : u[b[k] + (i - a[k])] = Match!Fold(t[i])
      /\ \A k \in 1..n : b[k + 1] - 1 <= m => u[b[k + 1] - 1] = "space"
  BY LenProperties DEF Laid, Spells
<1>6. e \in Alphabet
  BY Folds
<1>7. /\ v \in Seq(Alphabet) /\ Len(v) = m + 1
      /\ \A i \in 1..m : v[i] = u[i]
      /\ v[m + 1] = e
  BY <1>5, <1>6, AppendProperties
<1>8. \A k \in 1..n : \A i \in a[k]..z[k] : i \in 1..L /\ b[k] + (i - a[k]) \in 1..m
  BY LetterPlace
<1>9. \A k \in 1..n : k < n => b[k + 1] - 1 \in 1..m
  BY SpacePlace
<1> HIDE DEF tc, L, m, e, v
<1>10. /\ \A k \in 1..n : k < n => g[k] = z[k]
       /\ g[n] = L + 1
       /\ \A k \in 1..n : h[k] = b[k]
       /\ h[n + 1] = b[n + 1] + 1
  <2>1. /\ n \in 1..n /\ ~(n < n)
        /\ \A k \in 1..n : k \in 1..n + 1 /\ k <= n
        /\ n + 1 \in 1..n + 1 /\ ~(n + 1 <= n)
    BY <1>2, <1>3
  <2> QED
    BY <2>1
<1> HIDE DEF g, h
<1>11. \A k \in 1..n : k < n \/ k = n
  BY <1>2
<1>12. n \in 1..n /\ a[n] \in 1..L /\ 1 \in 1..n
  BY <1>2, <1>3
<1>13. WordsStand(tc, n, a, g)
  <2>1. \A k \in 1..n : a[k] \in 1..L + 1 /\ g[k] \in a[k]..L + 1
    <3>1. \A k \in 1..n : a[k] \in 1..L + 1 /\ z[k] \in a[k]..L + 1 /\ L + 1 \in a[k]..L + 1
      BY <1>1, <1>2
    <3> QED
      BY <1>10, <1>11, <3>1
  <2>2. ASSUME NEW k \in 1..n, NEW l \in 1..n, k < l PROVE g[k] + 1 < a[l]
    <3>1. k < n
      BY <1>2, <2>2
    <3> QED
      BY <1>2, <1>10, <2>2, <3>1
  <2>3. ASSUME NEW i \in 1..L + 1
        PROVE  i \in Letters(tc) <=> \E k \in 1..n : i \in a[k]..g[k]
    <3>1. CASE i \in 1..L
      <4>1. ASSUME NEW k \in 1..n PROVE i \in a[k]..g[k] <=> i \in a[k]..z[k]
        <5>1. CASE k < n
          BY <1>10, <5>1
        <5>2. CASE k = n
          BY <1>1, <1>3, <1>10, <1>12, <3>1, <5>2
        <5> QED
          BY <1>11, <5>1, <5>2
      <4> QED
        BY <1>1, <1>2, <3>1, <4>1
    <3>2. CASE i = L + 1
      <4>1. L + 1 \in a[n]..g[n]
        BY <1>1, <1>10, <1>12
      <4> QED
        BY <1>1, <1>12, <3>2, <4>1
    <3> QED
      BY <1>1, <3>1, <3>2
  <2> QED
    BY <1>1, <1>2, <2>1, <2>2, <2>3 DEF WordsStand
<1>14. LaidOut(n, a, g, h)
  <2>1. \A k \in 1..n + 1 : k \in 1..n \/ k = n + 1
    BY <1>2
  <2>2. b[n + 1] \in Nat /\ b[n] \in Nat
    <3>1. n \in 1..n + 1 /\ n + 1 \in 1..n + 1
      BY <1>2, <1>3
    <3> QED
      BY <1>4, <3>1
  <2>3. \A k \in 1..n + 1 : h[k] \in Nat
    <3>1. \A k \in 1..n : k \in 1..n + 1
      BY <1>2
    <3>2. \A k \in 1..n : h[k] \in Nat
      BY <1>4, <1>10, <3>1
    <3>3. h[n + 1] \in Nat
      BY <1>10, <2>2
    <3> QED
      BY <2>1, <3>2, <3>3
  <2>4. ASSUME NEW k \in 1..n PROVE h[k + 1] = h[k] + (g[k] - a[k]) + 2
    <3>1. CASE k < n
      <4>1. k + 1 \in 1..n
        BY <1>2, <3>1
      <4> QED
        BY <1>4, <1>10, <3>1, <4>1
    <3>2. CASE k = n
      <4>1. h[n + 1] = b[n + 1] + 1 /\ b[n + 1] = b[n] + (L - a[n]) + 2
        BY <1>3, <1>4, <1>10, <1>12
      <4>2. h[n] = b[n] /\ g[n] = L + 1
        BY <1>10, <1>12
      <4>3. h[n + 1] = h[n] + (g[n] - a[n]) + 2
        <5> DEFINE d == L - a[n]
        <5>1. d \in Int /\ (L + 1) - a[n] = d + 1
          BY <1>1, <1>12
        <5>2. b[n + 1] = b[n] + d + 2 /\ h[n] + (g[n] - a[n]) + 2 = b[n] + (d + 1) + 2
          BY <4>1, <4>2, <5>1
        <5> HIDE DEF d
        <5>3. b[n] + (d + 1) + 2 = (b[n] + d + 2) + 1
          BY <2>2, <5>1
        <5> QED
          BY <4>1, <5>2, <5>3
      <4> QED
        BY <3>2, <4>3
    <3> QED
      BY <1>11, <3>1, <3>2
  <2>5. ASSUME NEW k \in 1..n + 1, NEW l \in 1..n + 1, k < l PROVE h[k] + 2 <= h[l]
    <3>1. k \in 1..n
      BY <1>2, <2>5
    <3>2. b[k] + 2 <= b[l]
      BY <1>4, <2>5
    <3>3. CASE l \in 1..n
      BY <1>10, <3>1, <3>2, <3>3
    <3>4. CASE l = n + 1
      <4>1. h[k] = b[k] /\ h[l] = b[n + 1] + 1 /\ b[k] \in Nat /\ b[k] + 2 <= b[n + 1]
        BY <1>4, <1>10, <3>1, <3>2, <3>4
      <4> QED
        BY <2>2, <4>1
    <3> QED
      BY <2>1, <3>3, <3>4
  <2>6. h[1] = 1
    BY <1>4, <1>10, <1>12
  <2> QED
    BY <2>3, <2>4, <2>5, <2>6 DEF LaidOut
<1>15. Spells(tc, v, n, a, g, h)
  <2>1. b[n + 1] \in Nat /\ b[n] \in Nat
    <3>1. n \in 1..n + 1 /\ n + 1 \in 1..n + 1
      BY <1>2, <1>3
    <3> QED
      BY <1>4, <3>1
  <2>2. ASSUME NEW k \in 1..n, NEW i \in a[k]..g[k]
        PROVE  v[h[k] + (i - a[k])] = Match!Fold(tc[i])
    <3> DEFINE j == b[k] + (i - a[k])
    <3>1. j = h[k] + (i - a[k])
      BY <1>10
    <3>2. CASE i \in a[k]..z[k]
      <4>1. i \in 1..L /\ j \in 1..m /\ u[j] = Match!Fold(t[i])
        BY <1>5, <1>8, <3>2
      <4> HIDE DEF j
      <4> QED
        BY <1>1, <1>7, <3>1, <4>1
    <3>3. CASE i \notin a[k]..z[k]
      <4>1. k = n
        BY <1>10, <1>11, <3>3
      <4>2. i = L + 1
        BY <1>1, <1>3, <1>10, <1>12, <3>3, <4>1
      <4>3. b[n + 1] = b[n] + (L - a[n]) + 2
        BY <1>3, <1>4, <1>12
      <4>4. j = m + 1
        <5> DEFINE d == L - a[n]
        <5>1. d \in Int /\ (L + 1) - a[n] = d + 1
          BY <1>1, <1>12
        <5>2. b[n + 1] = b[n] + d + 2 /\ j = b[n] + (d + 1)
          BY <4>1, <4>2, <4>3, <5>1
        <5> HIDE DEF d, j
        <5>3. b[n + 1] - 2 = b[n] + d
          BY <2>1, <5>1, <5>2
        <5>4. m = b[n] + d
          BY <1>5, <5>3
        <5>5. b[n] + (d + 1) = (b[n] + d) + 1
          BY <2>1, <5>1
        <5> QED
          BY <5>2, <5>4, <5>5
      <4> HIDE DEF j
      <4> QED
        BY <1>1, <1>7, <3>1, <4>2, <4>4 DEF e
    <3> QED
      BY <3>2, <3>3
  <2>3. ASSUME NEW k \in 1..n, h[k + 1] - 1 <= Len(v) PROVE v[h[k + 1] - 1] = "space"
    <3>1. CASE k < n
      <4>1. k + 1 \in 1..n
        BY <1>2, <3>1
      <4>2. h[k + 1] = b[k + 1] /\ b[k + 1] - 1 \in 1..m /\ b[k + 1] - 1 <= m
        BY <1>5, <1>9, <1>10, <3>1, <4>1
      <4> QED
        BY <1>5, <1>7, <3>1, <4>2
    <3>2. CASE k = n
      <4>1. h[k + 1] - 1 = m + 2
        BY <1>5, <1>10, <2>1, <3>2
      <4> QED
        BY <1>5, <1>7, <2>3, <4>1
    <3> QED
      BY <1>11, <3>1, <3>2
  <2>4. Len(v) = IF Len(tc) \in Letters(tc) THEN h[n + 1] - 2 ELSE h[n + 1] - 1
    <3>1. h[n + 1] - 2 = m + 1
      BY <1>5, <1>10, <2>1
    <3> QED
      BY <1>1, <1>7, <3>1
  <2> QED
    BY <1>7, <2>2, <2>3, <2>4 DEF Spells
<1> QED
  BY <1>13, <1>14, <1>15 DEF Laid, tc, v, e

(* Every character keeps some layout, if normalizing takes its step.          *)
LEMMA CharacterLaid ==
  ASSUME NEW t \in Seq(Match!Characters), NEW c \in Match!Characters, NEW u,
         \E n, a, z, b : Laid(t, u, n, a, z, b)
  PROVE  \E n, a, z, b : Laid(Append(t, c), NormalizedStep(u, Match!Fold(c)), n, a, z, b)
<1>1. PICK n, a, z, b : Laid(t, u, n, a, z, b)
  OBVIOUS
<1>2. CASE Match!Fold(c) = "space"
  BY <1>1, <1>2, GapAdded
<1>3. CASE Match!Fold(c) # "space"
  <2>1. NormalizedStep(u, Match!Fold(c)) = Append(u, Match!Fold(c))
    BY <1>3 DEF NormalizedStep
  <2>2. CASE Len(t) \in Letters(t)
    <3>1. \E g, h : Laid(Append(t, c), Append(u, Match!Fold(c)), n, a, g, h)
      BY <1>1, <1>3, <2>2, WordProlonged
    <3> QED
      BY <2>1, <3>1
  <2>3. CASE Len(t) \notin Letters(t)
    <3>1. \E f, g, h : Laid(Append(t, c), Append(u, Match!Fold(c)), n + 1, f, g, h)
      BY <1>1, <1>3, <2>3, WordBegun
    <3> QED
      BY <2>1, <3>1
  <2> QED
    BY <2>2, <2>3
<1> QED
  BY <1>2, <1>3

LEMMA NothingLaid == \E n, a, z, b : Laid(<<>>, <<>>, n, a, z, b)
<1> DEFINE b == [k \in 1..1 |-> 1]
<1>1. b[1] = 1 /\ 1..0 = {} /\ 1..0 + 1 = {1} /\ Len(<<>>) = 0 /\ 0 \in Nat
  OBVIOUS
<1> HIDE DEF b
<1>2. Letters(<<>>) = {}
  BY <1>1 DEF Letters
<1>3. WordsStand(<<>>, 0, b, b)
  BY <1>1, <1>2 DEF WordsStand
<1>4. LaidOut(0, b, b, b)
  BY <1>1 DEF LaidOut
<1>5. <<>> \in Seq(Alphabet)
  OBVIOUS
<1>6. Spells(<<>>, <<>>, 0, b, b, b)
  BY <1>1, <1>2, <1>5 DEF Spells
<1> QED
  BY <1>3, <1>4, <1>6 DEF Laid

(* normalizeForMatch before it trims, character by character.                 *)
IsNormalizing(h, t) ==
  h = [i \in 0..Len(t) |-> IF i = 0 THEN <<>>
                           ELSE NormalizedStep(h[i - 1], Match!Fold(t[i]))]

LEMMA UntrimmedIs ==
  ASSUME NEW t \in Seq(Match!Characters), NEW h, IsNormalizing(h, t)
  PROVE  Match!NormalizedUntrimmed(t) = h[Len(t)]
<1> DEFINE n == Len(t)
<1>1. n \in Nat
  BY LenProperties
<1> HIDE DEF n
<1>2. ASSUME NEW f, NEW g, IsNormalizing(f, t), IsNormalizing(g, t) PROVE f = g
  <2> DEFINE P == {i \in 0..n : f[i] = g[i]}
  <2>1. f = [i \in 0..n |-> f[i]] /\ g = [i \in 0..n |-> g[i]]
    BY <1>2 DEF IsNormalizing, n
  <2>2. \A i \in 0..n : f[i] = IF i = 0 THEN <<>> ELSE NormalizedStep(f[i - 1], Match!Fold(t[i]))
    BY <1>2 DEF IsNormalizing, n
  <2>3. \A i \in 0..n : g[i] = IF i = 0 THEN <<>> ELSE NormalizedStep(g[i - 1], Match!Fold(t[i]))
    BY <1>2 DEF IsNormalizing, n
  <2>4. 0 \in P
    BY <1>1, <2>2, <2>3
  <2>5. ASSUME NEW i \in 0 + 1..n, i - 1 \in P PROVE i \in P
    <3>1. i \in 0..n /\ f[i - 1] = g[i - 1]
      BY <1>1, <2>5
    <3> QED
      BY <2>2, <2>3, <3>1
  <2>6. \A i \in 0..n : i \in P
    <3> HIDE DEF P
    <3> QED
      BY <1>1, <2>4, <2>5, UpTo
  <2> QED
    BY <2>1, <2>6
<1>3. (CHOOSE g : IsNormalizing(g, t)) = h
  BY <1>2
<1>4. Match!NormalizedUntrimmed(t) = (CHOOSE g : IsNormalizing(g, t))[Len(t)]
  BY Zenon DEF Match!NormalizedUntrimmed, IsNormalizing, NormalizedStep
<1> QED
  BY <1>3, <1>4

(* Every text typed has been normalized to something that spells its words.   *)
Normalizes(t) ==
  /\ t \in Seq(Match!Characters)
  /\ \E h : /\ IsNormalizing(h, t)
            /\ \E n, a, z, b : Laid(t, h[Len(t)], n, a, z, b)

LEMMA NothingNormalizes == Normalizes(<<>>)
<1> DEFINE h == [i \in 0..0 |-> <<>>]
<1>1. Len(<<>>) = 0 /\ h[0] = <<>> /\ <<>> \in Seq(Match!Characters)
  OBVIOUS
<1>2. h = [i \in 0..0 |-> IF i = 0 THEN <<>>
                          ELSE NormalizedStep(h[i - 1], Match!Fold(<<>>[i]))]
  <2>1. \A i \in 0..0 : i = 0
    OBVIOUS
  <2> QED
    BY <2>1
<1> HIDE DEF h
<1>3. IsNormalizing(h, <<>>)
  BY <1>1, <1>2 DEF IsNormalizing
<1>4. \E n, a, z, b : Laid(<<>>, h[Len(<<>>)], n, a, z, b)
  BY <1>1, NothingLaid
<1> QED
  BY <1>1, <1>3, <1>4 DEF Normalizes

LEMMA CharacterNormalizes ==
  ASSUME NEW t, Normalizes(t), NEW c \in Match!Characters
  PROVE  Normalizes(Append(t, c))
<1>1. t \in Seq(Match!Characters)
  BY DEF Normalizes
<1>2. PICK h : IsNormalizing(h, t) /\ \E n, a, z, b : Laid(t, h[Len(t)], n, a, z, b)
  BY DEF Normalizes
<1> DEFINE tc == Append(t, c)
           L == Len(t)
           v == NormalizedStep(h[L], Match!Fold(c))
           g == [i \in 0..L + 1 |-> IF i <= L THEN h[i] ELSE v]
<1>3. /\ tc \in Seq(Match!Characters) /\ L \in Nat /\ Len(tc) = L + 1
      /\ \A i \in 1..L : tc[i] = t[i]
      /\ tc[L + 1] = c
  BY <1>1, CharacterAdded
<1>4. \E n, a, z, b : Laid(tc, v, n, a, z, b)
  BY <1>1, <1>2, CharacterLaid
<1>5. \A i \in 0..L : h[i] = IF i = 0 THEN <<>> ELSE NormalizedStep(h[i - 1], Match!Fold(t[i]))
  BY <1>2 DEF IsNormalizing
<1> HIDE DEF tc, L
<1>6. /\ \A i \in 0..L : g[i] = h[i]
      /\ g[L + 1] = v
      /\ g = [i \in 0..L + 1 |-> g[i]]
  <2>1. /\ \A i \in 0..L : i \in 0..L + 1 /\ i <= L
        /\ L + 1 \in 0..L + 1 /\ ~(L + 1 <= L)
    BY <1>3
  <2> QED
    BY <2>1
<1> HIDE DEF g
<1>7. ASSUME NEW i \in 0..L + 1
      PROVE  g[i] = IF i = 0 THEN <<>> ELSE NormalizedStep(g[i - 1], Match!Fold(tc[i]))
  <2>1. CASE i = 0
    BY <1>3, <1>5, <1>6, <2>1
  <2>2. CASE i \in 1..L
    <3>1. i \in 0..L /\ i - 1 \in 0..L /\ i # 0
      BY <1>3, <2>2
    <3>2. g[i] = h[i] /\ g[i - 1] = h[i - 1] /\ tc[i] = t[i]
      BY <1>3, <1>6, <2>2, <3>1
    <3> QED
      BY <1>5, <3>1, <3>2
  <2>3. CASE i = L + 1
    <3>1. i # 0 /\ i - 1 = L /\ L \in 0..L
      BY <1>3, <2>3
    <3> QED
      BY <1>3, <1>6, <2>3, <3>1
  <2> QED
    BY <1>3, <2>1, <2>2, <2>3
<1>8. IsNormalizing(g, tc)
  BY <1>3, <1>6, <1>7 DEF IsNormalizing
<1>9. \E n, a, z, b : Laid(tc, g[Len(tc)], n, a, z, b)
  BY <1>3, <1>4, <1>6
<1> QED
  BY <1>3, <1>8, <1>9 DEF Normalizes, tc

LEMMA Counts == \A S : Match!Cardinality(S) = Cardinality(S)
BY Zenon DEF Match!Cardinality, Cardinality

(* As many values as there are indices, where no two are equal.               *)
Image(f, m) == {f[k] : k \in 1..m}

LEMMA ImageCounts ==
  ASSUME NEW m \in Nat, NEW f, \A k, l \in 1..m : f[k] = f[l] => k = l
  PROVE  IsFiniteSet(Image(f, m)) /\ Cardinality(Image(f, m)) = m
<1> DEFINE S == Image(f, m)
           g == [k \in 1..m |-> f[k]]
<1>1. IsFiniteSet(1..m) /\ Cardinality(1..m) = m
  BY FS_Interval
<1>2. g \in Bijection(1..m, S)
  <2>1. g \in Injection(1..m, S)
    BY DEF Injection, IsInjective, Image
  <2>2. g \in Surjection(1..m, S)
    BY DEF Surjection, Image
  <2> QED
    BY <2>1, <2>2 DEF Bijection
<1>3. ExistsBijection(1..m, S)
  BY <1>2 DEF ExistsBijection
<1> HIDE DEF S, g
<1>4. IsFiniteSet(S) /\ Cardinality(S) = Cardinality(1..m)
  BY <1>1, <1>3, FS_Bijection
<1> QED
  BY <1>1, <1>4 DEF S

(* What WordsStand says, for one pair of words.                               *)
LEMMA Apart ==
  ASSUME NEW t \in Seq(Match!Characters), NEW n, NEW a, NEW z, WordsStand(t, n, a, z),
         NEW k \in 1..n, NEW l \in 1..n
  PROVE  /\ n \in Nat /\ Len(t) \in Nat
         /\ a[k] \in 1..Len(t) /\ z[k] \in 1..Len(t) /\ a[k] <= z[k]
         /\ a[l] \in 1..Len(t) /\ z[l] \in 1..Len(t) /\ a[l] <= z[l]
         /\ k < l => z[k] + 1 < a[l]
         /\ l < k => z[l] + 1 < a[k]
         /\ k = l \/ k < l \/ l < k
         /\ a[l] <= a[k] <=> l <= k
<1>1. n \in Nat /\ Len(t) \in Nat
  BY LenProperties DEF WordsStand
<1>2. /\ a[k] \in 1..Len(t) /\ z[k] \in a[k]..Len(t)
      /\ a[l] \in 1..Len(t) /\ z[l] \in a[l]..Len(t)
      /\ k < l => z[k] + 1 < a[l]
      /\ l < k => z[l] + 1 < a[k]
  BY DEF WordsStand
<1>3. /\ z[k] \in 1..Len(t) /\ a[k] <= z[k]
      /\ z[l] \in 1..Len(t) /\ a[l] <= z[l]
  BY <1>1, <1>2
<1>4. k = l \/ k < l \/ l < k
  BY <1>1
<1>5. a[l] <= a[k] <=> l <= k
  <2>1. CASE k = l
    BY <1>2, <2>1
  <2>2. CASE k < l
    BY <1>1, <1>2, <1>3, <2>2
  <2>3. CASE l < k
    BY <1>1, <1>2, <1>3, <2>3
  <2> QED
    BY <1>4, <2>1, <2>2, <2>3
<1> QED
  BY <1>1, <1>2, <1>3, <1>4, <1>5

(* Letters stand in words, and words begin after a gap and end before one.    *)
LEMMA WordBounds ==
  ASSUME NEW t \in Seq(Match!Characters), NEW n, NEW a, NEW z, WordsStand(t, n, a, z),
         NEW k \in 1..n
  PROVE  /\ a[k] - 1 \notin Letters(t) /\ z[k] + 1 \notin Letters(t)
         /\ \A i \in a[k]..z[k] : i \in Letters(t)
<1>1. /\ n \in Nat /\ Len(t) \in Nat
      /\ a[k] \in 1..Len(t) /\ z[k] \in 1..Len(t) /\ a[k] <= z[k]
  BY Apart
<1>2. \A i \in 1..Len(t) : i \in Letters(t) <=> \E l \in 1..n : i \in a[l]..z[l]
  BY DEF WordsStand
<1>3. \A i \in Letters(t) : i \in 1..Len(t)
  BY DEF Letters
<1>4. \A i \in a[k]..z[k] : i \in 1..Len(t)
  BY <1>1
<1>5. ASSUME a[k] - 1 \in Letters(t) PROVE FALSE
  <2>1. PICK l \in 1..n : a[k] - 1 \in a[l]..z[l]
    BY <1>2, <1>3, <1>5
  <2>2. /\ a[l] \in 1..Len(t) /\ z[l] \in 1..Len(t)
        /\ k < l => z[k] + 1 < a[l]
        /\ l < k => z[l] + 1 < a[k]
        /\ k = l \/ k < l \/ l < k
    BY Apart
  <2>3. a[l] <= a[k] - 1 /\ a[k] - 1 <= z[l]
    BY <1>1, <2>1, <2>2
  <2>4. k # l
    BY <1>1, <2>3
  <2>5. ~(k < l)
    BY <1>1, <2>2, <2>3
  <2>6. ~(l < k)
    BY <1>1, <2>2, <2>3
  <2> QED
    BY <2>2, <2>4, <2>5, <2>6
<1>6. ASSUME z[k] + 1 \in Letters(t) PROVE FALSE
  <2>1. PICK l \in 1..n : z[k] + 1 \in a[l]..z[l]
    BY <1>2, <1>3, <1>6
  <2>2. /\ a[l] \in 1..Len(t) /\ z[l] \in 1..Len(t)
        /\ k < l => z[k] + 1 < a[l]
        /\ l < k => z[l] + 1 < a[k]
        /\ k = l \/ k < l \/ l < k
    BY Apart
  <2>3. a[l] <= z[k] + 1 /\ z[k] + 1 <= z[l]
    BY <1>1, <2>1, <2>2
  <2>4. k # l
    BY <1>1, <2>3
  <2>5. ~(k < l)
    BY <1>1, <2>2, <2>3
  <2>6. ~(l < k)
    BY <1>1, <2>2, <2>3
  <2> QED
    BY <2>2, <2>4, <2>5, <2>6
<1> QED
  BY <1>2, <1>4, <1>5, <1>6

LEMMA BeginsAre ==
  ASSUME NEW t \in Seq(Match!Characters), NEW n, NEW a, NEW z, WordsStand(t, n, a, z)
  PROVE  Match!Begins(t) = Image(a, n)
<1>1. Match!Begins(t) = {i \in 1..Len(t) : i \in Letters(t) /\ i - 1 \notin Letters(t)}
  <2>1. DOMAIN t = 1..Len(t)
    BY LenProperties
  <2> QED
    BY <2>1, GapsAre DEF Match!Begins
<1>2. ASSUME NEW k \in 1..n
      PROVE  a[k] \in 1..Len(t) /\ a[k] \in Letters(t) /\ a[k] - 1 \notin Letters(t)
  <2>1. a[k] \in 1..Len(t) /\ z[k] \in 1..Len(t) /\ a[k] <= z[k] /\ Len(t) \in Nat
    BY Apart
  <2>2. a[k] \in a[k]..z[k]
    BY <2>1
  <2> QED
    BY <2>1, <2>2, WordBounds
<1>3. ASSUME NEW i \in 1..Len(t), i \in Letters(t), i - 1 \notin Letters(t)
      PROVE  \E k \in 1..n : i = a[k]
  <2>1. PICK k \in 1..n : i \in a[k]..z[k]
    BY <1>3 DEF WordsStand
  <2>2. a[k] \in 1..Len(t) /\ z[k] \in 1..Len(t) /\ a[k] <= z[k] /\ Len(t) \in Nat
    BY Apart
  <2>3. i - 1 \notin a[k]..z[k]
    BY <1>3, WordBounds
  <2> QED
    BY <2>1, <2>2, <2>3
<1> QED
  BY <1>1, <1>2, <1>3 DEF Image

(* The k-th word is the one with k beginnings up to its own.                  *)
LEMMA BeginningsRanked ==
  ASSUME NEW t \in Seq(Match!Characters), NEW n, NEW a, NEW z, WordsStand(t, n, a, z)
  PROVE  /\ Cardinality(Match!Begins(t)) = n
         /\ \A k \in 1..n :
              (CHOOSE i \in Match!Begins(t) :
                 Cardinality({j \in Match!Begins(t) : j <= i}) = k) = a[k]
<1> DEFINE B == Match!Begins(t)
<1>1. B = Image(a, n)
  BY BeginsAre
<1>2. n \in Nat
  BY DEF WordsStand
<1>3. \A k, l \in 1..n : a[l] <= a[k] <=> l <= k
  BY Apart
<1>4. \A k \in 1..n : a[k] \in Nat
  <2>1. \A k \in 1..n : a[k] \in 1..Len(t) /\ Len(t) \in Nat
    BY Apart
  <2> QED
    BY <2>1
<1>5. \A k, l \in 1..n : a[k] = a[l] => k = l
  BY <1>2, <1>3, <1>4
<1> HIDE DEF B
<1>6. Cardinality(B) = n
  BY <1>1, <1>2, <1>5, ImageCounts
<1>7. ASSUME NEW k \in 1..n PROVE Cardinality({j \in B : j <= a[k]}) = k
  <2>1. {j \in B : j <= a[k]} = Image(a, k)
    BY <1>1, <1>2, <1>3 DEF Image
  <2>2. k \in Nat /\ \A l, m \in 1..k : a[l] = a[m] => l = m
    BY <1>2, <1>5
  <2> QED
    BY <2>1, <2>2, ImageCounts
<1>8. ASSUME NEW k \in 1..n
      PROVE  (CHOOSE i \in B : Cardinality({j \in B : j <= i}) = k) = a[k]
  <2>1. \A i \in B : Cardinality({j \in B : j <= i}) = k <=> i = a[k]
    BY <1>1, <1>7 DEF Image
  <2>2. a[k] \in B
    BY <1>1 DEF Image
  <2> QED
    BY <2>1, <2>2
<1> QED
  BY <1>6, <1>8 DEF B

(* The words of a text, as they stand in it.                                  *)
Spelling(t, n, a, z) ==
  [k \in 1..n |-> [j \in 1..(z[k] - a[k] + 1) |-> Match!Fold(t[a[k] + j - 1])]]

LEMMA WordsAre ==
  ASSUME NEW t \in Seq(Match!Characters), NEW n, NEW a, NEW z, WordsStand(t, n, a, z)
  PROVE  Match!Words(t) = Spelling(t, n, a, z)
<1>1. ASSUME NEW k \in 1..n
      PROVE  Match!WordAt(t, a[k])
               = [j \in 1..(z[k] - a[k] + 1) |-> Match!Fold(t[a[k] + j - 1])]
  <2> DEFINE Ends(j) == Match!Gap(t, j + 1) /\ \A i \in a[k]..j : ~Match!Gap(t, i)
  <2>1. a[k] \in 1..Len(t) /\ z[k] \in 1..Len(t) /\ a[k] <= z[k] /\ Len(t) \in Nat
    BY Apart
  <2>2. /\ z[k] + 1 \notin Letters(t) /\ \A i \in a[k]..z[k] : i \in Letters(t)
    BY WordBounds
  <2>3. \A i : Match!Gap(t, i) <=> i \notin Letters(t)
    BY GapsAre
  <2>4. z[k] \in a[k]..Len(t) /\ Ends(z[k])
    BY <2>1, <2>2, <2>3
  <2>5. ASSUME NEW j \in a[k]..Len(t), Ends(j) PROVE j = z[k]
    <3>1. j + 1 \notin Letters(t) /\ \A i \in a[k]..j : i \in Letters(t)
      BY <2>3, <2>5
    <3>2. ~(j + 1 \in a[k]..z[k]) /\ ~(z[k] + 1 \in a[k]..j)
      BY <2>2, <3>1
    <3> QED
      BY <2>1, <2>5, <3>2
  <2> HIDE DEF Ends
  <2>6. (CHOOSE j \in a[k]..Len(t) : Ends(j)) = z[k]
    BY <2>4, <2>5
  <2> QED
    BY <2>6, Zenon DEF Match!WordAt, Ends
<1> DEFINE B == Match!Begins(t)
           MNth(k) == CHOOSE i \in B : Match!Cardinality({j \in B : j <= i}) = k
           Nth(k) == CHOOSE i \in B : Cardinality({j \in B : j <= i}) = k
<1>2. Match!Words(t) = [k \in 1..Cardinality(B) |-> Match!WordAt(t, Nth(k))]
  <2>1. Match!Words(t) = [k \in 1..Match!Cardinality(B) |-> Match!WordAt(t, MNth(k))]
    BY DEF Match!Words
  <2>2. \A k : MNth(k) = Nth(k)
    BY Counts
  <2> HIDE DEF B, Nth, MNth
  <2> QED
    BY <2>1, <2>2, Counts
<1>3. Cardinality(B) = n /\ \A k \in 1..n : Nth(k) = a[k]
  BY BeginningsRanked DEF B
<1> HIDE DEF B, Nth
<1>4. Match!Words(t) = [k \in 1..n |-> Match!WordAt(t, a[k])]
  BY <1>2, <1>3
<1> QED
  BY <1>1, <1>4 DEF Spelling

LEMMA Tabulated ==
  ASSUME NEW S, NEW n \in Nat, NEW f, f = [i \in 1..n |-> f[i]], \A i \in 1..n : f[i] \in S
  PROVE  f \in Seq(S) /\ Len(f) = n
<1>1. f \in [1..n -> S]
  OBVIOUS
<1> QED
  BY <1>1

LEMMA SpellingFacts ==
  ASSUME NEW t \in Seq(Match!Characters), NEW n, NEW a, NEW z, WordsStand(t, n, a, z),
         NEW w, w = Spelling(t, n, a, z)
  PROVE  /\ n \in Nat /\ w \in Seq(Seq(Alphabet)) /\ Len(w) = n
         /\ \A k \in 1..n :
              /\ w[k] \in Seq(Alphabet) /\ Len(w[k]) = z[k] - a[k] + 1
              /\ \A j \in 1..Len(w[k]) :
                   /\ a[k] + j - 1 \in a[k]..z[k]
                   /\ w[k][j] = Match!Fold(t[a[k] + j - 1]) /\ w[k][j] # "space"
<1>1. n \in Nat
  BY DEF WordsStand
<1>2. /\ w = [k \in 1..n |-> w[k]]
      /\ \A k \in 1..n : w[k] = [j \in 1..(z[k] - a[k] + 1) |-> Match!Fold(t[a[k] + j - 1])]
  BY DEF Spelling
<1>3. ASSUME NEW k \in 1..n
      PROVE  /\ w[k] \in Seq(Alphabet) /\ Len(w[k]) = z[k] - a[k] + 1
             /\ \A j \in 1..Len(w[k]) :
                   /\ a[k] + j - 1 \in a[k]..z[k]
                   /\ w[k][j] = Match!Fold(t[a[k] + j - 1]) /\ w[k][j] # "space"
  <2> DEFINE x == a[k]
             y == z[k]
             v == w[k]
  <2>1. x \in 1..Len(t) /\ y \in 1..Len(t) /\ x <= y /\ Len(t) \in Nat
    BY Apart
  <2>2. \A i \in x..y : i \in Letters(t)
    BY WordBounds
  <2>3. v = [j \in 1..(y - x + 1) |-> Match!Fold(t[x + j - 1])]
    BY <1>2
  <2> HIDE DEF x, y, v
  <2>4. v = [j \in 1..(y - x + 1) |-> v[j]] /\ y - x + 1 \in Nat
    BY <2>1, <2>3
  <2>5. \A j \in 1..(y - x + 1) : v[j] = Match!Fold(t[x + j - 1]) /\ v[j] \in Alphabet
    BY <2>3, Folds
  <2>6. v \in Seq(Alphabet) /\ Len(v) = y - x + 1
    BY <2>4, <2>5, Tabulated
  <2>7. ASSUME NEW j \in 1..Len(v)
        PROVE  x + j - 1 \in x..y /\ v[j] = Match!Fold(t[x + j - 1]) /\ v[j] # "space"
    <3>1. j \in 1..(y - x + 1) /\ x + j - 1 \in x..y
      BY <2>1, <2>6
    <3>2. Match!Fold(t[x + j - 1]) # "space"
      BY <2>2, <3>1 DEF Letters
    <3> QED
      BY <2>5, <3>1, <3>2
  <2> QED
    BY <2>6, <2>7 DEF x, y, v
<1>4. w \in Seq(Seq(Alphabet)) /\ Len(w) = n
  BY <1>1, <1>2, <1>3, Tabulated
<1> QED
  BY <1>1, <1>3, <1>4

(* What is left when a space at the end is taken away.                        *)
LEMMA NormalizedIs ==
  ASSUME NEW t \in Seq(Match!Characters), NEW u, u = Match!NormalizedUntrimmed(t),
         NEW n, NEW a, NEW z, NEW b, Laid(t, u, n, a, z, b),
         NEW v, v = Match!Normalized(t)
  PROVE  /\ n = 0 => v = <<>>
         /\ n >= 1 => /\ v \in Seq(Alphabet) /\ Len(v) = b[n + 1] - 2 /\ Len(v) >= 1
                      /\ \A i \in 1..Len(v) : i \in 1..Len(u) /\ v[i] = u[i]
<1> DEFINE L == Len(t)
           m == Len(u)
           y == b[n + 1]
<1>1. n \in Nat /\ L \in Nat
  BY LenProperties DEF Laid, WordsStand
<1>2. /\ u \in Seq(Alphabet) /\ m \in Nat
      /\ m = IF L \in Letters(t) THEN y - 2 ELSE y - 1
  BY LenProperties DEF Laid, Spells
<1>3. (u = <<>> \/ u[m] = "space") <=> L \notin Letters(t)
  BY EndsInGap
<1>4. y \in Nat /\ (n = 0 => y = 1) /\ (n >= 1 => y >= 3)
  <2>1. b[1] = 1 /\ \A k, l \in 1..n + 1 : k < l => b[k] + 2 <= b[l]
    BY DEF Laid, LaidOut
  <2>2. n + 1 \in 1..n + 1 /\ 1 \in 1..n + 1
    BY <1>1
  <2>3. y \in Nat
    BY <2>2 DEF Laid, LaidOut
  <2>4. n >= 1 => 1 < n + 1
    BY <1>1
  <2> HIDE DEF y
  <2>5. n >= 1 => b[1] + 2 <= y
    BY <2>1, <2>2, <2>4 DEF y
  <2> QED
    BY <1>1, <2>1, <2>3, <2>5 DEF y
<1>5. v = IF u # <<>> /\ u[m] = "space" THEN SubSeq(u, 1, m - 1) ELSE u
  BY Zenon DEF Match!Normalized
<1>6. n = 0 => L \notin Letters(t)
  BY LastWord
<1>7. u = <<>> <=> m = 0
  BY <1>2, EmptySeq
<1> HIDE DEF L, m, y
<1>8. CASE n = 0
  BY <1>1, <1>2, <1>4, <1>5, <1>6, <1>7, <1>8
<1>9. CASE n >= 1 /\ L \in Letters(t)
  <2>1. v = u /\ m = y - 2
    BY <1>2, <1>3, <1>5, <1>9
  <2> QED
    BY <1>1, <1>2, <1>4, <1>9, <2>1 DEF m, y
<1>10. CASE n >= 1 /\ L \notin Letters(t)
  <2>1. m = y - 1 /\ m - 1 \in Nat /\ m - 1 >= 1
    BY <1>2, <1>4, <1>10
  <2>2. v = SubSeq(u, 1, m - 1)
    BY <1>3, <1>5, <1>7, <1>10, <2>1
  <2>3. \A i \in 1..m - 1 : i \in 1..m /\ u[i] \in Alphabet
    <3>1. \A i \in 1..m : u[i] \in Alphabet
      BY <1>2, LenProperties DEF m
    <3> QED
      BY <1>2, <3>1
  <2>4. v \in Seq(Alphabet) /\ Len(v) = m - 1 /\ \A i \in 1..m - 1 : v[i] = u[i]
    <3> DEFINE w == SubSeq(u, 1, m - 1)
    <3>1. /\ w \in Seq(Alphabet) /\ Len(w) = IF 1 <= m - 1 THEN (m - 1) - 1 + 1 ELSE 0
          /\ \A i \in 1..(m - 1) - 1 + 1 : w[i] = u[1 + i - 1]
      BY <2>1, <2>3, SubSeqProperties
    <3> HIDE DEF w
    <3>2. Len(w) = m - 1 /\ \A i \in 1..m - 1 : w[i] = u[i]
      BY <2>1, <3>1
    <3> QED
      BY <2>2, <3>1, <3>2 DEF w
  <2>5. Len(v) = y - 2 /\ Len(v) >= 1 /\ \A i \in 1..Len(v) : i \in 1..m /\ v[i] = u[i]
    <3>1. Len(v) = m - 1 /\ m - 1 = y - 2 /\ m - 1 >= 1 /\ \A i \in 1..m - 1 : i \in 1..m
      BY <1>2, <1>4, <2>1, <2>4
    <3> QED
      BY <2>4, <3>1
  <2> QED
    BY <1>10, <2>4, <2>5 DEF m, y
<1> QED
  BY <1>1, <1>8, <1>9, <1>10

(* A line of n words between spaces, the k-th space at b[k].                  *)
Lined(p, w, n, b) ==
  /\ n \in Nat
  /\ p \in Seq(Alphabet) /\ Len(p) = b[n + 1]
  /\ w \in Seq(Seq(Alphabet)) /\ Len(w) = n
  /\ b[1] = 1
  /\ \A k \in 1..n + 1 : b[k] \in Nat /\ p[b[k]] = "space"
  /\ \A k \in 1..n : /\ b[k + 1] = b[k] + Len(w[k]) + 1 /\ Len(w[k]) \in Nat
                     /\ \A j \in 1..Len(w[k]) : p[b[k] + j] = w[k][j] /\ w[k][j] # "space"

LEMMA PaddedFacts ==
  ASSUME NEW v \in Seq(Alphabet), NEW p, p = Match!Padded(v)
  PROVE  /\ p \in Seq(Alphabet) /\ Len(v) \in Nat /\ Len(p) = Len(v) + 2
         /\ p[1] = "space" /\ p[Len(v) + 2] = "space"
         /\ \A i \in 1..Len(v) : p[i + 1] = v[i]
<1> DEFINE one == <<"space">>
           q == one \o v
<1>1. one \in Seq(Alphabet) /\ Len(one) = 1 /\ one[1] = "space"
  <2>1. "space" \in Alphabet
    BY DEF Alphabet
  <2> QED
    BY <2>1
<1>2. Len(v) \in Nat
  BY LenProperties
<1> HIDE DEF one
<1>3. /\ q \in Seq(Alphabet) /\ Len(q) = 1 + Len(v)
      /\ \A i \in 1..1 + Len(v) : q[i] = IF i <= 1 THEN one[i] ELSE v[i - 1]
  <2>1. /\ q \in Seq(Alphabet) /\ Len(q) = Len(one) + Len(v)
        /\ \A i \in 1..Len(one) + Len(v) :
             q[i] = IF i <= Len(one) THEN one[i] ELSE v[i - Len(one)]
    BY <1>1, ConcatProperties
  <2> HIDE DEF q
  <2> QED
    BY <1>1, <2>1
<1> HIDE DEF q
<1>4. p = q \o one
  BY DEF Match!Padded, q, one
<1>5. /\ p \in Seq(Alphabet) /\ Len(p) = Len(q) + Len(one)
      /\ \A i \in 1..Len(q) + Len(one) : p[i] = IF i <= Len(q) THEN q[i] ELSE one[i - Len(q)]
  <2> DEFINE r == q \o one
  <2>1. /\ r \in Seq(Alphabet) /\ Len(r) = Len(q) + Len(one)
        /\ \A i \in 1..Len(q) + Len(one) : r[i] = IF i <= Len(q) THEN q[i] ELSE one[i - Len(q)]
    BY <1>1, <1>3, ConcatProperties
  <2> HIDE DEF r
  <2>2. p = r
    BY <1>4 DEF r
  <2> QED
    BY <2>1, <2>2
<1>6. Len(p) = Len(v) + 2 /\ \A i \in 1..Len(v) + 1 : p[i] = q[i]
  BY <1>1, <1>2, <1>3, <1>5
<1>7. p[Len(v) + 2] = "space"
  <2>1. Len(v) + 2 \in 1..Len(q) + Len(one) /\ ~(Len(v) + 2 <= Len(q)) /\ Len(v) + 2 - Len(q) = 1
    BY <1>1, <1>2, <1>3
  <2> QED
    BY <1>1, <1>5, <2>1
<1>8. p[1] = "space"
  BY <1>1, <1>2, <1>3, <1>6
<1>9. ASSUME NEW i \in 1..Len(v) PROVE p[i + 1] = v[i]
  <2>1. i + 1 \in 1..Len(v) + 1 /\ ~(i + 1 <= 1) /\ (i + 1) - 1 = i
    BY <1>2
  <2> QED
    BY <1>2, <1>3, <1>6, <2>1
<1> QED
  BY <1>2, <1>5, <1>6, <1>7, <1>8, <1>9

(* Padded, a normalized text is the line of its words.                        *)
LEMMA PaddedIsLine ==
  ASSUME NEW t \in Seq(Match!Characters), NEW u, u = Match!NormalizedUntrimmed(t),
         NEW n, n >= 1, NEW a, NEW z, NEW b, Laid(t, u, n, a, z, b),
         NEW p, p = Match!Padded(Match!Normalized(t)), NEW w, w = Spelling(t, n, a, z)
  PROVE  Lined(p, w, n, b)
<1> DEFINE v == Match!Normalized(t)
           m == Len(v)
<1>1. /\ n \in Nat /\ w \in Seq(Seq(Alphabet)) /\ Len(w) = n
      /\ \A k \in 1..n :
           /\ w[k] \in Seq(Alphabet) /\ Len(w[k]) = z[k] - a[k] + 1
           /\ \A j \in 1..Len(w[k]) :
                /\ a[k] + j - 1 \in a[k]..z[k]
                /\ w[k][j] = Match!Fold(t[a[k] + j - 1]) /\ w[k][j] # "space"
  BY SpellingFacts DEF Laid
<1>2. /\ v \in Seq(Alphabet) /\ m = b[n + 1] - 2 /\ m >= 1
      /\ \A i \in 1..m : i \in 1..Len(u) /\ v[i] = u[i]
  BY NormalizedIs
<1> HIDE DEF v
<1>3. /\ p \in Seq(Alphabet) /\ m \in Nat /\ Len(p) = m + 2
      /\ p[1] = "space" /\ p[m + 2] = "space"
      /\ \A i \in 1..m : p[i + 1] = v[i]
  BY <1>2, PaddedFacts DEF v
<1> HIDE DEF m
<1>4. b[1] = 1 /\ n + 1 \in 1..n + 1 /\ b[n + 1] \in Nat /\ Len(p) = b[n + 1]
  <2>1. n + 1 \in 1..n + 1
    BY <1>1
  <2>2. b[1] = 1 /\ b[n + 1] \in Nat
    BY <2>1 DEF Laid, LaidOut
  <2> QED
    BY <1>2, <1>3, <2>1, <2>2
<1>5. ASSUME NEW k \in 1..n + 1 PROVE b[k] \in Nat /\ p[b[k]] = "space"
  <2>1. b[k] \in Nat
    BY DEF Laid, LaidOut
  <2>2. CASE k = 1
    BY <1>3, <1>4, <2>1, <2>2
  <2>3. CASE k = n + 1
    BY <1>2, <1>3, <1>4, <2>1, <2>3
  <2>4. CASE k # 1 /\ k # n + 1
    <3> DEFINE l == k - 1
               x == b[k]
               y == b[n + 1]
    <3>1. l \in 1..n /\ l < n /\ l + 1 = k /\ 1 \in 1..n + 1 /\ 1 < k /\ k < n + 1
      BY <1>1, <2>4
    <3>2. b[1] + 2 <= x /\ x + 2 <= y
      BY <1>4, <3>1 DEF Laid, LaidOut
    <3>3. \A i \in 1..n : b[i + 1] - 1 <= Len(u) => u[b[i + 1] - 1] = "space"
      BY DEF Laid, Spells
    <3>4. x - 1 <= Len(u) => u[x - 1] = "space"
      BY <3>1, <3>3
    <3> HIDE DEF x, y, l
    <3>5. x - 1 \in 1..m /\ (x - 1) + 1 = x
      <4>1. m = y - 2 /\ x \in Nat /\ y \in Nat /\ 3 <= x
        BY <1>2, <1>4, <2>1, <3>2 DEF x, y
      <4> QED
        BY <3>2, <4>1
    <3>6. x - 1 \in 1..Len(u) /\ Len(u) \in Nat
      BY <1>2, <3>5, LenProperties DEF Laid, Spells
    <3>7. x - 1 <= Len(u)
      BY <3>6
    <3>8. p[x] = "space"
      BY <1>2, <1>3, <3>4, <3>5, <3>7
    <3> QED
      BY <2>1, <3>8 DEF x
  <2> QED
    BY <2>2, <2>3, <2>4
<1>6. ASSUME NEW k \in 1..n
      PROVE  /\ b[k + 1] = b[k] + Len(w[k]) + 1 /\ Len(w[k]) \in Nat
             /\ \A j \in 1..Len(w[k]) : p[b[k] + j] = w[k][j] /\ w[k][j] # "space"
  <2> DEFINE x == b[k]
             y == b[k + 1]
             e == b[n + 1]
             s == a[k]
             f == z[k]
             c == Len(w[k])
  <2>1. s \in 1..Len(t) /\ f \in 1..Len(t) /\ s <= f /\ Len(t) \in Nat
    BY Apart DEF Laid
  <2>2. x \in Nat /\ 1 <= x /\ y = x + (f - s) + 2 /\ y \in Nat /\ y <= e /\ e \in Nat
    <3>1. k \in 1..n + 1 /\ k <= n
      BY <1>1
    <3> QED
      BY <1>1, <3>1, Within DEF Laid
  <2>3. c = f - s + 1
    BY <1>1
  <2> HIDE DEF x, y, e, s, f, c
  <2>4. y = x + c + 1 /\ c \in Nat
    BY <2>1, <2>2, <2>3
  <2>5. ASSUME NEW j \in 1..c PROVE p[x + j] = w[k][j] /\ w[k][j] # "space"
    <3> DEFINE i == s + j - 1
    <3>1. i \in s..f /\ w[k][j] = Match!Fold(t[i]) /\ w[k][j] # "space"
      BY <1>1 DEF s, f, c
    <3>2. u[x + (i - s)] = Match!Fold(t[i])
      BY <3>1 DEF Laid, Spells, x, s, f
    <3>3. x + (i - s) = x + j - 1 /\ (x + j - 1) + 1 = x + j
      BY <2>1, <2>2
    <3>4. j \in Nat /\ 1 <= j /\ j <= c /\ m = e - 2
      BY <1>2, <2>4 DEF e
    <3> HIDE DEF i
    <3>5. x + j - 1 \in 1..m
      <4>1. x + j - 1 >= 1 /\ x + j - 1 <= y - 2 /\ x + j - 1 \in Int
        BY <2>2, <2>4, <3>4
      <4> QED
        BY <1>3, <2>2, <3>4, <4>1
    <3>6. p[x + j] = u[x + j - 1]
      BY <1>2, <1>3, <3>3, <3>5
    <3>7. u[x + j - 1] = Match!Fold(t[i])
      BY <3>2, <3>3
    <3> QED
      BY <3>1, <3>6, <3>7
  <2> QED
    BY <2>4, <2>5 DEF x, y, c
<1> QED
  BY <1>1, <1>3, <1>4, <1>5, <1>6 DEF Lined

(* To occur in a text is to agree with it from some place on.                 *)
Agrees(p, q) ==
  \E i \in 0..(Len(q) - Len(p)) : \A x \in 1..Len(p) : q[i + x] = p[x]

LEMMA OccursIs ==
  ASSUME NEW S, NEW p \in Seq(S), NEW q \in Seq(S)
  PROVE  Match!Occurs(p, q) <=> Agrees(p, q)
<1>1. Len(p) \in Nat /\ Len(q) \in Nat /\ \A x \in 1..Len(q) : q[x] \in S
  BY LenProperties
<1>2. ASSUME NEW i \in 0..(Len(q) - Len(p))
      PROVE  SubSeq(q, i + 1, i + Len(p)) = p <=> \A x \in 1..Len(p) : q[i + x] = p[x]
  <2> DEFINE r == SubSeq(q, i + 1, i + Len(p))
  <2>1. /\ i + 1 \in Int /\ i + Len(p) \in Int
        /\ \A x \in i + 1..i + Len(p) : x \in 1..Len(q)
    BY <1>1
  <2>2. \A x \in i + 1..i + Len(p) : q[x] \in S
    BY <1>1, <2>1
  <2>3. /\ r \in Seq(S)
        /\ Len(r) = IF i + 1 <= i + Len(p) THEN i + Len(p) - (i + 1) + 1 ELSE 0
        /\ \A x \in 1..i + Len(p) - (i + 1) + 1 : r[x] = q[i + 1 + x - 1]
    BY <2>1, <2>2, SubSeqProperties
  <2> HIDE DEF r
  <2>4. Len(r) = Len(p) /\ i + Len(p) - (i + 1) + 1 = Len(p)
    BY <1>1, <2>3
  <2>5. \A x \in 1..Len(p) : r[x] = q[i + x]
    <3>1. \A x \in 1..Len(p) : i + 1 + x - 1 = i + x
      BY <1>1
    <3> QED
      BY <2>3, <2>4, <3>1
  <2>6. (\A x \in 1..Len(p) : r[x] = p[x]) => r = p
    BY <2>3, <2>4, SeqEqual
  <2> QED
    BY <2>5, <2>6 DEF r
<1> QED
  BY <1>2, Zenon DEF Match!Occurs, Agrees

(* The places of a line are those of its spaces and of its words.             *)
LEMMA LineGrows ==
  ASSUME NEW p, NEW w, NEW n, NEW b, Lined(p, w, n, b), NEW k \in 1..n + 1
  PROVE  b[k] \in Nat /\ b[n + 1] \in Nat /\ b[k] <= b[n + 1]
<1>1. n \in Nat /\ k \in Nat /\ n + 1 \in Nat /\ n + 1 \in k..n + 1
  BY DEF Lined
<1>2. \A l \in 1..n + 1 : b[l] \in Nat
  BY DEF Lined
<1>3. \A l \in 1..n : b[l + 1] = b[l] + Len(w[l]) + 1 /\ Len(w[l]) \in Nat
  BY DEF Lined
<1> DEFINE P == {l \in k..n + 1 : b[k] <= b[l]}
<1>4. k \in P
  BY <1>1, <1>2
<1>5. ASSUME NEW l \in k + 1..n + 1, l - 1 \in P PROVE l \in P
  <2>1. l - 1 \in 1..n /\ l \in 1..n + 1 /\ l \in k..n + 1 /\ l - 1 \in 1..n + 1
    BY <1>1
  <2>2. (l - 1) + 1 = l
    BY <1>1
  <2>3. b[l] = b[l - 1] + Len(w[l - 1]) + 1 /\ Len(w[l - 1]) \in Nat
    BY <1>3, <2>1, <2>2
  <2>4. b[k] <= b[l - 1] /\ b[k] \in Nat /\ b[l - 1] \in Nat /\ b[l] \in Nat
    BY <1>2, <1>5, <2>1
  <2>5. b[k] <= b[l]
    BY <2>3, <2>4
  <2> QED
    BY <2>1, <2>5
<1>6. n + 1 \in P
  <2> HIDE DEF P
  <2> QED
    BY <1>1, <1>4, <1>5, UpTo
<1> QED
  BY <1>1, <1>2, <1>6

LEMMA LineCovered ==
  ASSUME NEW p, NEW w, NEW n, NEW b, Lined(p, w, n, b), NEW x \in 1..Len(p)
  PROVE  \/ \E k \in 1..n + 1 : x = b[k]
         \/ \E k \in 1..n : \E j \in 1..Len(w[k]) : x = b[k] + j
<1>1. n \in Nat /\ Len(p) = b[n + 1] /\ b[1] = 1 /\ 1 \in 1..n + 1 /\ n + 1 \in 1..n + 1
  BY DEF Lined
<1>2. \A l \in 1..n + 1 : b[l] \in Nat
  BY DEF Lined
<1>3. \A l \in 1..n : b[l + 1] = b[l] + Len(w[l]) + 1 /\ Len(w[l]) \in Nat
  BY DEF Lined
<1> DEFINE AtSpace(y) == \E k \in 1..n + 1 : y = b[k]
           AtWord(y) == \E k \in 1..n : \E j \in 1..Len(w[k]) : y = b[k] + j
           P == {y \in 1..Len(p) : AtSpace(y) \/ AtWord(y)}
<1>4. Len(p) \in Nat
  BY <1>1, <1>2
<1>5. 1 \in P
  BY <1>1, <1>4
<1>6. ASSUME NEW y \in 1 + 1..Len(p), y - 1 \in P PROVE y \in P
  <2>1. y \in 1..Len(p) /\ y \in Nat
    BY <1>4
  <2>2. ASSUME NEW k \in 1..n + 1, y - 1 = b[k] PROVE AtSpace(y) \/ AtWord(y)
    <3>1. k # n + 1
      BY <1>1, <1>4, <2>1, <2>2
    <3>2. k \in 1..n /\ k + 1 \in 1..n + 1
      BY <1>1, <3>1
    <3>3. b[k] \in Nat /\ b[k + 1] = b[k] + Len(w[k]) + 1 /\ Len(w[k]) \in Nat
      BY <1>2, <1>3, <3>2
    <3>4. y = b[k] + 1
      BY <2>1, <2>2, <3>3
    <3>5. CASE Len(w[k]) = 0
      <4>1. y = b[k + 1]
        BY <3>3, <3>4, <3>5
      <4> QED
        BY <3>2, <4>1
    <3>6. CASE Len(w[k]) # 0
      <4>1. 1 \in 1..Len(w[k])
        BY <3>3, <3>6
      <4> QED
        BY <3>2, <3>4, <4>1
    <3> QED
      BY <3>5, <3>6
  <2>3. ASSUME NEW k \in 1..n, NEW j \in 1..Len(w[k]), y - 1 = b[k] + j
        PROVE  AtSpace(y) \/ AtWord(y)
    <3>1. k \in 1..n + 1 /\ k + 1 \in 1..n + 1
      BY <1>1
    <3>2. b[k] \in Nat /\ b[k + 1] = b[k] + Len(w[k]) + 1 /\ Len(w[k]) \in Nat
      BY <1>2, <1>3, <3>1
    <3>3. y = b[k] + (j + 1)
      <4> DEFINE e == b[k]
      <4>1. e \in Nat /\ j \in Nat /\ y \in Nat /\ y - 1 = e + j
        BY <2>1, <2>3, <3>2
      <4> HIDE DEF e
      <4>2. y = e + (j + 1)
        BY <4>1
      <4> QED
        BY <4>2 DEF e
    <3>4. CASE j = Len(w[k])
      <4>1. y = b[k + 1]
        BY <3>2, <3>3, <3>4
      <4> QED
        BY <3>1, <4>1
    <3>5. CASE j # Len(w[k])
      <4>1. j + 1 \in 1..Len(w[k])
        BY <3>2, <3>5
      <4> QED
        BY <3>3, <4>1
    <3> QED
      BY <3>4, <3>5
  <2> QED
    BY <1>6, <2>1, <2>2, <2>3
<1>7. x \in P
  <2> HIDE DEF P
  <2> QED
    BY <1>4, <1>5, <1>6, UpTo
<1> QED
  BY <1>7

(* Where a line occurs in another, its next word is the one that starts there.*)
Occurrence(p, q, o) ==
  /\ o \in Nat /\ o + Len(p) <= Len(q)
  /\ \A x \in 1..Len(p) : q[o + x] = p[x]

LEMMA SameWord ==
  ASSUME NEW p, NEW w, NEW n, NEW b, Lined(p, w, n, b),
         NEW q, NEW v, NEW m, NEW c, Lined(q, v, m, c),
         NEW o, Occurrence(p, q, o),
         NEW k \in 1..n, NEW l \in 1..m, c[l] = o + b[k]
  PROVE  v[l] = w[k] /\ c[l + 1] = o + b[k + 1]
<1> DEFINE x == b[k]
           f == Len(w[k])
           g == Len(v[l])
<1>1. n \in Nat /\ m \in Nat /\ o \in Nat /\ Len(p) = b[n + 1]
  BY DEF Lined, Occurrence
<1>2. k \in 1..n + 1 /\ k + 1 \in 1..n + 1 /\ l \in 1..m + 1 /\ l + 1 \in 1..m + 1
  BY <1>1
<1>3. /\ x \in Nat /\ f \in Nat /\ b[k + 1] = x + f + 1
      /\ \A j \in 1..f : p[x + j] = w[k][j] /\ w[k][j] # "space"
      /\ p[x + f + 1] = "space"
  <2>1. b[k + 1] = x + f + 1
    BY DEF Lined
  <2>2. p[b[k + 1]] = "space"
    BY <1>2 DEF Lined
  <2>3. /\ x \in Nat /\ f \in Nat
        /\ \A j \in 1..f : p[x + j] = w[k][j] /\ w[k][j] # "space"
    BY <1>2 DEF Lined
  <2> QED
    BY <2>1, <2>2, <2>3
<1>4. x >= 1 /\ x + f + 1 <= Len(p) /\ Len(p) \in Nat
  <2>1. b[k + 1] <= b[n + 1] /\ b[n + 1] \in Nat
    BY <1>2, LineGrows
  <2>2. 1 \in 1..n + 1 /\ b[1] = 1
    BY <1>1 DEF Lined
  <2>3. x >= 1
    <3> DEFINE P == {i \in 1..n + 1 : b[i] >= 1}
    <3>1. 1 \in P
      BY <2>2
    <3>2. ASSUME NEW i \in 1 + 1..n + 1, i - 1 \in P PROVE i \in P
      <4> DEFINE l1 == i - 1
      <4>1. l1 \in 1..n /\ l1 + 1 = i /\ i \in 1..n + 1 /\ l1 \in 1..n + 1 /\ b[l1] >= 1
        BY <1>1, <3>2
      <4> HIDE DEF l1
      <4>2. b[l1 + 1] = b[l1] + Len(w[l1]) + 1 /\ Len(w[l1]) \in Nat
        BY <4>1 DEF Lined
      <4>3. b[l1] \in Nat
        BY <4>1 DEF Lined
      <4>4. b[i] >= 1
        BY <4>1, <4>2, <4>3
      <4> QED
        BY <4>1, <4>4
    <3> HIDE DEF P
    <3>3. n + 1 \in Nat
      BY <1>1
    <3>4. k \in P
      BY <1>2, <3>1, <3>2, <3>3, UpTo
    <3> QED
      BY <3>4 DEF P
  <2> QED
    BY <1>1, <1>3, <2>1, <2>3
<1>5. /\ c[l] \in Nat /\ g \in Nat /\ c[l + 1] = o + x + g + 1
      /\ \A j \in 1..g : q[o + x + j] = v[l][j] /\ v[l][j] # "space"
      /\ q[o + x + g + 1] = "space"
  <2>1. c[l + 1] = o + x + g + 1
    BY DEF Lined
  <2>2. q[c[l + 1]] = "space"
    BY <1>2 DEF Lined
  <2>3. /\ c[l] \in Nat /\ g \in Nat
        /\ \A j \in 1..g : q[o + x + j] = v[l][j] /\ v[l][j] # "space"
    <3>1. /\ c[l] \in Nat /\ g \in Nat
          /\ \A j \in 1..g : q[c[l] + j] = v[l][j] /\ v[l][j] # "space"
      BY <1>2 DEF Lined
    <3> HIDE DEF g
    <3> QED
      BY <3>1
  <2> QED
    BY <2>1, <2>2, <2>3
<1>6. /\ \A j \in 1..f : q[o + x + j] = w[k][j]
      /\ q[o + x + f + 1] = "space"
  <2>1. \A y \in 1..Len(p) : q[o + y] = p[y]
    BY DEF Occurrence
  <2> HIDE DEF x, f, g
  <2>2. ASSUME NEW j \in 1..f + 1 PROVE q[o + x + j] = p[x + j]
    <3>1. x + j \in 1..Len(p) /\ o + (x + j) = o + x + j
      BY <1>1, <1>3, <1>4
    <3> QED
      BY <2>1, <3>1
  <2>3. /\ \A j \in 1..f : j \in 1..f + 1
        /\ f + 1 \in 1..f + 1 /\ o + x + (f + 1) = o + x + f + 1 /\ x + (f + 1) = x + f + 1
    BY <1>1, <1>3
  <2> QED
    BY <1>3, <2>2, <2>3
<1>7. w[k] \in Seq(Alphabet) /\ v[l] \in Seq(Alphabet)
  <2>1. w \in Seq(Seq(Alphabet)) /\ Len(w) = n /\ v \in Seq(Seq(Alphabet)) /\ Len(v) = m
    BY DEF Lined
  <2> QED
    BY <2>1, LenProperties
<1> HIDE DEF x, f, g
<1>12. o \in Nat /\ x \in Nat /\ f \in Nat /\ g \in Nat
  BY <1>1, <1>3, <1>5
<1>8. ~(g < f)
  <2> SUFFICES ASSUME g < f PROVE FALSE
    OBVIOUS
  <2>1. g + 1 \in 1..f /\ o + x + (g + 1) = o + x + g + 1
    BY <1>12
  <2> QED
    BY <1>3, <1>5, <1>6, <2>1
<1>9. ~(f < g)
  <2> SUFFICES ASSUME f < g PROVE FALSE
    OBVIOUS
  <2>1. f + 1 \in 1..g /\ o + x + (f + 1) = o + x + f + 1
    BY <1>12
  <2> QED
    BY <1>5, <1>6, <2>1
<1>10. f = g
  BY <1>8, <1>9, <1>12
<1>11. v[l] = w[k]
  <2>1. \A j \in 1..f : v[l][j] = w[k][j]
    BY <1>5, <1>6, <1>10
  <2> QED
    BY <1>7, <1>10, <2>1, SeqEqual DEF f, g
<1> QED
  BY <1>1, <1>3, <1>5, <1>10, <1>11

(* Words stand next to each other in another line where the spaces around     *)
(* them do.                                                                   *)
LEMMA LineFollows ==
  ASSUME NEW p, NEW w, NEW n, NEW b, Lined(p, w, n, b), n >= 1,
         NEW q, NEW v, NEW m, NEW c, Lined(q, v, m, c), NEW o, Occurrence(p, q, o)
  PROVE  \E s \in 0..m - n : \A k \in 1..n : v[s + k] = w[k]
<1>1. /\ n \in Nat /\ m \in Nat /\ o \in Nat /\ b[1] = 1 /\ Len(p) = b[n + 1] /\ p[1] = "space"
      /\ Len(q) = c[m + 1] /\ o + b[n + 1] <= c[m + 1]
  <2>1. 1 \in 1..n + 1
    BY DEF Lined
  <2>2. n \in Nat /\ b[1] = 1 /\ Len(p) = b[n + 1] /\ p[1] = "space"
    BY <2>1 DEF Lined
  <2>3. m \in Nat /\ Len(q) = c[m + 1]
    BY DEF Lined
  <2>4. o \in Nat /\ o + Len(p) <= Len(q)
    BY DEF Occurrence
  <2> QED
    BY <2>2, <2>3, <2>4
<1>2. /\ \A k \in 1..n + 1 : b[k] \in Nat /\ b[k] <= b[n + 1]
      /\ \A k \in 1..m + 1 : c[k] \in Nat
      /\ 1 \in 1..n + 1 /\ n + 1 \in 1..n + 1 /\ m + 1 \in 1..m + 1
  BY <1>1, LineGrows
<1>3. PICK l \in 1..m + 1 : o + 1 = c[l]
  <2>1. Len(p) \in Nat /\ 1 \in 1..Len(p) /\ o + 1 \in 1..Len(q)
    BY <1>1, <1>2
  <2>2. q[o + 1] = "space"
    BY <1>1, <2>1 DEF Occurrence
  <2>3. ASSUME NEW k \in 1..m, NEW j \in 1..Len(v[k]), o + 1 = c[k] + j PROVE FALSE
    <3>1. \A i \in 1..m : \A j1 \in 1..Len(v[i]) :
             q[c[i] + j1] = v[i][j1] /\ v[i][j1] # "space"
      BY DEF Lined
    <3> QED
      BY <2>2, <2>3, <3>1
  <2> QED
    BY <2>1, <2>3, LineCovered
<1> DEFINE s == l - 1
           P == {k \in 1..n + 1 : s + k \in 1..m + 1 /\ c[s + k] = o + b[k]}
<1>4. s \in Nat /\ s + 1 = l
  BY <1>1
<1> HIDE DEF s
<1>5. 1 \in P
  BY <1>1, <1>2, <1>3, <1>4
<1>6. ASSUME NEW k \in 1..n, s + k \in 1..m + 1, c[s + k] = o + b[k]
      PROVE  /\ s + k \in 1..m /\ v[s + k] = w[k]
             /\ s + (k + 1) \in 1..m + 1 /\ c[s + (k + 1)] = o + b[k + 1]
  <2>1. k \in 1..n + 1 /\ k + 1 \in 1..n + 1 /\ n + 1 \in 1..n + 1
    BY <1>1
  <2>2. b[k] < b[k + 1] /\ b[k + 1] <= b[n + 1] /\ b[k] \in Nat /\ b[n + 1] \in Nat /\ b[k + 1] \in Nat
    <3>1. b[k + 1] = b[k] + Len(w[k]) + 1 /\ Len(w[k]) \in Nat
      BY DEF Lined
    <3> QED
      BY <1>2, <2>1, <3>1
  <2>3. c[s + k] < c[m + 1] /\ c[m + 1] \in Nat
    <3> DEFINE x == b[k]
               y == b[n + 1]
               e == c[m + 1]
               f == c[s + k]
    <3>1. x \in Nat /\ y \in Nat /\ x < y /\ o \in Nat
      <4>1. b[k] < b[n + 1]
        BY <2>2
      <4> QED
        BY <1>1, <2>2, <4>1
    <3>2. e \in Nat /\ f = o + x /\ o + y <= e
      BY <1>1, <1>2, <1>6
    <3> HIDE DEF x, y, e, f
    <3>3. f < e
      BY <3>1, <3>2
    <3> QED
      BY <3>2, <3>3 DEF e, f
  <2>4. s + k # m + 1
    BY <2>3
  <2>5. s + k \in 1..m /\ s + (k + 1) = (s + k) + 1 /\ s + (k + 1) \in 1..m + 1
    BY <1>1, <1>4, <1>6, <2>4
  <2> DEFINE r == s + k
  <2>6. r \in 1..m /\ c[r] = o + b[k]
    BY <1>6, <2>5
  <2> HIDE DEF r
  <2>7. v[r] = w[k] /\ c[r + 1] = o + b[k + 1]
    BY <2>6, SameWord
  <2> QED
    BY <2>5, <2>7 DEF r
<1>7. ASSUME NEW i \in 1 + 1..n + 1, i - 1 \in P PROVE i \in P
  <2> DEFINE k == i - 1
  <2>1. k \in 1..n /\ k + 1 = i /\ i \in 1..n + 1
    BY <1>1
  <2>2. k \in P
    BY <1>7
  <2> HIDE DEF k
  <2>3. s + k \in 1..m + 1 /\ c[s + k] = o + b[k]
    BY <2>2
  <2>4. s + (k + 1) \in 1..m + 1 /\ c[s + (k + 1)] = o + b[k + 1]
    BY <1>6, <2>1, <2>3
  <2> QED
    BY <2>1, <2>4
<1>8. \A k \in 1..n + 1 : k \in P
  <2> HIDE DEF P
  <2>1. n + 1 \in Nat
    BY <1>1
  <2> QED
    BY <1>5, <1>7, <2>1, UpTo
<1>9. \A k \in 1..n : s + k \in 1..m + 1 /\ c[s + k] = o + b[k]
  <2>1. \A k \in 1..n : k \in 1..n + 1
    BY <1>1
  <2> QED
    BY <1>8, <2>1
<1> HIDE DEF P
<1>10. \A k \in 1..n : s + k \in 1..m /\ v[s + k] = w[k]
  BY <1>6, <1>9
<1>11. s \in 0..m - n
  <2>1. n \in 1..n
    BY <1>1
  <2>2. s + n \in 1..m
    BY <1>10, <2>1
  <2> QED
    BY <1>1, <1>4, <2>2
<1> QED
  BY <1>10, <1>11

LEMMA WordsFollow ==
  ASSUME NEW p, NEW w, NEW n, NEW b, Lined(p, w, n, b), n >= 1,
         NEW q, NEW v, NEW m, NEW c, Lined(q, v, m, c),
         NEW s \in 0..m - n, \A k \in 1..n : v[s + k] = w[k]
  PROVE  \E o : Occurrence(p, q, o)
<1>1. n \in Nat /\ m \in Nat /\ s \in Nat /\ s + n <= m /\ b[1] = 1 /\ c[1] = 1
  BY DEF Lined
<1>2. /\ \A k \in 1..n + 1 : b[k] \in Nat /\ p[b[k]] = "space"
      /\ \A k \in 1..n : b[k + 1] = b[k] + Len(w[k]) + 1 /\ Len(w[k]) \in Nat
  BY DEF Lined
<1>3. /\ \A k \in 1..m + 1 : c[k] \in Nat /\ q[c[k]] = "space"
      /\ \A k \in 1..m : /\ c[k + 1] = c[k] + Len(v[k]) + 1
                         /\ \A j \in 1..Len(v[k]) : q[c[k] + j] = v[k][j]
  BY DEF Lined
<1> DEFINE o == c[s + 1] - 1
           P == {k \in 1..n + 1 : c[s + k] = o + b[k]}
<1>4. s + 1 \in 1..m + 1 /\ 1 \in 1..n + 1 /\ n + 1 \in 1..n + 1 /\ m + 1 \in 1..m + 1
      /\ n + 1 \in Nat
  BY <1>1
<1>5. o \in Int /\ o + 1 = c[s + 1]
  BY <1>3, <1>4
<1>6. c[s + 1] >= 1
  <2> DEFINE R == {k \in 1..m + 1 : c[k] >= 1}
  <2>1. 1 \in R
    BY <1>1, <1>4
  <2>2. ASSUME NEW i \in 1 + 1..m + 1, i - 1 \in R PROVE i \in R
    <3>1. i - 1 \in 1..m /\ (i - 1) + 1 = i /\ i \in 1..m + 1 /\ i - 1 \in 1..m + 1
      BY <1>1
    <3>2. c[i] = c[i - 1] + Len(v[i - 1]) + 1 /\ Len(v[i - 1]) \in Nat /\ c[i - 1] \in Nat
      BY <3>1 DEF Lined
    <3> QED
      BY <3>1, <3>2
  <2> HIDE DEF R
  <2>3. m + 1 \in Nat
    BY <1>1
  <2>4. s + 1 \in R
    BY <1>4, <2>1, <2>2, <2>3, UpTo
  <2> QED
    BY <2>4 DEF R
<1>7. o \in Nat
  BY <1>3, <1>4, <1>6
<1> HIDE DEF o
<1>8. 1 \in P
  BY <1>1, <1>4, <1>5
<1>9. ASSUME NEW i \in 1 + 1..n + 1, i - 1 \in P PROVE i \in P
  <2> DEFINE k == i - 1
             r == s + k
  <2>1. /\ k \in 1..n /\ k + 1 = i /\ i \in 1..n + 1 /\ k \in 1..n + 1
        /\ r \in 1..m /\ r + 1 = s + i
    BY <1>1
  <2>2. c[r] = o + b[k] /\ v[r] = w[k]
    BY <1>9, <2>1
  <2> HIDE DEF k, r
  <2>3. c[r + 1] = c[r] + Len(w[k]) + 1
    BY <1>3, <2>1, <2>2
  <2>4. b[k + 1] = b[k] + Len(w[k]) + 1 /\ Len(w[k]) \in Nat /\ b[k] \in Nat
    BY <1>2, <2>1
  <2>5. c[r + 1] = o + b[k + 1]
    BY <1>7, <2>2, <2>3, <2>4
  <2> QED
    BY <2>1, <2>5
<1>10. \A k \in 1..n + 1 : c[s + k] = o + b[k]
  <2>1. \A k \in 1..n + 1 : k \in P
    <3> HIDE DEF P
    <3> QED
      BY <1>4, <1>8, <1>9, UpTo
  <2> QED
    BY <2>1
<1> HIDE DEF P
<1>11. ASSUME NEW x \in 1..Len(p) PROVE q[o + x] = p[x]
  <2>1. ASSUME NEW k \in 1..n + 1, x = b[k] PROVE q[o + x] = p[x]
    <3>1. s + k \in 1..m + 1
      BY <1>1
    <3>2. q[c[s + k]] = "space" /\ p[b[k]] = "space"
      BY <1>2, <1>3, <3>1
    <3> QED
      BY <1>10, <2>1, <3>2
  <2>2. ASSUME NEW k \in 1..n, NEW j \in 1..Len(w[k]), x = b[k] + j PROVE q[o + x] = p[x]
    <3>1. s + k \in 1..m /\ k \in 1..n + 1
      BY <1>1
    <3>2. p[x] = w[k][j]
      BY <2>2 DEF Lined
    <3> DEFINE r == s + k
    <3>3. r \in 1..m /\ c[r] = o + b[k] /\ v[r] = w[k]
      BY <1>10, <3>1
    <3> HIDE DEF r
    <3>4. q[c[r] + j] = w[k][j]
      BY <1>3, <3>3
    <3>5. c[r] + j = o + x
      <4>1. b[k] \in Nat /\ j \in Nat
        BY <1>2, <3>1
      <4> QED
        BY <1>7, <2>2, <3>3, <4>1
    <3> QED
      BY <3>2, <3>4, <3>5
  <2> QED
    BY <2>1, <2>2, LineCovered
<1>12. o + Len(p) <= Len(q)
  <2> DEFINE r == s + (n + 1)
  <2>1. r \in 1..m + 1
    BY <1>1
  <2>2. c[r] = o + b[n + 1]
    BY <1>4, <1>10
  <2> HIDE DEF r
  <2>3. c[r] <= c[m + 1]
    BY <2>1, LineGrows
  <2> QED
    BY <2>2, <2>3 DEF Lined
<1> QED
  BY <1>7, <1>11, <1>12 DEF Occurrence

LEMMA LinesOccur ==
  ASSUME NEW p, NEW w, NEW n, NEW b, Lined(p, w, n, b), n >= 1,
         NEW q, NEW v, NEW m, NEW c, Lined(q, v, m, c)
  PROVE  Match!Occurs(p, q) <=> Match!Occurs(w, v)
<1>1. /\ p \in Seq(Alphabet) /\ q \in Seq(Alphabet)
      /\ w \in Seq(Seq(Alphabet)) /\ v \in Seq(Seq(Alphabet)) /\ Len(w) = n /\ Len(v) = m
  BY DEF Lined
<1>2. Match!Occurs(p, q) <=> \E o : Occurrence(p, q, o)
  <2>4. p \in Seq(Alphabet) /\ q \in Seq(Alphabet)
    BY <1>1
  <2>1. Len(p) \in Nat /\ Len(q) \in Nat
    BY <2>4, LenProperties
  <2>2. Match!Occurs(p, q) <=> Agrees(p, q)
    BY <2>4, OccursIs
  <2>3. \A o : o \in 0..(Len(q) - Len(p)) <=> o \in Nat /\ o + Len(p) <= Len(q)
    <3> DEFINE d == Len(p)
               e == Len(q)
    <3> HIDE DEF d, e
    <3>1. d \in Nat /\ e \in Nat
      BY <2>1 DEF d, e
    <3>2. \A o : o \in 0..(e - d) <=> o \in Nat /\ o + d <= e
      BY <3>1
    <3> QED
      BY <3>2 DEF d, e
  <2> QED
    BY <2>2, <2>3 DEF Occurrence, Agrees
<1>3. Match!Occurs(w, v) <=> \E s \in 0..m - n : \A k \in 1..n : v[s + k] = w[k]
  <2> DEFINE S == Seq(Alphabet)
  <2>1. w \in Seq(S) /\ v \in Seq(S)
    BY <1>1
  <2> HIDE DEF S
  <2>2. Match!Occurs(w, v) <=> Agrees(w, v)
    BY <2>1, OccursIs
  <2> QED
    BY <1>1, <2>2 DEF Agrees
<1> QED
  BY <1>2, <1>3, LineFollows, WordsFollow

(* A normalized text has a space less than words.                             *)
SpacesOf(v) == {i \in DOMAIN v : v[i] = "space"}

LEMMA SpacesCount ==
  ASSUME NEW v \in Seq(Alphabet), NEW p, p = Match!Padded(v),
         NEW w, NEW n, n >= 1, NEW a, NEW z, NEW b, Lined(p, w, n, b), LaidOut(n, a, z, b)
  PROVE  Match!Cardinality(SpacesOf(v)) = n - 1
<1> DEFINE f == [k \in 1..n - 1 |-> b[k + 1] - 1]
<1>1. n \in Nat /\ n - 1 \in Nat /\ b[1] = 1 /\ 1 \in 1..n + 1 /\ n + 1 \in 1..n + 1
  BY DEF Lined
<1>2. \A k \in 1..n + 1 : b[k] \in Nat /\ p[b[k]] = "space"
  BY DEF Lined
<1>3. \A k, l \in 1..n + 1 : k < l => b[k] + 2 <= b[l]
  BY DEF LaidOut
<1>4. /\ Len(v) \in Nat /\ Len(p) = Len(v) + 2 /\ Len(p) = b[n + 1]
      /\ \A i \in 1..Len(v) : p[i + 1] = v[i]
      /\ DOMAIN v = 1..Len(v)
  <2>1. /\ Len(v) \in Nat /\ Len(p) = Len(v) + 2
        /\ \A i \in 1..Len(v) : p[i + 1] = v[i]
    BY PaddedFacts
  <2>2. Len(p) = b[n + 1]
    BY DEF Lined
  <2>3. DOMAIN v = 1..Len(v)
    BY LenProperties
  <2> QED
    BY <2>1, <2>2, <2>3
<1>5. ASSUME NEW k \in 1..n - 1
      PROVE  /\ k + 1 \in 1..n + 1 /\ b[k + 1] \in Nat
             /\ f[k] = b[k + 1] - 1 /\ f[k] \in 1..Len(v) /\ v[f[k]] = "space"
  <2>1. k + 1 \in 1..n + 1 /\ 1 < k + 1 /\ k + 1 < n + 1
    BY <1>1
  <2>2. b[1] + 2 <= b[k + 1] /\ b[k + 1] + 2 <= b[n + 1] /\ b[k + 1] \in Nat
    BY <1>1, <1>2, <1>3, <2>1
  <2>3. f[k] = b[k + 1] - 1
    OBVIOUS
  <2> HIDE DEF f
  <2>4. f[k] \in 1..Len(v) /\ f[k] + 1 = b[k + 1]
    <3> DEFINE x == b[k + 1]
               y == b[n + 1]
               e == f[k]
    <3>1. 3 <= x /\ x + 2 <= y /\ x \in Nat /\ e = x - 1 /\ Len(v) + 2 = y /\ Len(v) \in Nat
      BY <1>1, <1>4, <2>2, <2>3
    <3> HIDE DEF x, y, e
    <3>2. e \in 1..Len(v) /\ e + 1 = x
      BY <3>1
    <3> QED
      BY <3>2 DEF e, x
  <2>5. p[f[k] + 1] = v[f[k]]
    BY <1>4, <2>4
  <2> QED
    BY <1>2, <2>1, <2>2, <2>3, <2>4, <2>5
<1> HIDE DEF f
<1>6. ASSUME NEW i \in 1..Len(v), v[i] = "space" PROVE \E k \in 1..n - 1 : i = f[k]
  <2>1. i + 1 \in 1..Len(p) /\ p[i + 1] = "space" /\ i + 1 > 1 /\ i + 1 < Len(p)
    BY <1>4, <1>6
  <2>2. ASSUME NEW k \in 1..n, NEW j \in 1..Len(w[k]), i + 1 = b[k] + j PROVE FALSE
    <3>1. \A l \in 1..n : \A x \in 1..Len(w[l]) : p[b[l] + x] = w[l][x] /\ w[l][x] # "space"
      BY DEF Lined
    <3> QED
      BY <2>1, <2>2, <3>1
  <2>3. PICK k \in 1..n + 1 : i + 1 = b[k]
    BY <2>1, <2>2, LineCovered
  <2>4. k # 1 /\ k # n + 1
    BY <1>1, <1>4, <2>1, <2>3
  <2> DEFINE l == k - 1
  <2>5. l \in 1..n - 1 /\ l + 1 = k
    BY <1>1, <2>4
  <2> HIDE DEF l
  <2>6. f[l] = b[k] - 1
    BY <1>5, <2>5
  <2>7. i = f[l]
    BY <1>2, <2>3, <2>6
  <2> QED
    BY <2>5, <2>7
<1>7. SpacesOf(v) = Image(f, n - 1)
  BY <1>4, <1>5, <1>6 DEF SpacesOf, Image
<1>8. ASSUME NEW k \in 1..n - 1, NEW l \in 1..n - 1, f[k] = f[l] PROVE k = l
  <2>1. k + 1 \in 1..n + 1 /\ l + 1 \in 1..n + 1
    BY <1>5
  <2>2. b[k + 1] = b[l + 1] /\ b[k + 1] \in Nat /\ b[l + 1] \in Nat
    <3> DEFINE x == b[k + 1]
               y == b[l + 1]
    <3>1. x \in Nat /\ y \in Nat /\ f[k] = x - 1 /\ f[l] = y - 1
      BY <1>5
    <3> HIDE DEF x, y
    <3>2. x - 1 = y - 1
      BY <1>8, <3>1
    <3>3. x = y
      BY <3>1, <3>2
    <3> QED
      BY <3>1, <3>3 DEF x, y
  <2>3. ~(k + 1 < l + 1) /\ ~(l + 1 < k + 1)
    BY <1>3, <2>1, <2>2
  <2> QED
    BY <1>1, <2>3
<1>9. Cardinality(Image(f, n - 1)) = n - 1
  BY <1>1, <1>8, ImageCounts
<1> QED
  BY <1>7, <1>9, Counts

(* A text typed, its words, what it is normalized to and where they are in it.*)
Typeset(t, v, w, n, b) ==
  /\ n \in Nat /\ w \in Seq(Seq(Alphabet)) /\ Len(w) = n
  /\ v = Match!Normalized(t) /\ w = Match!Words(t)
  /\ n = 0 => v = <<>>
  /\ n >= 1 => /\ v \in Seq(Alphabet) /\ Len(v) >= 1
               /\ Lined(Match!Padded(v), w, n, b)
               /\ Match!Cardinality(SpacesOf(v)) = n - 1

LEMMA TypesetIs ==
  ASSUME NEW t, Normalizes(t)
  PROVE  \E v, w, n, b : Typeset(t, v, w, n, b)
<1>1. t \in Seq(Match!Characters)
  BY DEF Normalizes
<1>2. PICK h : IsNormalizing(h, t) /\ \E n, a, z, b : Laid(t, h[Len(t)], n, a, z, b)
  BY DEF Normalizes
<1> DEFINE u == h[Len(t)]
           v == Match!Normalized(t)
           w == Match!Words(t)
           p == Match!Padded(v)
<1>3. u = Match!NormalizedUntrimmed(t)
  BY <1>1, <1>2, UntrimmedIs
<1>4. PICK n, a, z, b : Laid(t, u, n, a, z, b)
  BY <1>2
<1> HIDE DEF u, v, w, p
<1>5. WordsStand(t, n, a, z) /\ LaidOut(n, a, z, b)
  BY <1>4 DEF Laid
<1>6. w = Spelling(t, n, a, z)
  BY <1>1, <1>5, WordsAre DEF w
<1>7. n \in Nat /\ w \in Seq(Seq(Alphabet)) /\ Len(w) = n
  BY <1>1, <1>5, <1>6, SpellingFacts
<1>8. /\ n = 0 => v = <<>>
      /\ n >= 1 => v \in Seq(Alphabet) /\ Len(v) >= 1
  BY <1>1, <1>3, <1>4, NormalizedIs DEF v
<1>9. n >= 1 => Lined(p, w, n, b)
  BY <1>1, <1>3, <1>4, <1>6, PaddedIsLine DEF p, v
<1>10. n >= 1 => Match!Cardinality(SpacesOf(v)) = n - 1
  BY <1>5, <1>8, <1>9, SpacesCount DEF p
<1>11. Typeset(t, v, w, n, b)
  BY <1>7, <1>8, <1>9, <1>10 DEF Typeset, v, w, p
<1> QED
  BY <1>11

LEMMA PointsAre ==
  ASSUME NEW t, Normalizes(t), NEW k, Normalizes(k)
  PROVE  Match!Points(t, k) =
           IF Match!Words(k) # <<>> /\ Match!Occurs(Match!Words(k), Match!Words(t))
             THEN 9 + Len(Match!Words(k)) ELSE 0
<1>1. PICK v, w, n, b : Typeset(k, v, w, n, b)
  BY TypesetIs
<1>2. PICK x, y, m, c : Typeset(t, x, y, m, c)
  BY TypesetIs
<1> DEFINE p == Match!Padded(v)
           q == Match!Padded(x)
<1>3. Match!Points(t, k) =
        IF v # <<>> /\ Match!Occurs(p, q) THEN 10 + Match!Cardinality(SpacesOf(v)) ELSE 0
  BY <1>1, <1>2 DEF Match!Points, SpacesOf, Typeset
<1>4. /\ n \in Nat /\ w \in Seq(Seq(Alphabet)) /\ Len(w) = n /\ w = Match!Words(k)
      /\ n = 0 => v = <<>>
      /\ n >= 1 => /\ v \in Seq(Alphabet) /\ Len(v) >= 1 /\ Lined(p, w, n, b)
                   /\ Match!Cardinality(SpacesOf(v)) = n - 1
  BY <1>1 DEF Typeset
<1>5. /\ m \in Nat /\ y \in Seq(Seq(Alphabet)) /\ Len(y) = m /\ y = Match!Words(t)
      /\ m = 0 => x = <<>>
      /\ m >= 1 => Lined(q, y, m, c)
  BY <1>2 DEF Typeset
<1> HIDE DEF p, q
<1>6. n = 0 <=> w = <<>>
  BY <1>4, EmptySeq
<1>7. CASE n = 0
  BY <1>3, <1>4, <1>6, <1>7
<1>8. CASE n >= 1 /\ m >= 1
  <2>1. Match!Occurs(p, q) <=> Match!Occurs(w, y)
    BY <1>4, <1>5, <1>8, LinesOccur
  <2>2. v # <<>> /\ w # <<>>
    BY <1>4, <1>6, <1>8, EmptySeq
  <2>3. 10 + Match!Cardinality(SpacesOf(v)) = 9 + Len(w)
    BY <1>4, <1>8
  <2> QED
    BY <1>3, <1>4, <1>5, <2>1, <2>2, <2>3
<1>9. CASE n >= 1 /\ m = 0
  <2>1. ~Match!Occurs(p, q)
    <3>1. /\ p \in Seq(Alphabet) /\ Len(v) \in Nat /\ Len(p) = Len(v) + 2
      BY <1>4, <1>9, PaddedFacts DEF p
    <3>2. <<>> \in Seq(Alphabet) /\ Len(<<>>) = 0
      OBVIOUS
    <3>3. q \in Seq(Alphabet) /\ Len(q) = Len(x) + 2 /\ x = <<>>
      BY <1>5, <1>9, <3>2, PaddedFacts DEF q
    <3>4. Len(q) = 2 /\ Len(p) > 2 /\ Len(p) \in Nat
      BY <1>4, <1>9, <3>1, <3>2, <3>3
    <3>5. 0..(Len(q) - Len(p)) = {}
      BY <3>4
    <3> QED
      BY <3>1, <3>3, <3>5, OccursIs DEF Agrees
  <2>2. ~Match!Occurs(w, y)
    <3> DEFINE S == Seq(Alphabet)
    <3>1. w \in Seq(S) /\ y \in Seq(S)
      BY <1>4, <1>5
    <3> HIDE DEF S
    <3>2. 0..(Len(y) - Len(w)) = {}
      BY <1>4, <1>5, <1>9
    <3>3. Match!Occurs(w, y) <=> Agrees(w, y)
      BY <3>1, OccursIs
    <3> QED
      BY <3>2, <3>3 DEF Agrees
  <2> QED
    BY <1>3, <1>4, <1>5, <2>1, <2>2
<1> QED
  BY <1>4, <1>5, <1>7, <1>8, <1>9

(* Both texts, as far as they have been typed.                                *)
TypingInv == Normalizes(typedTask) /\ Normalizes(typedKeyword)

(* Whatever a task and a keyword hold, and however long they are, the keyword *)
(* scores exactly when its words stand in the task, in order and next to each *)
(* other (normalizeForMatch and keywordScore, skill_loader.cpp:106-136 and 228-247).       *)
THEOREM KeywordMatches == Match!Spec => []KeywordMatchesWords
<1>1. Match!Init => TypingInv
  BY NothingNormalizes DEF Match!Init, TypingInv
<1>2. TypingInv /\ [Match!Next]_(Match!vars) => TypingInv'
  <2> SUFFICES ASSUME TypingInv, [Match!Next]_(Match!vars) PROVE TypingInv'
    OBVIOUS
  <2>1. ASSUME NEW c \in Match!Characters, Match!TypeTask(c) PROVE TypingInv'
    <3>1. typedTask' = Append(typedTask, c) /\ typedKeyword' = typedKeyword
      BY <2>1 DEF Match!TypeTask
    <3>2. Normalizes(Append(typedTask, c))
      BY CharacterNormalizes DEF TypingInv
    <3> QED
      BY <3>1, <3>2 DEF TypingInv
  <2>2. ASSUME NEW c \in Match!Characters, Match!TypeKeyword(c) PROVE TypingInv'
    <3>1. typedKeyword' = Append(typedKeyword, c) /\ typedTask' = typedTask
      BY <2>2 DEF Match!TypeKeyword
    <3>2. Normalizes(Append(typedKeyword, c))
      BY CharacterNormalizes DEF TypingInv
    <3> QED
      BY <3>1, <3>2 DEF TypingInv
  <2>3. ASSUME UNCHANGED Match!vars PROVE TypingInv'
    BY <2>3 DEF Match!vars, TypingInv
  <2> QED
    BY <2>1, <2>2, <2>3 DEF Match!Next
<1>3. TypingInv => KeywordMatchesWords
  BY PointsAre DEF TypingInv, KeywordMatchesWords, Match!KeywordMatchesWords
<1> QED
  BY <1>1, <1>2, <1>3, PTL DEF Match!Spec

-----------------------------------------------------------------------------
(* Lists of keywords.  The loops of the evaluators: the scan of a JSON text,  *)
(* the split at commas and the choice of the parts to keep.                   *)
Fed(loop, s, c) ==
  CASE loop = "scan" -> Lists!ScanStep(s, c)
    [] loop = "split" -> Lists!Split(s, c)
    [] loop = "keep" -> Lists!Keep(s, c)

LEMMA FedIs ==
  ASSUME NEW s, NEW c
  PROVE  /\ Fed("scan", s, c) = Lists!ScanStep(s, c)
         /\ Fed("split", s, c) = Lists!Split(s, c)
         /\ Fed("keep", s, c) = Lists!Keep(s, c)
BY DEF Fed

(* The loop goes from s to u over the text t, g[i] after i of its elements.   *)
Going(loop, g, s, t, u) ==
  /\ g[0] = s /\ g[Len(t)] = u
  /\ \A i \in 1..Len(t) : g[i] = Fed(loop, g[i - 1], t[i])
Goes(loop, s, t, u) == \E g : Going(loop, g, s, t, u)

LEMMA GoesNowhere == ASSUME NEW loop, NEW s PROVE Goes(loop, s, <<>>, s)
<1> DEFINE g == [i \in 0..0 |-> s]
<1>1. g[0] = s
  OBVIOUS
<1> HIDE DEF g
<1>2. Going(loop, g, s, <<>>, s)
  BY <1>1 DEF Going
<1> QED
  BY <1>2 DEF Goes

LEMMA GoesOne == ASSUME NEW loop, NEW s, NEW c PROVE Goes(loop, s, <<c>>, Fed(loop, s, c))
<1> DEFINE u == Fed(loop, s, c)
           g == [i \in 0..1 |-> IF i = 0 THEN s ELSE u]
<1>1. Len(<<c>>) = 1 /\ <<c>>[1] = c
  OBVIOUS
<1>2. g[0] = s /\ g[1] = u
  OBVIOUS
<1> HIDE DEF g
<1>3. Going(loop, g, s, <<c>>, u)
  <2>1. \A i \in 1..1 : g[i] = Fed(loop, g[i - 1], <<c>>[i])
    <3> SUFFICES g[1] = Fed(loop, g[1 - 1], <<c>>[1])
      OBVIOUS
    <3> QED
      BY <1>1, <1>2
  <2> HIDE DEF u
  <2> QED
    BY <1>1, <1>2, <2>1 DEF Going
<1> QED
  BY <1>3 DEF Goes

LEMMA GoesConcat ==
  ASSUME NEW S, NEW v \in Seq(S), NEW w \in Seq(S), NEW loop,
         NEW s, NEW u, NEW z, Goes(loop, s, v, u), Goes(loop, u, w, z)
  PROVE  Goes(loop, s, v \o w, z)
<1>1. PICK f : Going(loop, f, s, v, u)
  BY DEF Goes
<1>2. PICK g : Going(loop, g, u, w, z)
  BY DEF Goes
<1> DEFINE m == Len(v)
           n == Len(w)
           h == [i \in 0..m + n |-> IF i <= m THEN f[i] ELSE g[i - m]]
           x == v \o w
<1>3. m \in Nat /\ n \in Nat /\ Len(x) = m + n
  BY LenProperties, ConcatProperties
<1>4. \A i \in 1..m + n : x[i] = IF i <= m THEN v[i] ELSE w[i - m]
  BY ConcatProperties
<1> HIDE DEF m, n, x
<1>5. \A i \in 0..m + n : h[i] = IF i <= m THEN f[i] ELSE g[i - m]
  OBVIOUS
<1>6. f[0] = s /\ f[m] = u /\ g[0] = u /\ g[n] = z
  BY <1>1, <1>2 DEF Going, m, n
<1>7. \A i \in 1..m : f[i] = Fed(loop, f[i - 1], v[i])
  BY <1>1 DEF Going, m
<1>8. \A i \in 1..n : g[i] = Fed(loop, g[i - 1], w[i])
  BY <1>2 DEF Going, n
<1> HIDE DEF h
<1>9. h[0] = s /\ h[m + n] = z
  <2>1. CASE n = 0
    BY <1>3, <1>5, <1>6, <2>1
  <2>2. CASE n # 0
    <3>1. 0 \in 0..m + n /\ m + n \in 0..m + n /\ ~(m + n <= m) /\ m + n - m = n /\ 0 <= m
      BY <1>3, <2>2
    <3>2. h[0] = f[0] /\ h[m + n] = g[m + n - m]
      BY <1>3, <1>5, <3>1
    <3> QED
      BY <1>6, <3>1, <3>2
  <2> QED
    BY <2>1, <2>2
<1>10. ASSUME NEW i \in 1..m + n PROVE h[i] = Fed(loop, h[i - 1], x[i])
  <2>1. CASE i <= m
    <3>1. i \in 1..m /\ i \in 0..m + n /\ i - 1 \in 0..m + n /\ i - 1 <= m
      BY <1>3, <2>1
    <3> QED
      BY <1>4, <1>5, <1>7, <2>1, <3>1
  <2>2. CASE i = m + 1
    <3>1. /\ i \in 0..m + n /\ ~(i <= m) /\ i - m = 1 /\ 1 \in 1..n
          /\ i - 1 = m /\ m \in 0..m + n /\ m <= m /\ 1 - 1 = 0
      BY <1>3, <2>2
    <3>2. h[i] = g[1] /\ h[i - 1] = u /\ x[i] = w[1]
      BY <1>4, <1>5, <1>6, <3>1
    <3>3. g[1] = Fed(loop, g[0], w[1])
      BY <1>8, <3>1
    <3> QED
      BY <1>6, <3>2, <3>3
  <2>3. CASE i > m + 1
    <3>1. /\ i \in 0..m + n /\ ~(i <= m) /\ i - m \in 1..n
          /\ i - 1 \in 0..m + n /\ ~(i - 1 <= m) /\ i - 1 - m = i - m - 1
      BY <1>3, <2>3
    <3> QED
      BY <1>4, <1>5, <1>8, <3>1
  <2> QED
    BY <1>3, <2>1, <2>2, <2>3
<1>11. Going(loop, h, s, x, z)
  BY <1>3, <1>9, <1>10 DEF Going
<1> QED
  BY <1>11 DEF Goes, x

(* FoldLeft runs such a loop; it is defined on all sets of places.            *)
IsFold(h, loop, s, t) ==
  h = [d \in SUBSET DOMAIN t |->
         IF d = {} THEN s ELSE Fed(loop, h[d \ {Lists!Max(d)}], t[Lists!Max(d)])]

LEMMA LastPlace == ASSUME NEW i \in Nat \ {0} PROVE Lists!Max(1..i) = i /\ (1..i) \ {i} = 1..i - 1
<1>1. \A x \in 1..i : (\A y \in 1..i : x >= y) <=> x = i
  OBVIOUS
<1>2. i \in 1..i
  OBVIOUS
<1>3. (CHOOSE x \in 1..i : \A y \in 1..i : x >= y) = i
  BY <1>1, <1>2
<1>4. (1..i) \ {i} = 1..i - 1
  OBVIOUS
<1> QED
  BY <1>3, <1>4, Zenon DEF Lists!Max

LEMMA MaxLast ==
  ASSUME NEW k \in Nat, NEW d \in SUBSET (1..k + 1), k + 1 \in d
  PROVE  Lists!Max(d) = k + 1
<1>1. \A x \in d : (\A y \in d : x >= y) <=> x = k + 1
  OBVIOUS
<1>2. (CHOOSE x \in d : \A y \in d : x >= y) = k + 1
  BY <1>1
<1> QED
  BY <1>2, Zenon DEF Lists!Max

LEMMA FoldGoes ==
  ASSUME NEW S, NEW t \in Seq(S), NEW loop, NEW s, NEW u, Goes(loop, s, t, u),
         NEW h, IsFold(h, loop, s, t)
  PROVE  h[DOMAIN t] = u
<1>1. PICK g : Going(loop, g, s, t, u)
  BY DEF Goes
<1> DEFINE n == Len(t)
           P == {i \in 0..n : h[1..i] = g[i]}
<1>2. n \in Nat /\ DOMAIN t = 1..n
  BY LenProperties
<1>3. \A d \in SUBSET (1..n) :
        h[d] = IF d = {} THEN s ELSE Fed(loop, h[d \ {Lists!Max(d)}], t[Lists!Max(d)])
  BY <1>2 DEF IsFold
<1>4. g[0] = s /\ g[n] = u /\ \A i \in 1..n : g[i] = Fed(loop, g[i - 1], t[i])
  BY <1>1 DEF Going
<1> HIDE DEF n
<1>5. 0 \in P
  <2>1. 1..0 = {} /\ 1..0 \in SUBSET (1..n) /\ 0 \in 0..n
    BY <1>2
  <2> QED
    BY <1>3, <1>4, <2>1
<1>6. ASSUME NEW i \in 0 + 1..n, i - 1 \in P PROVE i \in P
  <2>1. i \in Nat \ {0} /\ i \in 0..n /\ i \in 1..n
    BY <1>2
  <2>2. 1..i \in SUBSET (1..n) /\ 1..i # {}
    BY <1>2, <2>1
  <2>3. Lists!Max(1..i) = i /\ (1..i) \ {i} = 1..i - 1
    BY <2>1, LastPlace
  <2>4. h[1..i - 1] = g[i - 1]
    BY <1>6
  <2> DEFINE d == 1..i
  <2> HIDE DEF P
  <2>5. h[d] = Fed(loop, h[d \ {Lists!Max(d)}], t[Lists!Max(d)])
    BY <1>3, <2>2
  <2>6. h[d] = g[i]
    BY <1>4, <2>1, <2>3, <2>4, <2>5
  <2> QED
    BY <2>1, <2>6 DEF P
<1>7. n \in P
  <2> HIDE DEF P
  <2> QED
    BY <1>2, <1>5, <1>6, UpTo
<1> QED
  BY <1>2, <1>4, <1>7

LEMMA FoldExists ==
  ASSUME NEW S, NEW t \in Seq(S), NEW loop, NEW s
  PROVE  \E h : IsFold(h, loop, s, t)
<1> DEFINE n == Len(t)
           Upon(h, d) == IF d = {} THEN s ELSE Fed(loop, h[d \ {Lists!Max(d)}], t[Lists!Max(d)])
           Part(h, k) == h = [d \in SUBSET (1..k) |-> Upon(h, d)]
           P == {k \in 0..n : \E h : Part(h, k)}
<1>1. n \in Nat /\ DOMAIN t = 1..n
  BY LenProperties
<1> HIDE DEF n
<1>2. 0 \in P
  <2> DEFINE h == [d \in SUBSET (1..0) |-> s]
  <2>1. \A d \in SUBSET (1..0) : d = {}
    OBVIOUS
  <2>2. Part(h, 0)
    BY <2>1
  <2> QED
    BY <1>1, <2>2
<1>3. ASSUME NEW i \in 0 + 1..n, i - 1 \in P PROVE i \in P
  <2> DEFINE k == i - 1
  <2>1. k \in Nat /\ k + 1 = i /\ i \in 0..n
    BY <1>1
  <2>2. PICK h : Part(h, k)
    BY <1>3
  <2> HIDE DEF k
  <2> DEFINE g == [d \in SUBSET (1..k + 1) |->
                     IF k + 1 \in d THEN Fed(loop, h[d \ {k + 1}], t[k + 1]) ELSE h[d]]
  <2>3. \A d \in SUBSET (1..k + 1) : d \ {k + 1} \in SUBSET (1..k)
    BY <2>1
  <2>4. \A d \in SUBSET (1..k) : d \in SUBSET (1..k + 1) /\ k + 1 \notin d
    BY <2>1
  <2>5. g = [d \in SUBSET (1..k + 1) |-> g[d]]
    OBVIOUS
  <2>6. /\ \A d \in SUBSET (1..k) : g[d] = h[d]
        /\ \A d \in SUBSET (1..k + 1) : k + 1 \in d => g[d] = Fed(loop, h[d \ {k + 1}], t[k + 1])
    BY <2>4
  <2> HIDE DEF g
  <2>7. \A d \in SUBSET (1..k) : h[d] = Upon(h, d)
    BY <2>2
  <2>8. ASSUME NEW d \in SUBSET (1..k + 1) PROVE g[d] = Upon(g, d)
    <3>1. CASE k + 1 \in d
      <4>1. Lists!Max(d) = k + 1 /\ d # {}
        BY <2>1, <3>1, MaxLast
      <4>2. g[d \ {k + 1}] = h[d \ {k + 1}]
        BY <2>3, <2>6
      <4>3. g[d] = Fed(loop, h[d \ {k + 1}], t[k + 1])
        BY <2>6, <3>1
      <4> QED
        BY <4>1, <4>2, <4>3
    <3>2. CASE k + 1 \notin d
      <4>1. d \in SUBSET (1..k) /\ d \ {Lists!Max(d)} \in SUBSET (1..k)
        <5>1. d \ {k + 1} = d
          BY <3>2
        <5>2. d \in SUBSET (1..k)
          BY <2>3, <5>1
        <5> QED
          BY <5>2
      <4>2. g[d] = h[d] /\ g[d \ {Lists!Max(d)}] = h[d \ {Lists!Max(d)}]
        BY <2>6, <4>1
      <4> QED
        BY <2>7, <4>1, <4>2
    <3> QED
      BY <3>1, <3>2
  <2>9. Part(g, k + 1)
    BY <2>5, <2>8
  <2> HIDE DEF Part
  <2> QED
    BY <2>1, <2>9
<1>4. n \in P
  <2> HIDE DEF P
  <2> QED
    BY <1>1, <1>2, <1>3, UpTo
<1>5. PICK h : Part(h, n)
  BY <1>4
<1>6. IsFold(h, loop, s, t)
  BY <1>1, <1>5 DEF IsFold
<1> QED
  BY <1>6

(* The first elements of a sequence.                                          *)
First(t, k) == [i \in 1..k |-> t[i]]

LEMMA Firsts ==
  ASSUME NEW S, NEW t \in Seq(S)
  PROVE  /\ Len(t) \in Nat /\ First(t, 0) = <<>> /\ First(t, Len(t)) = t
         /\ \A k \in 0..Len(t) : First(t, k) \in Seq(S) /\ Len(First(t, k)) = k
         /\ \A k \in 1..Len(t) : Append(First(t, k - 1), t[k]) = First(t, k)
<1> DEFINE n == Len(t)
<1>1. n \in Nat /\ t \in [1..n -> S]
  BY LenProperties
<1> HIDE DEF n
<1>2. First(t, 0) = <<>>
  BY EmptySeq, Tabulated DEF First
<1>3. First(t, n) = t
  BY <1>1 DEF First
<1>4. ASSUME NEW k \in 0..n PROVE First(t, k) \in Seq(S) /\ Len(First(t, k)) = k
  <2> DEFINE f == First(t, k)
  <2>1. k \in Nat /\ f = [i \in 1..k |-> f[i]] /\ \A i \in 1..k : f[i] \in S
    BY <1>1 DEF First
  <2> HIDE DEF f
  <2> QED
    BY <2>1, Tabulated DEF f
<1>5. ASSUME NEW k \in 1..n PROVE Append(First(t, k - 1), t[k]) = First(t, k)
  <2> DEFINE f == First(t, k - 1)
             g == First(t, k)
             a == Append(f, t[k])
  <2>1. k - 1 \in 0..n /\ k \in 0..n /\ t[k] \in S /\ k - 1 \in Nat
    BY <1>1
  <2>2. f \in Seq(S) /\ Len(f) = k - 1 /\ g \in Seq(S) /\ Len(g) = k
    BY <1>4, <2>1
  <2>3. (\A i \in 1..k - 1 : f[i] = t[i]) /\ (\A i \in 1..k : g[i] = t[i])
    BY <1>1 DEF First
  <2> HIDE DEF f, g
  <2>4. a \in Seq(S) /\ Len(a) = k /\ \A i \in 1..k - 1 : a[i] = f[i]
    BY <2>1, <2>2, AppendProperties
  <2>5. a[k] = t[k]
    <3>1. a[Len(f) + 1] = t[k]
      BY <2>1, <2>2, AppendProperties
    <3> QED
      BY <2>1, <2>2, <3>1
  <2> HIDE DEF a
  <2>6. \A i \in 1..k : a[i] = g[i]
    <3>1. \A i \in 1..k : i = k \/ i \in 1..k - 1
      OBVIOUS
    <3> QED
      BY <2>3, <2>4, <2>5, <3>1
  <2>7. a = g
    BY <2>2, <2>4, <2>6, SeqEqual
  <2> QED
    BY <2>7 DEF a, f, g
<1> QED
  BY <1>1, <1>2, <1>3, <1>4, <1>5 DEF n

(* Parts put together one after the other.                                    *)
IsFlattening(h, s) == h = [i \in 1..Len(s) |-> IF i = 1 THEN s[i] ELSE h[i - 1] \o s[i]]

LEMMA FlattenedUpTo ==
  ASSUME NEW S, NEW s \in Seq(Seq(S)), s # <<>>
  PROVE  \E h : /\ IsFlattening(h, s) /\ h[Len(s)] = Lists!FlattenSeq(s)
                /\ \A i \in 1..Len(s) : h[i] \in Seq(S)
<1> DEFINE n == Len(s)
           Upon(h, i) == IF i = 1 THEN s[i] ELSE h[i - 1] \o s[i]
           Part(h, k) == h = [i \in 1..k |-> Upon(h, i)]
           P == {k \in 0..n : \E h : Part(h, k)}
<1>1. n \in Nat \ {0} /\ \A i \in 1..n : s[i] \in Seq(S)
  BY LenProperties, EmptySeq
<1> HIDE DEF n
<1>2. 0 \in P
  <2> DEFINE h == [i \in 1..0 |-> s]
  <2>1. Part(h, 0)
    OBVIOUS
  <2> HIDE DEF Part, h
  <2>2. 0 \in 0..n
    BY <1>1
  <2> QED
    BY <2>1, <2>2
<1>3. ASSUME NEW m \in 0 + 1..n, m - 1 \in P PROVE m \in P
  <2> DEFINE k == m - 1
  <2>1. k \in Nat /\ k + 1 = m /\ m \in 0..n
    BY <1>1
  <2>2. PICK h : Part(h, k)
    BY <1>3
  <2> HIDE DEF k
  <2> DEFINE g == [i \in 1..k + 1 |-> IF i = k + 1 THEN Upon(h, i) ELSE h[i]]
  <2>3. \A i \in 1..k + 1 : (i = k + 1 \/ i \in 1..k) /\ (i # 1 => i - 1 \in 1..k)
    BY <2>1
  <2>4. /\ g = [i \in 1..k + 1 |-> g[i]]
        /\ \A i \in 1..k : g[i] = h[i]
        /\ g[k + 1] = Upon(h, k + 1)
    <3> HIDE DEF Upon
    <3>1. k + 1 \in 1..k + 1 /\ \A i \in 1..k : i \in 1..k + 1 /\ i # k + 1
      BY <2>1
    <3> QED
      BY <3>1
  <2> HIDE DEF g
  <2>5. \A i \in 1..k : h[i] = Upon(h, i)
    BY <2>2
  <2>6. ASSUME NEW i \in 1..k + 1 PROVE g[i] = Upon(g, i)
    <3>1. i # 1 => g[i - 1] = h[i - 1]
      BY <2>3, <2>4
    <3> QED
      BY <2>3, <2>4, <2>5, <3>1
  <2>7. Part(g, k + 1)
    BY <2>4, <2>6
  <2> HIDE DEF Part
  <2> QED
    BY <2>1, <2>7
<1>4. n \in P
  <2> HIDE DEF P
  <2>1. n \in Nat /\ n \in 0..n
    BY <1>1
  <2>2. \A i \in 0..n : i \in P
    BY <1>2, <1>3, <2>1, UpTo
  <2> QED
    BY <2>1, <2>2
<1>5. \E f : IsFlattening(f, s)
  BY <1>4 DEF IsFlattening, n
<1> DEFINE h == CHOOSE f : IsFlattening(f, s)
<1>6. IsFlattening(h, s)
  BY <1>5
<1>7. Lists!FlattenSeq(s) = h[n]
  <2>1. Lists!FlattenSeq(s) = IF Len(s) = 0 THEN s ELSE h[Len(s)]
    BY Zenon DEF Lists!FlattenSeq, IsFlattening
  <2> QED
    BY <1>1, <2>1 DEF n
<1> HIDE DEF h, P
<1>8. \A i \in 1..n : h[i] \in Seq(S)
  <2> DEFINE Q == {i \in 1..n : h[i] \in Seq(S)}
  <2>1. \A i \in 1..n : h[i] = Upon(h, i)
    BY <1>6 DEF IsFlattening, n
  <2>2. 1 \in Q
    BY <1>1, <2>1
  <2>3. ASSUME NEW i \in 1 + 1..n, i - 1 \in Q PROVE i \in Q
    <3>1. i \in 1..n /\ i # 1
      BY <1>1
    <3>2. h[i] = h[i - 1] \o s[i] /\ h[i - 1] \in Seq(S) /\ s[i] \in Seq(S)
      BY <1>1, <2>1, <2>3, <3>1
    <3>3. h[i] \in Seq(S)
      BY <3>2, ConcatProperties
    <3> QED
      BY <3>1, <3>3
  <2>4. \A i \in 1..n : i \in Q
    <3> HIDE DEF Q
    <3> QED
      BY <1>1, <2>2, <2>3, UpTo
  <2> QED
    BY <2>4
<1> QED
  BY <1>6, <1>7, <1>8 DEF n

(* A loop goes over the parts one by one.                                     *)
LEMMA FlattenedGoes ==
  ASSUME NEW S, NEW s \in Seq(Seq(S)), NEW loop, NEW st,
         \A i \in 1..Len(s) : Goes(loop, st[i - 1], s[i], st[i])
  PROVE  /\ Lists!FlattenSeq(s) \in Seq(S)
         /\ Goes(loop, st[0], Lists!FlattenSeq(s), st[Len(s)])
<1> DEFINE n == Len(s)
<1>1. n \in Nat /\ \A i \in 1..n : s[i] \in Seq(S)
  BY LenProperties
<1> HIDE DEF n
<1>2. CASE s = <<>>
  <2>1. n = 0
    BY <1>2 DEF n
  <2>2. Lists!FlattenSeq(s) = <<>>
    BY <1>2, <2>1, Zenon DEF Lists!FlattenSeq, n
  <2>3. <<>> \in Seq(S)
    OBVIOUS
  <2> QED
    BY <2>1, <2>2, <2>3, GoesNowhere DEF n
<1>3. CASE s # <<>>
  <2>1. PICK h : /\ IsFlattening(h, s) /\ h[Len(s)] = Lists!FlattenSeq(s)
                 /\ \A i \in 1..Len(s) : h[i] \in Seq(S)
    BY <1>3, FlattenedUpTo
  <2>2. n # 0
    BY <1>3, EmptySeq DEF n
  <2>3. \A i \in 1..n : h[i] = IF i = 1 THEN s[i] ELSE h[i - 1] \o s[i]
    BY <2>1 DEF IsFlattening, n
  <2>4. \A i \in 1..n : Goes(loop, st[i - 1], s[i], st[i]) /\ h[i] \in Seq(S)
    BY <2>1 DEF n
  <2> DEFINE P == {i \in 1..n : Goes(loop, st[0], h[i], st[i])}
  <2>5. 1 \in P
    <3>1. 1 \in 1..n /\ 1 - 1 = 0
      BY <1>1, <2>2
    <3>2. h[1] = s[1]
      BY <2>3, <3>1
    <3>3. Goes(loop, st[1 - 1], s[1], st[1])
      BY <2>4, <3>1
    <3> QED
      BY <3>1, <3>2, <3>3
  <2>6. ASSUME NEW i \in 1 + 1..n, i - 1 \in P PROVE i \in P
    <3>1. i \in 1..n /\ i # 1 /\ i - 1 \in 1..n
      BY <1>1
    <3>2. Goes(loop, st[0], h[i - 1], st[i - 1]) /\ Goes(loop, st[i - 1], s[i], st[i])
      BY <2>4, <2>6, <3>1
    <3>3. h[i - 1] \in Seq(S) /\ s[i] \in Seq(S)
      BY <1>1, <2>4, <3>1
    <3>4. h[i] = h[i - 1] \o s[i]
      BY <2>3, <3>1
    <3> HIDE DEF P
    <3>5. Goes(loop, st[0], h[i - 1] \o s[i], st[i])
      BY <3>2, <3>3, GoesConcat
    <3> QED
      BY <3>1, <3>4, <3>5 DEF P
  <2>7. n \in P
    <3> HIDE DEF P
    <3>1. n \in 1..n
      BY <1>1, <2>2
    <3> QED
      BY <1>1, <2>5, <2>6, <3>1, UpTo
  <2>8. n \in 1..n
    BY <1>1, <2>2
  <2> QED
    BY <2>1, <2>7, <2>8 DEF n
<1> QED
  BY <1>2, <1>3

(* The scan, between the strings of a list, in a string and after a backslash.*)
Texts == Lists!Characters \cup {"[", "]"}
ListScan(string, escaped, current, values) ==
  [in_string |-> string, escaped |-> escaped, current |-> current, values |-> values]
Between(current, values) == ListScan(FALSE, FALSE, current, values)
Quoting(current, values) == ListScan(TRUE, FALSE, current, values)
Backslashed(current, values) == ListScan(TRUE, TRUE, current, values)

LEMMA ScansOn ==
  ASSUME NEW w, NEW vs
  PROVE  /\ \A c : c # "quote" => Fed("scan", Between(w, vs), c) = Between(w, vs)
         /\ Fed("scan", Between(w, vs), "quote") = Quoting(<<>>, vs)
         /\ \A c : c \notin {"quote", "backslash"} =>
              Fed("scan", Quoting(w, vs), c) = Quoting(Append(w, c), vs)
         /\ Fed("scan", Quoting(w, vs), "backslash") = Backslashed(w, vs)
         /\ \A c : Fed("scan", Backslashed(w, vs), c) = Quoting(Append(w, c), vs)
         /\ Fed("scan", Quoting(w, vs), "quote") = Between(w, Append(vs, w))
<1> DEFINE s == Between(w, vs)
           r == Quoting(w, vs)
           e == Backslashed(w, vs)
           no == FALSE
           yes == TRUE
<1>1. /\ s = ListScan(no, no, w, vs) /\ r = ListScan(yes, no, w, vs)
      /\ e = ListScan(yes, yes, w, vs)
      /\ \A x : Quoting(x, vs) = ListScan(yes, no, x, vs)
      /\ \A x : Between(w, x) = ListScan(no, no, w, x)
  BY DEF Between, Quoting, Backslashed
<1> HIDE DEF s, r, e, no, yes
<1>2. \A x, y : /\ ListScan(x, y, w, vs).in_string = x
                /\ ListScan(x, y, w, vs).escaped = y
                /\ ListScan(x, y, w, vs).current = w
                /\ ListScan(x, y, w, vs).values = vs
  BY Zenon DEF ListScan
<1>3. /\ s.in_string = no /\ s.escaped = no
      /\ r.in_string = yes /\ r.escaped = no /\ r.current = w /\ r.values = vs
      /\ e.escaped = yes /\ e.current = w
  BY <1>1, <1>2
<1>4. /\ [s EXCEPT !.in_string = yes, !.current = <<>>] = Quoting(<<>>, vs)
      /\ \A c : [r EXCEPT !.current = Append(w, c)] = Quoting(Append(w, c), vs)
      /\ [r EXCEPT !.escaped = yes] = e
      /\ \A c : [e EXCEPT !.current = Append(w, c), !.escaped = no] = Quoting(Append(w, c), vs)
      /\ [r EXCEPT !.in_string = no, !.values = Append(vs, w)] = Between(w, Append(vs, w))
  <2>1. \A x : /\ [ListScan(no, no, w, vs) EXCEPT !.in_string = x] = ListScan(x, no, w, vs)
               /\ [ListScan(yes, no, w, vs) EXCEPT !.in_string = x] = ListScan(x, no, w, vs)
    BY DEF ListScan
  <2>2. \A x, y : [ListScan(yes, y, w, vs) EXCEPT !.current = x] = ListScan(yes, y, x, vs)
    BY DEF ListScan
  <2>3. \A x, y : [ListScan(yes, y, w, vs) EXCEPT !.escaped = x] = ListScan(yes, x, w, vs)
    BY DEF ListScan
  <2>4. \A x, y : [ListScan(yes, yes, y, vs) EXCEPT !.escaped = x] = ListScan(yes, x, y, vs)
    BY DEF ListScan
  <2>5. \A x : [ListScan(no, no, w, vs) EXCEPT !.values = x] = ListScan(no, no, w, x)
    BY DEF ListScan
  <2>6. ASSUME NEW f, NEW g, NEW x, NEW y
        PROVE  /\ g = [f EXCEPT !.in_string = x] =>
                    [f EXCEPT !.in_string = x, !.current = y] = [g EXCEPT !.current = y]
               /\ g = [f EXCEPT !.current = x] =>
                    [f EXCEPT !.current = x, !.escaped = y] = [g EXCEPT !.escaped = y]
               /\ g = [f EXCEPT !.in_string = x] =>
                    [f EXCEPT !.in_string = x, !.values = y] = [g EXCEPT !.values = y]
    OBVIOUS
  <2>7. [s EXCEPT !.in_string = yes, !.current = <<>>] = Quoting(<<>>, vs)
    <3>1. r = [s EXCEPT !.in_string = yes]
      BY <1>1, <2>1
    <3>2. [r EXCEPT !.current = <<>>] = Quoting(<<>>, vs)
      BY <1>1, <2>2
    <3>3. [s EXCEPT !.in_string = yes, !.current = <<>>] = [r EXCEPT !.current = <<>>]
      BY <2>6, <3>1
    <3> QED
      BY <3>2, <3>3
  <2>8. ASSUME NEW c PROVE [r EXCEPT !.current = Append(w, c)] = Quoting(Append(w, c), vs)
    <3> DEFINE x == Append(w, c)
    <3> HIDE DEF x
    <3>1. [r EXCEPT !.current = x] = Quoting(x, vs)
      BY <1>1, <2>2
    <3> QED
      BY <3>1 DEF x
  <2>9. ASSUME NEW c
        PROVE  [e EXCEPT !.current = Append(w, c), !.escaped = no] = Quoting(Append(w, c), vs)
    <3> DEFINE x == Append(w, c)
               g == ListScan(yes, yes, x, vs)
    <3> HIDE DEF x, g
    <3>1. g = [e EXCEPT !.current = x]
      BY <1>1, <2>2 DEF g
    <3>2. [g EXCEPT !.escaped = no] = Quoting(x, vs)
      BY <1>1, <2>4 DEF g
    <3>3. [e EXCEPT !.current = x, !.escaped = no] = [g EXCEPT !.escaped = no]
      BY <2>6, <3>1
    <3> QED
      BY <3>2, <3>3 DEF x
  <2>10. [r EXCEPT !.in_string = no, !.values = Append(vs, w)] = Between(w, Append(vs, w))
    <3> DEFINE x == Append(vs, w)
    <3> HIDE DEF x
    <3>1. s = [r EXCEPT !.in_string = no]
      BY <1>1, <2>1
    <3>2. [s EXCEPT !.values = x] = Between(w, x)
      BY <1>1, <2>5
    <3>3. [r EXCEPT !.in_string = no, !.values = x] = [s EXCEPT !.values = x]
      BY <2>6, <3>1
    <3> QED
      BY <3>2, <3>3 DEF x
  <2>11. [r EXCEPT !.escaped = yes] = e
    BY <1>1, <2>3
  <2> QED
    BY <2>7, <2>8, <2>9, <2>10, <2>11
<1> USE DEF no, yes
<1>5. \A c : Lists!ScanStep(e, c) = Quoting(Append(w, c), vs)
  BY <1>3, <1>4 DEF Lists!ScanStep
<1>6. Lists!ScanStep(r, "backslash") = e
  BY <1>3, <1>4 DEF Lists!ScanStep
<1>7. \A c : c # "backslash" => Lists!ScanStep(r, c) = Lists!ScanStepUnescaped(r, c)
  BY <1>3 DEF Lists!ScanStep
<1>8. \A c : Lists!ScanStep(s, c) = Lists!ScanStepUnescaped(s, c)
  BY <1>3 DEF Lists!ScanStep
<1>9. /\ \A c : c # "quote" => Lists!ScanStepUnescaped(s, c) = s
      /\ Lists!ScanStepUnescaped(s, "quote") = Quoting(<<>>, vs)
  BY <1>3, <1>4 DEF Lists!ScanStepUnescaped
<1>10. /\ \A c : c # "quote" => Lists!ScanStepUnescaped(r, c) = Quoting(Append(w, c), vs)
       /\ Lists!ScanStepUnescaped(r, "quote") = Between(w, Append(vs, w))
  BY <1>3, <1>4 DEF Lists!ScanStepUnescaped
<1>11. "quote" # "backslash"
  OBVIOUS
<1> HIDE DEF no, yes
<1> QED
  BY <1>5, <1>6, <1>7, <1>8, <1>9, <1>10, <1>11, FedIs DEF s, r, e

(* A keyword, written with its backslashes, is read as it was.                *)
LEMMA EscapedRead ==
  ASSUME NEW t \in Seq(Lists!Characters), NEW vs
  PROVE  /\ Lists!Escaped(t) \in Seq(Texts)
         /\ Goes("scan", Quoting(<<>>, vs), Lists!Escaped(t), Quoting(t, vs))
<1> DEFINE n == Len(t)
           p == [i \in DOMAIN t |->
                   IF t[i] \in {"quote", "backslash"} THEN <<"backslash", t[i]>> ELSE <<t[i]>>]
           st == [i \in 0..n |-> Quoting(First(t, i), vs)]
<1>1. n \in Nat /\ DOMAIN t = 1..n /\ \A i \in 1..n : t[i] \in Texts
  BY LenProperties DEF Texts
<1>2. /\ First(t, 0) = <<>> /\ First(t, n) = t
      /\ \A i \in 1..n : Append(First(t, i - 1), t[i]) = First(t, i)
  BY Firsts
<1> HIDE DEF n
<1>3. /\ \A i \in 0..n : st[i] = Quoting(First(t, i), vs)
      /\ \A i \in 1..n : i \in 0..n /\ i - 1 \in 0..n
  BY <1>1
<1>4. p = [i \in 1..n |-> p[i]]
  BY <1>1
<1>5. ASSUME NEW i \in 1..n
      PROVE  p[i] \in Seq(Texts) /\ Goes("scan", st[i - 1], p[i], st[i])
  <2> DEFINE c == t[i]
             w == First(t, i - 1)
  <2>1. st[i - 1] = Quoting(w, vs) /\ st[i] = Quoting(Append(w, c), vs) /\ c \in Texts
    BY <1>1, <1>2, <1>3
  <2>2. p[i] = IF c \in {"quote", "backslash"} THEN <<"backslash", c>> ELSE <<c>>
    BY <1>1
  <2> HIDE DEF p, st, c, w
  <2>3. "backslash" \in Texts
    BY DEF Texts, Lists!Characters
  <2>4. CASE c \in {"quote", "backslash"}
    <3>1. p[i] = <<"backslash">> \o <<c>>
      BY <2>2, <2>4
    <3>2. <<"backslash">> \in Seq(Texts) /\ <<c>> \in Seq(Texts)
      BY <2>1, <2>3
    <3>3. Goes("scan", Quoting(w, vs), <<"backslash">>, Backslashed(w, vs))
      <4>1. Fed("scan", Quoting(w, vs), "backslash") = Backslashed(w, vs)
        BY ScansOn
      <4> QED
        BY <4>1, GoesOne
    <3>4. Goes("scan", Backslashed(w, vs), <<c>>, Quoting(Append(w, c), vs))
      <4>1. Fed("scan", Backslashed(w, vs), c) = Quoting(Append(w, c), vs)
        BY ScansOn
      <4> QED
        BY <4>1, GoesOne
    <3>5. Goes("scan", Quoting(w, vs), <<"backslash">> \o <<c>>, Quoting(Append(w, c), vs))
      BY <3>2, <3>3, <3>4, GoesConcat
    <3>6. <<"backslash">> \o <<c>> \in Seq(Texts)
      BY <3>2, ConcatProperties
    <3> QED
      BY <2>1, <3>1, <3>5, <3>6
  <2>5. CASE c \notin {"quote", "backslash"}
    <3>1. Fed("scan", Quoting(w, vs), c) = Quoting(Append(w, c), vs)
      BY <2>5, ScansOn
    <3>2. Goes("scan", Quoting(w, vs), <<c>>, Quoting(Append(w, c), vs))
      BY <3>1, GoesOne
    <3>3. p[i] = <<c>> /\ <<c>> \in Seq(Texts)
      BY <2>1, <2>2, <2>5
    <3> QED
      BY <2>1, <3>2, <3>3
  <2> QED
    BY <2>4, <2>5
<1> HIDE DEF p, st
<1>6. p \in Seq(Seq(Texts)) /\ Len(p) = n
  BY <1>1, <1>4, <1>5, Tabulated
<1>7. /\ Lists!FlattenSeq(p) \in Seq(Texts)
      /\ Goes("scan", st[0], Lists!FlattenSeq(p), st[n])
  BY <1>5, <1>6, FlattenedGoes
<1>8. Lists!Escaped(t) = Lists!FlattenSeq(p)
  BY DEF Lists!Escaped, p
<1>9. st[0] = Quoting(<<>>, vs) /\ st[n] = Quoting(t, vs)
  BY <1>1, <1>2, <1>3
<1> QED
  BY <1>7, <1>8, <1>9

(* One keyword of a list, in its quotation marks.                             *)
LEMMA ItemRead ==
  ASSUME NEW a \in {<<>>, <<"comma">>}, NEW k \in Seq(Lists!Characters), NEW w, NEW vs,
         NEW t, t = a \o <<"quote">> \o Lists!Escaped(k) \o <<"quote">>
  PROVE  t \in Seq(Texts) /\ Goes("scan", Between(w, vs), t, Between(k, Append(vs, k)))
<1> DEFINE q == <<"quote">>
           e == Lists!Escaped(k)
           aq == a \o q
           aqe == aq \o e
<1>1. "comma" \in Texts /\ "quote" \in Texts
  BY DEF Texts, Lists!Characters
<1>2. a \in Seq(Texts) /\ q \in Seq(Texts)
  <2>1. <<>> \in Seq(Texts) /\ <<"comma">> \in Seq(Texts) /\ <<"quote">> \in Seq(Texts)
    BY <1>1
  <2> QED
    BY <2>1
<1>3. e \in Seq(Texts) /\ Goes("scan", Quoting(<<>>, vs), e, Quoting(k, vs))
  BY EscapedRead
<1>4. Goes("scan", Between(w, vs), a, Between(w, vs))
  <2>1. CASE a = <<>>
    BY <2>1, GoesNowhere
  <2>2. CASE a = <<"comma">>
    <3>1. Fed("scan", Between(w, vs), "comma") = Between(w, vs)
      BY ScansOn
    <3> QED
      BY <2>2, <3>1, GoesOne
  <2> QED
    BY <2>1, <2>2
<1>5. /\ Goes("scan", Between(w, vs), q, Quoting(<<>>, vs))
      /\ Goes("scan", Quoting(k, vs), q, Between(k, Append(vs, k)))
  <2>1. /\ Fed("scan", Between(w, vs), "quote") = Quoting(<<>>, vs)
        /\ Fed("scan", Quoting(k, vs), "quote") = Between(k, Append(vs, k))
    BY ScansOn
  <2> QED
    BY <2>1, GoesOne
<1> HIDE DEF q, e, aq, aqe
<1>6. aq \in Seq(Texts) /\ Goes("scan", Between(w, vs), aq, Quoting(<<>>, vs))
  BY <1>2, <1>4, <1>5, ConcatProperties, GoesConcat DEF aq
<1>7. aqe \in Seq(Texts) /\ Goes("scan", Between(w, vs), aqe, Quoting(k, vs))
  BY <1>3, <1>6, ConcatProperties, GoesConcat DEF aqe
<1>8. t = aqe \o q
  BY DEF aq, aqe, q, e
<1> QED
  BY <1>2, <1>5, <1>7, <1>8, ConcatProperties, GoesConcat

LEMMA DumpedScanned ==
  ASSUME NEW kws \in Seq(Seq(Lists!Characters)), kws # <<>>
  PROVE  /\ Lists!Dumped(kws) \in Seq(Texts) /\ Lists!Dumped(kws)[1] = "["
         /\ Lists!Dumped(kws) # <<>>
         /\ \E w : Goes("scan", Between(<<>>, <<>>), Lists!Dumped(kws), Between(w, kws))
<1> DEFINE n == Len(kws)
           Item(i) == (IF i = 1 THEN <<>> ELSE <<"comma">>)
                        \o <<"quote">> \o Lists!Escaped(kws[i]) \o <<"quote">>
           p == [i \in DOMAIN kws |-> Item(i)]
           st == [i \in 0..n |-> IF i = 0 THEN Between(<<>>, <<>>)
                                 ELSE Between(kws[i], First(kws, i))]
           f == Lists!FlattenSeq(p)
           of == <<"[">> \o f
<1>1. n \in Nat \ {0} /\ DOMAIN kws = 1..n /\ \A i \in 1..n : kws[i] \in Seq(Lists!Characters)
  BY LenProperties, EmptySeq
<1>2. /\ First(kws, 0) = <<>> /\ First(kws, n) = kws
      /\ \A i \in 1..n : Append(First(kws, i - 1), kws[i]) = First(kws, i)
  BY Firsts
<1> HIDE DEF n
<1>3. /\ st[0] = Between(<<>>, <<>>)
      /\ \A i \in 1..n : st[i] = Between(kws[i], First(kws, i))
  <2>1. 0 \in 0..n /\ \A i \in 1..n : i \in 0..n /\ i # 0
    BY <1>1
  <2> QED
    BY <2>1
<1>4. ASSUME NEW i \in 1..n
      PROVE  p[i] \in Seq(Texts) /\ Goes("scan", st[i - 1], p[i], st[i])
  <2> DEFINE a == IF i = 1 THEN <<>> ELSE <<"comma">>
             k == kws[i]
             vs == First(kws, i - 1)
  <2>1. \E w : st[i - 1] = Between(w, vs)
    <3>1. CASE i = 1
      <4>1. i - 1 = 0
        BY <3>1
      <4> HIDE DEF st
      <4> QED
        BY <1>2, <1>3, <4>1
    <3>2. CASE i # 1
      <4>1. i - 1 \in 1..n
        BY <1>1, <3>2
      <4> HIDE DEF st
      <4> QED
        BY <1>3, <4>1
    <3> QED
      BY <3>1, <3>2
  <2>2. st[i] = Between(k, Append(vs, k))
    <3>1. st[i] = Between(kws[i], First(kws, i)) /\ Append(First(kws, i - 1), kws[i]) = First(kws, i)
      BY <1>2, <1>3
    <3> HIDE DEF st
    <3> QED
      BY <3>1
  <2>3. p[i] = a \o <<"quote">> \o Lists!Escaped(k) \o <<"quote">>
    <3>1. p[i] = Item(i)
      <4> HIDE DEF Item
      <4> QED
        BY <1>1
    <3> HIDE DEF p
    <3> QED
      BY <3>1, Zenon
  <2>4. a \in {<<>>, <<"comma">>} /\ k \in Seq(Lists!Characters)
    BY <1>1
  <2> HIDE DEF p, st, a, k, vs
  <2>5. PICK w : st[i - 1] = Between(w, vs)
    BY <2>1
  <2>6. p[i] \in Seq(Texts) /\ Goes("scan", Between(w, vs), p[i], Between(k, Append(vs, k)))
    BY <2>3, <2>4, ItemRead
  <2> QED
    BY <2>2, <2>5, <2>6
<1>5. p = [i \in 1..n |-> p[i]]
  BY <1>1
<1>6. Lists!Dumped(kws) = of \o <<"]">>
  BY DEF Lists!Dumped
<1> HIDE DEF p, st, Item
<1>7. n \in Nat /\ n \in 1..n
  BY <1>1
<1>8. p \in Seq(Seq(Texts)) /\ Len(p) = n
  BY <1>4, <1>5, <1>7, Tabulated
<1>9. f \in Seq(Texts) /\ Goes("scan", st[0], f, st[n])
  BY <1>4, <1>8, FlattenedGoes
<1> HIDE DEF f
<1>10. st[n] = Between(kws[n], kws)
  BY <1>2, <1>3, <1>7
<1>11. "[" \in Texts /\ "]" \in Texts /\ "[" # "quote" /\ "]" # "quote"
  BY DEF Texts
<1>12. /\ <<"[">> \in Seq(Texts) /\ <<"]">> \in Seq(Texts)
       /\ Len(<<"[">>) = 1 /\ <<"[">>[1] = "["
  BY <1>11
<1>13. Goes("scan", Between(<<>>, <<>>), <<"[">>, Between(<<>>, <<>>))
  <2>1. Fed("scan", Between(<<>>, <<>>), "[") = Between(<<>>, <<>>)
    BY <1>11, ScansOn
  <2> QED
    BY <2>1, GoesOne
<1>14. Goes("scan", Between(kws[n], kws), <<"]">>, Between(kws[n], kws))
  <2>1. Fed("scan", Between(kws[n], kws), "]") = Between(kws[n], kws)
    BY <1>11, ScansOn
  <2> QED
    BY <2>1, GoesOne
<1>15. of \in Seq(Texts) /\ Goes("scan", Between(<<>>, <<>>), of, Between(kws[n], kws))
  <2>1. of \in Seq(Texts)
    BY <1>9, <1>12, ConcatProperties
  <2>2. Goes("scan", Between(<<>>, <<>>), f, Between(kws[n], kws))
    BY <1>3, <1>9, <1>10
  <2> QED
    BY <1>9, <1>12, <1>13, <2>1, <2>2, GoesConcat
<1>16. Len(of) \in Nat /\ Len(of) >= 1 /\ of[1] = "["
  <2> DEFINE b == <<"[">>
  <2>1. Len(b) = 1 /\ b[1] = "[" /\ b \in Seq(Texts)
    BY <1>12
  <2>2. Len(f) \in Nat
    BY <1>9, LenProperties
  <2> HIDE DEF b
  <2>3. /\ Len(b \o f) = Len(b) + Len(f)
        /\ \A i \in 1..Len(b) + Len(f) : (b \o f)[i] = IF i <= Len(b) THEN b[i] ELSE f[i - Len(b)]
    BY <1>9, <2>1, ConcatProperties
  <2>4. 1 \in 1..Len(b) + Len(f) /\ 1 <= Len(b)
    BY <2>1, <2>2
  <2> QED
    BY <2>1, <2>2, <2>3, <2>4 DEF b
<1> HIDE DEF of
<1> DEFINE c == <<"]">>
<1>17. c \in Seq(Texts) /\ Len(c) \in Nat
  BY <1>12, LenProperties
<1> HIDE DEF c
<1>18. /\ of \o c \in Seq(Texts) /\ Len(of \o c) = Len(of) + Len(c)
       /\ \A i \in 1..Len(of) + Len(c) : (of \o c)[i] = IF i <= Len(of) THEN of[i] ELSE c[i - Len(of)]
  BY <1>15, <1>17, ConcatProperties
<1>19. 1 \in 1..Len(of) + Len(c) /\ 1 <= Len(of) /\ Len(of) + Len(c) # 0
  BY <1>16, <1>17
<1>20. (of \o c)[1] = "[" /\ of \o c # <<>>
  <2>1. Len(<<>>) = 0
    OBVIOUS
  <2> QED
    BY <1>16, <1>18, <1>19, <2>1
<1>21. Goes("scan", Between(<<>>, <<>>), of \o c, Between(kws[n], kws))
  BY <1>14, <1>15, <1>17, GoesConcat DEF c
<1> QED
  BY <1>6, <1>18, <1>20, <1>21 DEF c

(* The fold of the code is such a loop.                                       *)
LEMMA DumpedRead ==
  ASSUME NEW kws \in Seq(Seq(Lists!Characters)), kws # <<>>
  PROVE  Lists!ParseList(Lists!Dumped(kws)) = kws
<1> DEFINE t == Lists!Dumped(kws)
           s == Between(<<>>, <<>>)
           IsListScan(h) ==
             h = [d \in SUBSET DOMAIN t |->
                    IF d = {} THEN s
                    ELSE Lists!ScanStep(h[d \ {Lists!Max(d)}], t[Lists!Max(d)])]
           g == CHOOSE h : IsListScan(h)
<1>1. Lists!ParseList(t) =
        IF t # <<>> /\ t[1] = "[" /\ g[DOMAIN t].values # <<>> THEN g[DOMAIN t].values
        ELSE Lists!CommaSeparated(t)
  <2> HIDE DEF t
  <2> QED
    BY Zenon DEF Lists!ParseList, Lists!FoldLeft, Lists!MapThenFoldSet, Between, ListScan
<1>2. \A x, c : Fed("scan", x, c) = Lists!ScanStep(x, c)
  BY FedIs
<1>3. \A h : IsListScan(h) <=> IsFold(h, "scan", s, t)
  <2> HIDE DEF s, t
  <2> QED
    BY <1>2, Zenon DEF IsFold
<1>4. /\ t \in Seq(Texts) /\ t[1] = "[" /\ t # <<>>
      /\ \E w : Goes("scan", s, t, Between(w, kws))
  BY DumpedScanned
<1> HIDE DEF t, s
<1>5. \E h : IsListScan(h)
  BY <1>3, <1>4, FoldExists
<1>6. IsFold(g, "scan", s, t)
  <2> HIDE DEF IsListScan
  <2>1. IsListScan(g)
    BY <1>5
  <2> QED
    BY <1>3, <2>1
<1> HIDE DEF g
<1>7. PICK w : Goes("scan", s, t, Between(w, kws))
  BY <1>4
<1>8. g[DOMAIN t] = Between(w, kws)
  BY <1>4, <1>6, <1>7, FoldGoes
<1>9. Between(w, kws).values = kws
  BY DEF Between, ListScan
<1> QED
  BY <1>1, <1>4, <1>8, <1>9 DEF t

(* The split at the commas goes on with the last part.                        *)
LEMMA SplitsOn ==
  ASSUME NEW S, NEW Q \in Seq(Seq(S)), NEW w \in Seq(S)
  PROVE  /\ Fed("split", Append(Q, w), "comma") = Append(Append(Q, w), <<>>)
         /\ \A c \in S : c # "comma" => Fed("split", Append(Q, w), c) = Append(Q, Append(w, c))
<1> DEFINE a == Append(Q, w)
           n == Len(Q)
<1>1. /\ a \in Seq(Seq(S)) /\ n \in Nat /\ Len(a) = n + 1
      /\ \A i \in 1..n : a[i] = Q[i] /\ a[n + 1] = w
  BY AppendProperties, LenProperties
<1>2. a[n + 1] = w
  BY AppendProperties
<1> HIDE DEF a, n
<1>3. ASSUME NEW c \in S PROVE [a EXCEPT ![Len(a)] = Append(@, c)] = Append(Q, Append(w, c))
  <2> DEFINE v == Append(w, c)
             b == Append(Q, v)
             e == [a EXCEPT ![Len(a)] = v]
  <2>1. v \in Seq(S)
    BY AppendProperties
  <2> HIDE DEF v
  <2>2. /\ b \in Seq(Seq(S)) /\ Len(b) = n + 1 /\ b[n + 1] = v
        /\ \A i \in 1..n : b[i] = Q[i]
    BY <2>1, AppendProperties DEF n
  <2>3. Len(a) \in 1..Len(a)
    BY <1>1
  <2>4. /\ e \in Seq(Seq(S)) /\ Len(e) = Len(a)
        /\ \A j \in 1..Len(a) : e[j] = IF j = Len(a) THEN v ELSE a[j]
    <3>1. \A s \in Seq(Seq(S)) : \A i \in 1..Len(s) : \A x \in Seq(S) :
            /\ [s EXCEPT ![i] = x] \in Seq(Seq(S))
            /\ Len([s EXCEPT ![i] = x]) = Len(s)
            /\ \A j \in 1..Len(s) : [s EXCEPT ![i] = x][j] = IF j = i THEN x ELSE s[j]
      BY ExceptSeq
    <3> QED
      BY <1>1, <2>1, <2>3, <3>1
  <2> HIDE DEF b, e
  <2>5. \A i \in 1..n + 1 : e[i] = b[i]
    <3>1. \A i \in 1..n + 1 : i = n + 1 \/ (i \in 1..n /\ i # n + 1)
      BY <1>1
    <3> QED
      BY <1>1, <2>2, <2>4, <3>1
  <2>6. e = b
    BY <1>1, <2>2, <2>4, <2>5, SeqEqual
  <2>7. [a EXCEPT ![Len(a)] = Append(@, c)] = e
    BY <1>1, <1>2 DEF e, v
  <2> QED
    BY <2>6, <2>7 DEF b, v
<1>4. Lists!Split(a, "comma") = Append(a, <<>>)
  BY DEF Lists!Split
<1>5. ASSUME NEW c \in S, c # "comma" PROVE Lists!Split(a, c) = Append(Q, Append(w, c))
  <2>1. Lists!Split(a, c) = [a EXCEPT ![Len(a)] = Append(@, c)]
    BY <1>5, Zenon DEF Lists!Split
  <2> QED
    BY <1>3, <2>1
<1>6. \A x, c : Fed("split", x, c) = Lists!Split(x, c)
  BY FedIs
<1> QED
  BY <1>4, <1>5, <1>6, Zenon DEF a

LEMMA AppendJoins ==
  ASSUME NEW S, NEW w \in Seq(S), NEW a \in Seq(S), NEW c \in S
  PROVE  w \o Append(a, c) = Append(w \o a, c)
<1> DEFINE m == Len(w)
           n == Len(a)
           b == Append(a, c)
           v == w \o a
           x == w \o b
           y == Append(v, c)
<1>1. m \in Nat /\ n \in Nat
  BY LenProperties
<1>2. /\ b \in Seq(S) /\ Len(b) = n + 1 /\ b[n + 1] = c
      /\ \A i \in 1..n : b[i] = a[i]
  BY AppendProperties
<1>3. /\ v \in Seq(S) /\ Len(v) = m + n
      /\ \A i \in 1..m + n : v[i] = IF i <= m THEN w[i] ELSE a[i - m]
  BY ConcatProperties
<1> HIDE DEF m, n, b, v
<1>4. /\ x \in Seq(S) /\ Len(x) = m + (n + 1)
      /\ \A i \in 1..m + (n + 1) : x[i] = IF i <= m THEN w[i] ELSE b[i - m]
  <2>1. /\ w \o b \in Seq(S) /\ Len(w \o b) = Len(w) + Len(b)
        /\ \A i \in 1..Len(w) + Len(b) :
             (w \o b)[i] = IF i <= Len(w) THEN w[i] ELSE b[i - Len(w)]
    BY <1>2, ConcatProperties
  <2>2. Len(w) = m
    BY DEF m
  <2> QED
    BY <1>2, <2>1, <2>2
<1>5. /\ y \in Seq(S) /\ Len(y) = Len(v) + 1 /\ y[Len(v) + 1] = c
      /\ \A i \in 1..Len(v) : y[i] = v[i]
  BY <1>3, AppendProperties
<1> HIDE DEF x, y
<1>6. ASSUME NEW i \in 1..m + (n + 1) PROVE x[i] = y[i]
  <2>1. CASE i <= m
    <3>1. i \in 1..m + n
      BY <1>1, <2>1
    <3> QED
      BY <1>3, <1>4, <1>5, <2>1, <3>1
  <2>2. CASE i > m /\ i <= m + n
    <3>1. i \in 1..m + n /\ ~(i <= m) /\ i - m \in 1..n
      BY <1>1, <2>2
    <3> QED
      BY <1>2, <1>3, <1>4, <1>5, <3>1
  <2>3. CASE i = (m + n) + 1
    <3>1. ~(i <= m) /\ i - m = n + 1
      BY <1>1, <2>3
    <3>2. x[i] = c
      BY <1>2, <1>4, <3>1
    <3> QED
      BY <1>3, <1>5, <2>3, <3>2
  <2> QED
    BY <1>1, <2>1, <2>2, <2>3
<1>7. x = y
  <2>1. Len(x) = Len(y)
    BY <1>1, <1>3, <1>4, <1>5
  <2> QED
    BY <1>4, <1>5, <1>6, <2>1, SeqEqual
<1> QED
  BY <1>7 DEF x, y, b, v

LEMMA SplitsText ==
  ASSUME NEW S, NEW Q \in Seq(Seq(S)), NEW w \in Seq(S), NEW t \in Seq(S),
         \A i \in 1..Len(t) : t[i] # "comma"
  PROVE  Goes("split", Append(Q, w), t, Append(Q, w \o t))
<1> DEFINE n == Len(t)
           g == [i \in 0..n |-> Append(Q, w \o First(t, i))]
<1>1. /\ n \in Nat /\ First(t, 0) = <<>> /\ First(t, n) = t
      /\ \A i \in 0..n : First(t, i) \in Seq(S)
      /\ \A i \in 1..n : t[i] \in S /\ t[i] # "comma"
      /\ \A i \in 1..n : Append(First(t, i - 1), t[i]) = First(t, i)
  BY Firsts, LenProperties
<1> HIDE DEF n
<1>2. \A i \in 0..n : g[i] = Append(Q, w \o First(t, i))
  OBVIOUS
<1> HIDE DEF g
<1>3. g[0] = Append(Q, w) /\ g[n] = Append(Q, w \o t)
  <2>1. w \o First(t, 0) = w
    BY <1>1, ConcatEmptySeq
  <2>2. 0 \in 0..n /\ n \in 0..n
    BY <1>1
  <2>3. g[0] = Append(Q, w \o First(t, 0)) /\ g[n] = Append(Q, w \o First(t, n))
    BY <1>2, <2>2
  <2> QED
    BY <1>1, <2>1, <2>3, Zenon
<1>4. ASSUME NEW i \in 1..n PROVE g[i] = Fed("split", g[i - 1], t[i])
  <2> DEFINE a == First(t, i - 1)
             c == t[i]
             v == w \o a
  <2>1. i \in 0..n /\ i - 1 \in 0..n
    BY <1>1
  <2>2. a \in Seq(S) /\ c \in S /\ c # "comma" /\ First(t, i) = Append(a, c)
    BY <1>1, <2>1
  <2>3. g[i - 1] = Append(Q, w \o a) /\ g[i] = Append(Q, w \o First(t, i))
    BY <1>2, <2>1
  <2> HIDE DEF a, c
  <2>4. w \o Append(a, c) = Append(w \o a, c)
    <3> HIDE DEF v
    <3> QED
      BY <2>2, AppendJoins
  <2>5. v \in Seq(S)
    BY <2>2, ConcatProperties
  <2> HIDE DEF v
  <2>6. Fed("split", Append(Q, v), c) = Append(Q, Append(v, c))
    BY <2>2, <2>5, SplitsOn
  <2> QED
    BY <2>2, <2>3, <2>4, <2>6 DEF a, c, v
<1>5. Going("split", g, Append(Q, w), t, Append(Q, w \o t))
  BY <1>3, <1>4 DEF Going, n
<1> QED
  BY <1>5 DEF Goes

(* The text of keywords separated by commas, and its parts.                   *)
Glyphs == Lists!Characters
Separator(i) == IF i = 1 THEN <<>> ELSE <<"comma", "space">>
Commas(kws) == Lists!FlattenSeq([i \in DOMAIN kws |-> Separator(i) \o kws[i]])
CommaPart(kws, i) == (IF i = 1 THEN <<>> ELSE <<"space">>) \o kws[i]
CommaParts(kws) == [i \in 1..Len(kws) |-> CommaPart(kws, i)]
NoCommas(kws) == \A i \in 1..Len(kws) : \A j \in 1..Len(kws[i]) : kws[i][j] # "comma"

LEMMA PartsAre ==
  ASSUME NEW kws \in Seq(Seq(Glyphs))
  PROVE  /\ CommaParts(kws) \in Seq(Seq(Glyphs)) /\ Len(CommaParts(kws)) = Len(kws)
         /\ \A i \in 1..Len(kws) : CommaParts(kws)[i] = CommaPart(kws, i)
<1> DEFINE n == Len(kws)
           f == CommaParts(kws)
<1>1. n \in Nat /\ \A i \in 1..n : kws[i] \in Seq(Glyphs)
  BY LenProperties
<1> HIDE DEF n
<1>2. ASSUME NEW i \in 1..n PROVE CommaPart(kws, i) \in Seq(Glyphs)
  <2> DEFINE a == IF i = 1 THEN <<>> ELSE <<"space">>
  <2>1. "space" \in Glyphs
    BY DEF Glyphs, Lists!Characters
  <2>2. <<>> \in Seq(Glyphs) /\ <<"space">> \in Seq(Glyphs)
    BY <2>1
  <2>3. a \in Seq(Glyphs)
    BY <2>2
  <2> HIDE DEF a
  <2>4. a \o kws[i] \in Seq(Glyphs)
    BY <1>1, <2>3, ConcatProperties
  <2> QED
    BY <2>4 DEF CommaPart, a
<1>3. f = [i \in 1..n |-> CommaPart(kws, i)]
  BY DEF CommaParts, n
<1> HIDE DEF f
<1>4. /\ f = [i \in 1..n |-> f[i]]
      /\ \A i \in 1..n : f[i] = CommaPart(kws, i)
  BY <1>3
<1>5. \A i \in 1..n : f[i] \in Seq(Glyphs)
  BY <1>2, <1>4
<1> QED
  BY <1>1, <1>4, <1>5, Tabulated DEF n, f

LEMMA CommasSplit ==
  ASSUME NEW kws \in Seq(Seq(Glyphs)), kws # <<>>, NoCommas(kws)
  PROVE  /\ Commas(kws) \in Seq(Glyphs)
         /\ Goes("split", << <<>> >>, Commas(kws), CommaParts(kws))
<1> DEFINE n == Len(kws)
           q == CommaParts(kws)
           p == [i \in DOMAIN kws |-> Separator(i) \o kws[i]]
           st == [i \in 0..n |-> IF i = 0 THEN << <<>> >> ELSE First(q, i)]
<1>1. n \in Nat \ {0} /\ DOMAIN kws = 1..n /\ \A i \in 1..n : kws[i] \in Seq(Glyphs)
  BY LenProperties, EmptySeq
<1>2. q \in Seq(Seq(Glyphs)) /\ Len(q) = n /\ \A i \in 1..n : q[i] = CommaPart(kws, i)
  BY PartsAre
<1>3. \A i \in 1..n : \A j \in 1..Len(kws[i]) : kws[i][j] # "comma"
  BY DEF NoCommas
<1> HIDE DEF n, q
<1>4. /\ First(q, 0) = <<>> /\ First(q, n) = q
      /\ \A i \in 0..n : First(q, i) \in Seq(Seq(Glyphs))
      /\ \A i \in 1..n : Append(First(q, i - 1), q[i]) = First(q, i)
  BY <1>2, Firsts
<1>5. st[0] = << <<>> >> /\ \A i \in 1..n : st[i] = First(q, i)
  <2>1. 0 \in 0..n /\ \A i \in 1..n : i \in 0..n /\ i # 0
    BY <1>1
  <2> QED
    BY <2>1
<1>6. p = [i \in 1..n |-> p[i]] /\ \A i \in 1..n : p[i] = Separator(i) \o kws[i]
  BY <1>1
<1>7. Commas(kws) = Lists!FlattenSeq(p)
  BY DEF Commas
<1> HIDE DEF st, p
<1>8. ASSUME NEW i \in 1..n
      PROVE  p[i] \in Seq(Glyphs) /\ Goes("split", st[i - 1], p[i], st[i])
  <2> DEFINE k == kws[i]
             Q == First(q, i - 1)
  <2>1. k \in Seq(Glyphs) /\ \A j \in 1..Len(k) : k[j] # "comma"
    BY <1>1, <1>3
  <2>2. i - 1 \in 0..n
    BY <1>1
  <2>3. Q \in Seq(Seq(Glyphs)) /\ st[i] = Append(Q, CommaPart(kws, i))
    BY <1>2, <1>4, <1>5, <2>2
  <2>4. p[i] = Separator(i) \o k
    BY <1>6
  <2>5. <<>> \in Seq(Glyphs) /\ <<>> \o k = k
    BY <2>1, ConcatEmptySeq, EmptySeq
  <2>6. CASE i = 1
    <3>1. st[i - 1] = << <<>> >> /\ Q = <<>>
      <4>1. i - 1 = 0
        BY <2>6
      <4> QED
        BY <1>4, <1>5, <4>1
    <3>2. p[i] = k /\ CommaPart(kws, i) = k
      <4>1. Separator(i) = <<>>
        BY <2>6 DEF Separator
      <4>2. CommaPart(kws, i) = <<>> \o kws[i]
        BY <2>6 DEF CommaPart
      <4> QED
        BY <2>4, <2>5, <4>1, <4>2
    <3> HIDE DEF k, Q
    <3>3. Goes("split", Append(Q, <<>>), k, Append(Q, <<>> \o k))
      BY <2>1, <2>3, <2>5, SplitsText
    <3>4. Append(Q, <<>>) = << <<>> >>
      BY <3>1
    <3> QED
      BY <2>1, <2>3, <2>5, <3>1, <3>2, <3>3, <3>4
  <2>7. CASE i # 1
    <3> DEFINE a == <<"space">>
               b == <<"comma">>
               R == Append(Q, <<>>)
    <3>1. st[i - 1] = Q
      <4>1. i - 1 \in 1..n
        BY <1>1, <2>7
      <4> QED
        BY <1>5, <4>1
    <3>2. p[i] = (b \o a) \o k /\ CommaPart(kws, i) = a \o k
      <4>1. Separator(i) = b \o a
        BY <2>7 DEF Separator
      <4>2. CommaPart(kws, i) = a \o kws[i]
        BY <2>7 DEF CommaPart
      <4> QED
        BY <2>4, <4>1, <4>2
    <3>3. "space" \in Glyphs /\ "comma" \in Glyphs
      BY DEF Glyphs, Lists!Characters
    <3>4. a \in Seq(Glyphs) /\ b \in Seq(Glyphs)
      BY <3>3
    <3>5. Goes("split", Q, b, Append(Q, <<>>))
      <4>1. PICK v \in Seq(Glyphs), P \in Seq(Seq(Glyphs)) : Q = Append(P, v)
        <5>1. i - 1 \in 1..n /\ (i - 1) - 1 \in 0..n
          BY <1>1, <2>7
        <5>2. Q = Append(First(q, (i - 1) - 1), q[i - 1])
          BY <1>4, <5>1
        <5>3. q[i - 1] \in Seq(Glyphs)
          BY <1>2, <5>1, ElementOfSeq
        <5> QED
          BY <1>4, <5>1, <5>2, <5>3
      <4> HIDE DEF Q
      <4>2. Fed("split", Q, "comma") = Append(Q, <<>>)
        BY <4>1, SplitsOn
      <4> QED
        BY <4>2, GoesOne
    <3> HIDE DEF k, Q
    <3>6. Goes("split", Append(Q, <<>>), a, Append(Q, a))
      <4>1. Fed("split", Append(Q, <<>>), "space") = Append(Q, Append(<<>>, "space"))
        <5> DEFINE z == <<>>
                   c == "space"
        <5>1. c # "comma" /\ c \in Glyphs /\ z \in Seq(Glyphs)
          BY <2>5, <3>3
        <5> HIDE DEF z, c
        <5>2. Fed("split", Append(Q, z), c) = Append(Q, Append(z, c))
          BY <2>3, <5>1, SplitsOn
        <5> QED
          BY <5>2 DEF z, c
      <4>2. Append(<<>>, "space") = a
        OBVIOUS
      <4> HIDE DEF a
      <4>3. Goes("split", Append(Q, <<>>), <<"space">>, Append(Q, a))
        BY <4>1, <4>2, GoesOne
      <4> QED
        BY <4>3 DEF a
    <3> HIDE DEF a, b
    <3>7. Goes("split", Append(Q, a), k, Append(Q, a \o k))
      BY <2>1, <2>3, <3>4, SplitsText
    <3>8. b \o a \in Seq(Glyphs) /\ (b \o a) \o k \in Seq(Glyphs)
      BY <2>1, <3>4, ConcatProperties
    <3>9. Goes("split", Q, b \o a, Append(Q, a))
      BY <3>4, <3>5, <3>6, GoesConcat
    <3>10. Goes("split", Q, (b \o a) \o k, Append(Q, a \o k))
      BY <2>1, <3>7, <3>8, <3>9, GoesConcat
    <3> QED
      BY <2>3, <3>1, <3>2, <3>8, <3>10
  <2> QED
    BY <2>6, <2>7
<1>9. n \in Nat /\ n \in 1..n
  BY <1>1
<1>10. p \in Seq(Seq(Glyphs)) /\ Len(p) = n
  BY <1>6, <1>8, <1>9, Tabulated
<1>11. /\ Lists!FlattenSeq(p) \in Seq(Glyphs)
       /\ Goes("split", st[0], Lists!FlattenSeq(p), st[n])
  BY <1>8, <1>10, FlattenedGoes
<1> QED
  BY <1>4, <1>5, <1>7, <1>9, <1>11 DEF q

(* A keyword that can stand in a list separated by commas comes out of its    *)
(* part as it was.                                                            *)
Plain(k) ==
  /\ k # <<>>
  /\ \A j \in 1..Len(k) :
       k[j] # "comma" /\ (j \in {1, Len(k)} => k[j] # "space")

LEMMA TrimmedIs ==
  ASSUME NEW S, NEW t \in Seq(S), NEW a \in 1..Len(t), NEW b \in 1..Len(t),
         t[a] # "space", t[b] # "space",
         \A i \in 1..Len(t) : t[i] # "space" => a <= i /\ i <= b
  PROVE  Lists!Trimmed(t) = SubSeq(t, a, b)
<1> DEFINE kept == {i \in DOMAIN t : t[i] # "space"}
           first == CHOOSE i \in kept : \A j \in kept : i <= j
           last == CHOOSE i \in kept : \A j \in kept : j <= i
<1>1. DOMAIN t = 1..Len(t) /\ Len(t) \in Nat
  BY LenProperties
<1>2. /\ a \in kept /\ b \in kept /\ kept \subseteq Nat
      /\ \A i \in kept : a <= i /\ i <= b
  BY <1>1
<1>3. Lists!Trimmed(t) = IF kept = {} THEN <<>> ELSE SubSeq(t, first, last)
  BY Zenon DEF Lists!Trimmed
<1> HIDE DEF kept
<1>4. first = a
  <2>1. \A i \in kept : (\A j \in kept : i <= j) <=> i = a
    BY <1>2
  <2>2. (CHOOSE i \in kept : \A j \in kept : i <= j) = a
    BY <1>2, <2>1
  <2> QED
    BY <2>2
<1>5. last = b
  <2>1. \A i \in kept : (\A j \in kept : j <= i) <=> i = b
    BY <1>2
  <2>2. (CHOOSE i \in kept : \A j \in kept : j <= i) = b
    BY <1>2, <2>1
  <2> QED
    BY <2>2
<1> QED
  BY <1>2, <1>3, <1>4, <1>5

LEMMA PlainTrimmed ==
  ASSUME NEW k \in Seq(Glyphs), Plain(k)
  PROVE  Lists!Trimmed(k) = k /\ Lists!Trimmed(<<"space">> \o k) = k
<1> DEFINE n == Len(k)
           a == <<"space">>
           t == a \o k
<1>1. /\ n \in Nat \ {0} /\ k[1] # "space" /\ k[n] # "space"
      /\ 1 \in 1..n /\ n \in 1..n
  <2>1. n \in Nat \ {0}
    BY EmptySeq DEF Plain
  <2>2. 1 \in 1..n /\ n \in 1..n
    BY <2>1
  <2> QED
    BY <2>1, <2>2 DEF Plain
<1>2. Lists!Trimmed(k) = k
  <2>1. \A i \in 1..n : k[i] # "space" => 1 <= i /\ i <= n
    BY <1>1
  <2>2. Lists!Trimmed(k) = SubSeq(k, 1, n)
    BY <1>1, <2>1, TrimmedIs
  <2> QED
    BY <2>2, SubSeqFull
<1>3. "space" \in Glyphs
  BY DEF Glyphs, Lists!Characters
<1>4. a \in Seq(Glyphs) /\ Len(a) = 1 /\ a[1] = "space"
  BY <1>3
<1> HIDE DEF a
<1>5. /\ t \in Seq(Glyphs) /\ Len(t) = 1 + n
      /\ \A i \in 1..1 + n : t[i] = IF i <= 1 THEN a[i] ELSE k[i - 1]
  <2>1. /\ a \o k \in Seq(Glyphs) /\ Len(a \o k) = Len(a) + Len(k)
        /\ \A i \in 1..Len(a) + Len(k) :
             (a \o k)[i] = IF i <= Len(a) THEN a[i] ELSE k[i - Len(a)]
    BY <1>4, ConcatProperties
  <2> HIDE DEF n
  <2> QED
    BY <1>4, <2>1 DEF n
<1> HIDE DEF t, n
<1>6. t[1] = "space" /\ \A i \in 1..n : t[i + 1] = k[i]
  <2>1. 1 \in 1..1 + n /\ 1 <= 1
    BY <1>1
  <2>2. \A i \in 1..n : i + 1 \in 1..1 + n /\ ~(i + 1 <= 1) /\ (i + 1) - 1 = i
    BY <1>1
  <2> QED
    BY <1>4, <1>5, <2>1, <2>2
<1>7. /\ 2 \in 1..Len(t) /\ n + 1 \in 1..Len(t) /\ t[2] # "space" /\ t[n + 1] # "space"
      /\ \A i \in 1..Len(t) : t[i] # "space" => 2 <= i /\ i <= n + 1
  <2>1. t[1 + 1] = k[1] /\ t[n + 1] = k[n] /\ 1 + 1 = 2
    BY <1>1, <1>6
  <2>2. \A i \in 1..Len(t) : i = 1 \/ 2 <= i
    OBVIOUS
  <2>3. \A i \in 1..Len(t) : i <= n + 1
    BY <1>1, <1>5
  <2> QED
    BY <1>1, <1>5, <1>6, <2>1, <2>2, <2>3
<1>8. Lists!Trimmed(t) = SubSeq(t, 2, n + 1)
  <2> DEFINE c == n + 1
  <2> HIDE DEF c
  <2>1. /\ 2 \in 1..Len(t) /\ c \in 1..Len(t) /\ t[2] # "space" /\ t[c] # "space"
        /\ \A i \in 1..Len(t) : t[i] # "space" => 2 <= i /\ i <= c
    BY <1>7 DEF c
  <2>2. Lists!Trimmed(t) = SubSeq(t, 2, c)
    BY <1>5, <2>1, TrimmedIs
  <2> QED
    BY <2>2 DEF c
<1>9. SubSeq(t, 2, n + 1) = k
  <2> DEFINE u == SubSeq(t, 2, n + 1)
  <2>1. \A i \in 2..n + 1 : t[i] \in Glyphs
    <3>1. \A i \in 2..n + 1 : i \in 1..Len(t)
      BY <1>1, <1>5
    <3> QED
      BY <1>5, <3>1, ElementOfSeq
  <2>2. /\ u \in Seq(Glyphs)
        /\ Len(u) = IF 2 <= n + 1 THEN (n + 1) - 2 + 1 ELSE 0
        /\ \A i \in 1..(n + 1) - 2 + 1 : u[i] = t[2 + i - 1]
    <3> DEFINE c == n + 1
    <3>1. 2 \in Int /\ c \in Int /\ \A i \in 2..c : t[i] \in Glyphs
      BY <1>1, <2>1
    <3> HIDE DEF c
    <3>2. /\ SubSeq(t, 2, c) \in Seq(Glyphs)
          /\ Len(SubSeq(t, 2, c)) = IF 2 <= c THEN c - 2 + 1 ELSE 0
          /\ \A i \in 1..c - 2 + 1 : SubSeq(t, 2, c)[i] = t[2 + i - 1]
      BY <3>1, SubSeqProperties
    <3> QED
      BY <3>2 DEF c
  <2> HIDE DEF u
  <2>3. Len(u) = n /\ \A i \in 1..n : u[i] = t[i + 1]
    <3>1. 2 <= n + 1 /\ (n + 1) - 2 + 1 = n /\ \A i \in 1..n : 2 + i - 1 = i + 1
      BY <1>1
    <3> QED
      BY <2>2, <3>1
  <2>4. u = k
    BY <1>6, <2>2, <2>3, SeqEqual DEF n
  <2> QED
    BY <2>4 DEF u
<1> QED
  BY <1>2, <1>8, <1>9 DEF t, a

LEMMA PartsKept ==
  ASSUME NEW kws \in Seq(Seq(Glyphs)), \A i \in 1..Len(kws) : Plain(kws[i])
  PROVE  Goes("keep", <<>>, CommaParts(kws), kws)
<1> DEFINE n == Len(kws)
           q == CommaParts(kws)
           g == [i \in 0..n |-> First(kws, i)]
<1>1. /\ n \in Nat /\ First(kws, 0) = <<>> /\ First(kws, n) = kws
      /\ \A i \in 1..n : kws[i] \in Seq(Glyphs) /\ Plain(kws[i])
      /\ \A i \in 1..n : Append(First(kws, i - 1), kws[i]) = First(kws, i)
  BY Firsts, LenProperties
<1>2. Len(q) = n /\ \A i \in 1..n : q[i] = CommaPart(kws, i)
  BY PartsAre
<1> HIDE DEF n, q
<1>3. \A i \in 0..n : g[i] = First(kws, i)
  OBVIOUS
<1> HIDE DEF g
<1>4. g[0] = <<>> /\ g[n] = kws
  <2>1. 0 \in 0..n /\ n \in 0..n
    BY <1>1
  <2> QED
    BY <1>1, <1>3, <2>1
<1>5. ASSUME NEW i \in 1..n PROVE g[i] = Fed("keep", g[i - 1], q[i])
  <2> DEFINE k == kws[i]
             r == q[i]
             w == g[i - 1]
  <2>1. i \in 0..n /\ i - 1 \in 0..n
    BY <1>1
  <2>2. k \in Seq(Glyphs) /\ Plain(k) /\ g[i] = Append(w, k)
    BY <1>1, <1>3, <2>1
  <2>3. r = (IF i = 1 THEN <<>> ELSE <<"space">>) \o k
    BY <1>2 DEF CommaPart
  <2> HIDE DEF k, r, w
  <2>4. Lists!Trimmed(r) = k
    <3>1. <<>> \o k = k
      BY <2>2, ConcatEmptySeq
    <3>2. Lists!Trimmed(k) = k /\ Lists!Trimmed(<<"space">> \o k) = k
      BY <2>2, PlainTrimmed
    <3>3. CASE i = 1
      <4>1. r = <<>> \o k
        BY <2>3, <3>3
      <4> QED
        BY <3>1, <3>2, <4>1
    <3>4. CASE i # 1
      <4>1. r = <<"space">> \o k
        BY <2>3, <3>4
      <4> QED
        BY <3>2, <4>1
    <3> QED
      BY <3>3, <3>4
  <2>5. k # <<>>
    BY <2>2 DEF Plain
  <2>6. Lists!Keep(w, r) = Append(w, k)
    BY <2>4, <2>5 DEF Lists!Keep
  <2>7. Fed("keep", w, r) = Lists!Keep(w, r)
    BY FedIs
  <2> QED
    BY <2>2, <2>6, <2>7 DEF w, r
<1>6. Going("keep", g, <<>>, q, kws)
  BY <1>2, <1>4, <1>5 DEF Going
<1> QED
  BY <1>6 DEF Goes, q

LEMMA CommasRead ==
  ASSUME NEW kws \in Seq(Seq(Glyphs)), kws # <<>>, \A i \in 1..Len(kws) : Plain(kws[i])
  PROVE  Lists!CommaSeparated(Commas(kws)) = kws /\ Commas(kws) \in Seq(Glyphs)
<1> DEFINE t == Commas(kws)
           one == << <<>> >>
           none == <<>>
           q == CommaParts(kws)
           IsSplit(h) ==
             h = [d \in SUBSET DOMAIN t |->
                    IF d = {} THEN one
                    ELSE Lists!Split(h[d \ {Lists!Max(d)}], t[Lists!Max(d)])]
           parts == (CHOOSE h : IsSplit(h))[DOMAIN t]
           IsKeep(h) ==
             h = [d \in SUBSET DOMAIN parts |->
                    IF d = {} THEN none
                    ELSE Lists!Keep(h[d \ {Lists!Max(d)}], parts[Lists!Max(d)])]
<1>1. Lists!CommaSeparated(t) = (CHOOSE h : IsKeep(h))[DOMAIN parts]
  <2> HIDE DEF t
  <2> QED
    BY Zenon DEF Lists!CommaSeparated, Lists!FoldLeft, Lists!MapThenFoldSet
<1>2. NoCommas(kws)
  BY DEF NoCommas, Plain
<1>3. t \in Seq(Glyphs) /\ Goes("split", one, t, q)
  BY <1>2, CommasSplit
<1>4. q \in Seq(Seq(Glyphs)) /\ Goes("keep", none, q, kws)
  BY PartsAre, PartsKept
<1> HIDE DEF t, q, one, none
<1>5. \A x, c : Fed("split", x, c) = Lists!Split(x, c) /\ Fed("keep", x, c) = Lists!Keep(x, c)
  BY FedIs
<1>6. \A h : IsSplit(h) <=> IsFold(h, "split", one, t)
  BY <1>5 DEF IsFold
<1>7. parts = q
  <2> DEFINE g == CHOOSE h : IsSplit(h)
  <2>1. \E h : IsSplit(h)
    <3> HIDE DEF IsSplit
    <3> QED
      BY <1>3, <1>6, FoldExists
  <2>2. IsFold(g, "split", one, t)
    <3> HIDE DEF IsSplit
    <3>1. IsSplit(g)
      BY <2>1
    <3> HIDE DEF g
    <3> QED
      BY <1>6, <3>1
  <2> HIDE DEF g
  <2>3. g[DOMAIN t] = q
    BY <1>3, <2>2, FoldGoes
  <2> QED
    BY <2>3 DEF g
<1> HIDE DEF parts
<1>8. \A h : IsKeep(h) <=> IsFold(h, "keep", none, parts)
  BY <1>5 DEF IsFold
<1>9. (CHOOSE h : IsKeep(h))[DOMAIN parts] = kws
  <2> DEFINE g == CHOOSE h : IsKeep(h)
  <2>1. parts \in Seq(Seq(Glyphs)) /\ Goes("keep", none, parts, kws)
    BY <1>4, <1>7
  <2>2. \E h : IsKeep(h)
    <3> HIDE DEF IsKeep
    <3> QED
      BY <2>1, <1>8, FoldExists
  <2>3. IsFold(g, "keep", none, parts)
    <3> HIDE DEF IsKeep
    <3>1. IsKeep(g)
      BY <2>2
    <3> HIDE DEF g
    <3> QED
      BY <1>8, <3>1
  <2> HIDE DEF g
  <2>4. g[DOMAIN parts] = kws
    BY <2>1, <2>3, FoldGoes
  <2> QED
    BY <2>4 DEF g
<1> QED
  BY <1>1, <1>3, <1>9 DEF t

(* What an answer mentions is what occurs in it in lower case.                *)
LEMMA LoweredIs ==
  ASSUME NEW t \in Seq(Glyphs)
  PROVE  /\ Lists!Lower(t) \in Seq(Glyphs) /\ Len(Lists!Lower(t)) = Len(t)
         /\ \A i \in 1..Len(t) : Lists!Lower(t)[i] = IF t[i] = "A" THEN "a" ELSE t[i]
<1> DEFINE n == Len(t)
           f == Lists!Lower(t)
<1>1. n \in Nat /\ DOMAIN t = 1..n /\ \A i \in 1..n : t[i] \in Glyphs
  BY LenProperties
<1>2. f = [i \in 1..n |-> IF t[i] = "A" THEN "a" ELSE t[i]]
  BY <1>1 DEF Lists!Lower
<1>3. "a" \in Glyphs
  BY DEF Glyphs, Lists!Characters
<1> HIDE DEF n, f
<1>4. f = [i \in 1..n |-> f[i]] /\ \A i \in 1..n : f[i] = IF t[i] = "A" THEN "a" ELSE t[i]
  BY <1>2
<1>5. \A i \in 1..n : f[i] \in Glyphs
  BY <1>1, <1>3, <1>4
<1> QED
  BY <1>1, <1>4, <1>5, Tabulated DEF n, f

LEMMA SameLowered ==
  ASSUME NEW c, NEW d
  PROVE  Lists!SameLetter(c, d) <=>
           (IF c = "A" THEN "a" ELSE c) = (IF d = "A" THEN "a" ELSE d)
<1>1. {c, d} = {"a", "A"} <=> (c = "a" /\ d = "A") \/ (c = "A" /\ d = "a")
  <2>1. "a" # "A"
    OBVIOUS
  <2> QED
    BY <2>1
<1> QED
  BY <1>1 DEF Lists!SameLetter

LEMMA MentionedIs ==
  ASSUME output \in Seq(Glyphs), NEW k \in Seq(Glyphs)
  PROVE  Lists!Occurs(Lists!Lower(k), Lists!Lower(output)) <=> Lists!Mentioned(k)
<1> DEFINE p == Lists!Lower(k)
           q == Lists!Lower(output)
           m == Len(k)
           n == Len(output)
<1>1. /\ p \in Seq(Glyphs) /\ Len(p) = m
      /\ \A i \in 1..m : p[i] = IF k[i] = "A" THEN "a" ELSE k[i]
  BY LoweredIs
<1>2. /\ q \in Seq(Glyphs) /\ Len(q) = n
      /\ \A i \in 1..n : q[i] = IF output[i] = "A" THEN "a" ELSE output[i]
  BY LoweredIs
<1>3. m \in Nat /\ n \in Nat /\ DOMAIN k = 1..m
  BY LenProperties
<1>4. Lists!Mentioned(k) <=>
        \E i \in 0..(n - m) : \A j \in 1..m : Lists!SameLetter(k[j], output[i + j])
  BY <1>3 DEF Lists!Mentioned
<1> HIDE DEF p, q, m, n
<1>5. Lists!Occurs(p, q) <=> Agrees(p, q)
  <2>1. Lists!Occurs(p, q) = Match!Occurs(p, q)
    BY Zenon DEF Lists!Occurs, Match!Occurs
  <2> QED
    BY <1>1, <1>2, <2>1, OccursIs
<1>6. Agrees(p, q) <=> \E i \in 0..(n - m) : \A j \in 1..m : q[i + j] = p[j]
  BY <1>1, <1>2 DEF Agrees
<1>7. ASSUME NEW i \in 0..(n - m), NEW j \in 1..m
      PROVE  q[i + j] = p[j] <=> Lists!SameLetter(k[j], output[i + j])
  <2>1. i + j \in 1..n
    BY <1>3
  <2>2. /\ p[j] = IF k[j] = "A" THEN "a" ELSE k[j]
        /\ q[i + j] = IF output[i + j] = "A" THEN "a" ELSE output[i + j]
    BY <1>1, <1>2, <2>1
  <2>3. Lists!SameLetter(k[j], output[i + j]) <=> p[j] = q[i + j]
    BY <2>2, SameLowered
  <2> QED
    BY <2>3
<1>8. Agrees(p, q) <=>
        \E i \in 0..(n - m) : \A j \in 1..m : Lists!SameLetter(k[j], output[i + j])
  BY <1>6, <1>7
<1> QED
  BY <1>4, <1>5, <1>8 DEF p, q

(* The lists and the answers the harness can meet, as far as they are written.*)
WritingInv ==
  /\ form \in {"json", "commas"}
  /\ keywords \in Seq(Seq(Glyphs)) /\ output \in Seq(Glyphs)

LEMMA ReadIsWritten ==
  ASSUME WritingInv, Lists!Listed
  PROVE  /\ Lists!ParseKeywords(Lists!Metadata, IF form = "json" THEN keywords ELSE <<>>)
              = keywords
         /\ Lists!ParseList(Lists!Metadata) = keywords
<1> DEFINE t == Lists!Metadata
           d == IF form = "json" THEN keywords ELSE <<>>
<1>1. keywords # <<>> /\ keywords \in Seq(Seq(Glyphs)) /\ form \in {"json", "commas"}
  BY DEF WritingInv, Lists!Listed
<1>2. CASE form = "json"
  <2>1. t = Lists!Dumped(keywords) /\ d = keywords
    BY <1>2 DEF Lists!Metadata
  <2> HIDE DEF t, d
  <2>2. Lists!ParseKeywords(t, d) = keywords
    BY <1>1, <2>1 DEF Lists!ParseKeywords
  <2>3. Lists!ParseList(Lists!Dumped(keywords)) = keywords
    BY <1>1, DumpedRead DEF Glyphs
  <2> QED
    BY <2>1, <2>2, <2>3 DEF t, d
<1>3. CASE form # "json"
  <2>1. \A i \in 1..Len(keywords) : Plain(keywords[i])
    <3>1. DOMAIN keywords = 1..Len(keywords) /\ form = "commas"
      BY <1>1, <1>3, LenProperties
    <3>2. \A i \in 1..Len(keywords) : DOMAIN keywords[i] = 1..Len(keywords[i])
      <4>1. \A i \in 1..Len(keywords) : keywords[i] \in Seq(Glyphs)
        BY <1>1, ElementOfSeq
      <4> QED
        BY <4>1, LenProperties
    <3> QED
      BY <3>1, <3>2 DEF Lists!Listed, Plain
  <2>2. t = Commas(keywords) /\ d = <<>>
    <3>1. t = Lists!Joined
      BY <1>3 DEF Lists!Metadata
    <3>2. \A i \in DOMAIN keywords :
            (IF i = 1 THEN <<>> ELSE <<"comma", "space">>) \o keywords[i]
              = Separator(i) \o keywords[i]
      BY DEF Separator
    <3> HIDE DEF t
    <3> QED
      BY <1>3, <3>1, Zenon DEF Lists!Joined, Commas, Separator
  <2> HIDE DEF t, d
  <2>3. Lists!CommaSeparated(t) = keywords /\ t \in Seq(Glyphs)
    BY <1>1, <2>1, <2>2, CommasRead
  <2>4. Lists!ParseKeywords(t, d) = keywords
    BY <2>2, <2>3, Zenon DEF Lists!ParseKeywords
  <2>5. Lists!ParseList(t) = keywords
    <3>1. t # <<>> => t[1] # "["
      <4>1. "[" \notin Glyphs
        BY DEF Glyphs, Lists!Characters
      <4>2. t # <<>> => t[1] \in Glyphs
        BY <2>3, EmptySeq
      <4> QED
        BY <4>1, <4>2
    <3> QED
      BY <2>3, <3>1, Zenon DEF Lists!ParseList
  <2> QED
    BY <2>4, <2>5 DEF t, d
<1> QED
  BY <1>2, <1>3

LEMMA VerdictIs ==
  ASSUME WritingInv, keywords # <<>>
  PROVE  Lists!Passed(keywords, output) = \A i \in DOMAIN keywords : Lists!Mentioned(keywords[i])
<1>1. \A i \in DOMAIN keywords : keywords[i] \in Seq(Glyphs)
  BY DEF WritingInv
<1>2. ASSUME NEW i \in DOMAIN keywords
      PROVE  Lists!Occurs(Lists!Lower(keywords[i]), Lists!Lower(output))
               <=> Lists!Mentioned(keywords[i])
  <2> DEFINE k == keywords[i]
  <2>1. k \in Seq(Glyphs) /\ output \in Seq(Glyphs)
    BY <1>1 DEF WritingInv
  <2> HIDE DEF k
  <2>2. Lists!Occurs(Lists!Lower(k), Lists!Lower(output)) <=> Lists!Mentioned(k)
    BY <2>1, MentionedIs
  <2> QED
    BY <2>2 DEF k
<1>3. Lists!Passed(keywords, output) <=>
        \A i \in DOMAIN keywords : Lists!Occurs(Lists!Lower(keywords[i]), Lists!Lower(output))
  BY Zenon DEF Lists!Passed
<1>4. Lists!Passed(keywords, output) <=>
        \A i \in DOMAIN keywords : Lists!Mentioned(keywords[i])
  BY <1>2, <1>3, Zenon
<1>5. Lists!Passed(keywords, output) \in BOOLEAN
  BY Zenon DEF Lists!Passed
<1> QED
  BY <1>4, <1>5, Zenon

(* However many keywords a task lists and however long they are, both         *)
(* evaluators read them back as they were written, in JSON or, without commas *)
(* and blanks at their ends, separated by commas, and pass an answer exactly  *)
(* when it mentions each of them (KeywordEvaluator::parseKeywords,            *)
(* keyword_evaluator.cpp:36-84, and VLMEvaluator::parseList,                  *)
(* vlm_evaluator.cpp:25-71).                                                  *)
THEOREM VerdictsFollow == Lists!Spec => []VerdictsFollowList
<1>1. Lists!Init => WritingInv
  BY EmptySeq DEF Lists!Init, WritingInv
<1>2. WritingInv /\ [Lists!Next]_(Lists!vars) => WritingInv'
  <2> SUFFICES ASSUME WritingInv, [Lists!Next]_(Lists!vars) PROVE WritingInv'
    OBVIOUS
  <2>1. CASE Lists!AddKeyword
    <3>1. keywords' = Append(keywords, <<>>) /\ form' = form /\ output' = output
      BY <2>1 DEF Lists!AddKeyword
    <3>2. <<>> \in Seq(Glyphs)
      BY EmptySeq
    <3>3. Append(keywords, <<>>) \in Seq(Seq(Glyphs))
      BY <3>2, AppendProperties DEF WritingInv
    <3> QED
      BY <3>1, <3>3 DEF WritingInv
  <2>2. ASSUME NEW c \in Lists!Characters, Lists!TypeKeyword(c) PROVE WritingInv'
    <3> DEFINE n == Len(keywords)
               k == Append(keywords[n], c)
    <3>1. /\ keywords # <<>> /\ form' = form /\ output' = output
          /\ keywords' = [keywords EXCEPT ![n] = k]
      BY <2>2 DEF Lists!TypeKeyword
    <3>2. keywords \in Seq(Seq(Glyphs)) /\ n \in 1..Len(keywords)
      BY <3>1, EmptySeq DEF WritingInv
    <3>3. k \in Seq(Glyphs)
      <4>1. keywords[n] \in Seq(Glyphs)
        BY <3>2, ElementOfSeq
      <4>2. c \in Glyphs
        BY DEF Glyphs
      <4> QED
        BY <4>1, <4>2, AppendProperties
    <3> HIDE DEF n, k
    <3>4. [keywords EXCEPT ![n] = k] \in Seq(Seq(Glyphs))
      <4>1. \A s \in Seq(Seq(Glyphs)) : \A i \in 1..Len(s) : \A x \in Seq(Glyphs) :
              [s EXCEPT ![i] = x] \in Seq(Seq(Glyphs))
        BY ExceptSeq
      <4> QED
        BY <3>2, <3>3, <4>1
    <3> QED
      BY <3>1, <3>4 DEF WritingInv
  <2>3. ASSUME NEW c \in Lists!Characters, Lists!TypeOutput(c) PROVE WritingInv'
    <3>1. output' = Append(output, c) /\ form' = form /\ keywords' = keywords
      BY <2>3 DEF Lists!TypeOutput
    <3>2. Append(output, c) \in Seq(Glyphs)
      BY AppendProperties DEF WritingInv, Glyphs
    <3> QED
      BY <3>1, <3>2 DEF WritingInv
  <2>4. CASE UNCHANGED Lists!vars
    BY <2>4 DEF Lists!vars, WritingInv
  <2> QED
    BY <2>1, <2>2, <2>3, <2>4 DEF Lists!Next
<1>3. WritingInv => VerdictsFollowList
  <2> SUFFICES ASSUME WritingInv, Lists!Listed
               PROVE  LET mentioned == \A i \in DOMAIN keywords : Lists!Mentioned(keywords[i])
                          dumped == IF form = "json" THEN keywords ELSE <<>>
                      IN /\ Lists!Passed(Lists!ParseKeywords(Lists!Metadata, dumped), output)
                              = mentioned
                         /\ Lists!Passed(Lists!ParseList(Lists!Metadata), output) = mentioned
    BY Zenon DEF VerdictsFollowList, Lists!VerdictsFollowList
  <2>1. keywords # <<>>
    BY DEF Lists!Listed
  <2> QED
    BY <2>1, ReadIsWritten, VerdictIs, Zenon
<1> QED
  BY <1>1, <1>2, <1>3, PTL DEF Lists!Spec

=============================================================================
