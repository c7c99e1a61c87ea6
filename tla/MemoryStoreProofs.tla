-------------------------- MODULE MemoryStoreProofs --------------------------
(***************************************************************************)
(* Proofs about MemoryStore, for any number of callers, saves, texts and     *)
(* embedding models: what is reported as saved stays, saves are atomic, and  *)
(* searches find what was saved before them.                                 *)
(***************************************************************************)
EXTENDS MemoryStore, FiniteSetTheorems, SequenceTheorems, TLAPS

Places == {"idle", "report"} \cup SaveSteps \cup SearchSteps
Inside == {"insert", "insert_embedding", "commit"}     \* the transaction
Saving == SaveSteps \cup {"report"}

Request == [call : 0..MaxSaves, id : Nat, query : Queries \cup {""}, dims : Dims \cup {0},
            limit : Limits \cup {0}, before : SUBSET (1..MaxSaves)]
SaveRecord == [text : Texts, status : {"running", "saved", "failed", "lost"}, id : Nat,
               dims : Dims \cup {0}]
SearchAnswer == [success : BOOLEAN, by : {"none", "keyword", "semantic"},
                 query : Queries \cup {""}, dims : Dims \cup {0}, limit : Limits \cup {0},
                 before : SUBSET (1..MaxSaves), entries : SUBSET (Nat \ {0})]

CallsType ==
  /\ config \in Configs
  /\ pc \in [Callers -> Places]
  /\ req \in [Callers -> Request]
  /\ saves \in Seq(SaveRecord)
TablesType ==
  /\ memories \in Seq(Row)
  /\ embeddings \subseteq EmbeddingRow
  /\ writer \in Callers \cup {NoCaller}
  /\ tx.memories \in Seq(Row) /\ tx.embeddings \subseteq EmbeddingRow
AnswerType == answer \in SearchAnswer

(* A call of memory_save is running while its caller is in it; its embedding *)
(* is noted in the history as soon as the caller has it, and only callers    *)
(* with an embedder come to it.                                              *)
CallInv(c) ==
  /\ pc[c] \in Saving =>
       req[c].call \in DOMAIN saves /\ saves[req[c].call].status = "running"
  /\ pc[c] \in {"embed", "save"} => saves[req[c].call].dims = 0
  /\ pc[c] \in {"begin"} \cup Inside =>
       req[c].dims \in Dims /\ saves[req[c].call].dims = req[c].dims
  /\ pc[c] \in SearchSteps =>
       req[c].query \in Queries /\ req[c].limit \in Limits /\ req[c].before \subseteq Saved
  /\ pc[c] \in {"embed_query", "similar"} => config.embedder
  /\ pc[c] = "similar" => req[c].dims \in Dims

(* No two callers are in the same call, and there are no more than the bound.*)
OwnCall(c, d) == pc[c] \in Saving /\ pc[d] \in Saving /\ req[c].call = req[d].call => c = d
CallsInv == Len(saves) <= MaxSaves /\ \A c, d \in Callers : OwnCall(c, d)

(* The write lock is held exactly inside a transaction, and the transaction  *)
(* is what is committed and what its caller has inserted so far.             *)
Inserted(c) == Append(memories, NewRow(c))
LockInv(c) ==
  /\ writer = c <=> pc[c] \in Inside
  /\ pc[c] = "insert" => tx = [memories |-> memories, embeddings |-> embeddings]
  /\ pc[c] = "insert_embedding" => tx = [memories |-> Inserted(c), embeddings |-> embeddings]
  /\ pc[c] = "commit" =>
       tx = [memories |-> Inserted(c),
             embeddings |-> embeddings \cup {[memory_id |-> req[c].id, dims |-> req[c].dims]}]
  /\ pc[c] \in {"insert_embedding", "commit"} => req[c].id = Len(memories) + 1

(* A call that has yet to commit has no row, and one that reports has the    *)
(* row it reports.                                                           *)
RowInv(c) ==
  /\ pc[c] \in SaveSteps => \A i \in DOMAIN memories : memories[i].call # req[c].call
  /\ pc[c] = "report" => req[c].id \in DOMAIN memories /\ memories[req[c].id] = NewRow(c)

(* Every row is of a call that was made.                                     *)
RowsInv == \A i \in DOMAIN memories : memories[i].call \in DOMAIN saves

CallerInv(c) == CallInv(c) /\ LockInv(c) /\ RowInv(c)

StoreInv ==
  /\ CallsType /\ TablesType
  /\ CallsInv /\ RowsInv
  /\ \A c \in Callers : CallerInv(c)
  /\ SavesAreAtomic /\ SavedIsDurable

-----------------------------------------------------------------------------
(* What a step of caller c leaves alone: the other callers, the calls that   *)
(* are not its own, the rows there are, and the transaction of another.      *)
OthersKept(c) ==
  /\ config' = config
  /\ \A d \in Callers \ {c} : pc'[d] = pc[d] /\ req'[d] = req[d]
HistoryKept(c) ==
  /\ DOMAIN saves \subseteq DOMAIN saves'
  /\ \A n \in DOMAIN saves : saves'[n] = saves[n] \/ (pc[c] \in Saving /\ n = req[c].call)
  /\ pc[c] \in Saving => saves'[req[c].call].text = saves[req[c].call].text
  /\ pc[c] = "report" => saves'[req[c].call].dims = saves[req[c].call].dims
  /\ pc[c] = "report" => saves'[req[c].call].status # "failed"
  /\ pc[c] \in Saving /\ saves'[req[c].call].status = "saved" =>
       pc[c] = "report" /\ saves'[req[c].call].id = req[c].id
  /\ \A n \in DOMAIN saves' \ DOMAIN saves : saves'[n].status = "running"
RowsKept(c) ==
  /\ \A i \in DOMAIN memories : i \in DOMAIN memories' /\ memories'[i] = memories[i]
  /\ \A i \in DOMAIN memories' \ DOMAIN memories :
       pc[c] \in SaveSteps /\ memories'[i].call = req[c].call
LockKept(c) ==
  \A d \in Callers \ {c} :
    /\ writer' = d <=> writer = d
    /\ writer = d => UNCHANGED <<memories, embeddings, tx>>
Frame(c) == OthersKept(c) /\ HistoryKept(c) /\ RowsKept(c) /\ LockKept(c)

(* So what holds of another caller goes on to.                               *)
LEMMA OthersInv ==
  ASSUME StoreInv, NEW c \in Callers, Frame(c), NEW d \in Callers \ {c}
  PROVE  CallerInv(d)' /\ (OwnCall(c, d)' => OwnCall(d, c)')
<1> USE DEF StoreInv, Frame, OthersKept
<1>1. pc'[d] = pc[d] /\ req'[d] = req[d] /\ config' = config
  OBVIOUS
<1>2. CallInv(d) /\ LockInv(d) /\ RowInv(d)
  BY DEF CallerInv
<1>3. pc[d] \in Saving => req[d].call \in DOMAIN saves /\ saves'[req[d].call] = saves[req[d].call]
  <2>1. pc[c] \in Saving /\ pc[d] \in Saving => req[c].call # req[d].call
    BY DEF CallsInv, OwnCall
  <2> QED
    BY <1>2, <2>1 DEF CallInv, HistoryKept
<1>4. CallInv(d)'
  <2>1. \A n \in Saved : n \in Saved'
    BY DEF Saved, HistoryKept, CallerInv, CallInv
  <2> QED
    BY <1>1, <1>2, <1>3, <2>1 DEF CallInv, HistoryKept, Saving, SaveSteps, Inside
<1>5. LockInv(d)'
  BY <1>1, <1>2, <1>3 DEF LockInv, LockKept, Inserted, NewRow, Inside, Saving, SaveSteps
<1>6. RowInv(d)'
  <2>1. pc[c] \in Saving /\ pc[d] \in Saving => req[c].call # req[d].call
    BY DEF CallsInv, OwnCall
  <2> QED
    BY <1>1, <1>2, <1>3, <2>1 DEF RowInv, RowsKept, NewRow, Saving, SaveSteps
<1> QED
  BY <1>4, <1>5, <1>6 DEF CallerInv, OwnCall

(* Nothing that is reported as saved is lost, whatever a step does.          *)
LEMMA DurableKept ==
  ASSUME StoreInv, NEW c \in Callers, Frame(c)
  PROVE  SavedIsDurable' /\ RowsInv'
<1> USE DEF StoreInv, Frame, CallerInv
<1>1. ASSUME NEW n \in Saved'
      PROVE  saves'[n].id \in DOMAIN memories' /\
             memories'[saves'[n].id] = [text |-> saves'[n].text, call |-> n]
  <2>1. CASE n \in Saved /\ saves'[n] = saves[n]
    BY <2>1 DEF SavedIsDurable, RowsKept
  <2>2. CASE pc[c] = "report" /\ n = req[c].call
    BY <1>1, <2>2 DEF HistoryKept, RowsKept, RowInv, NewRow, Saved, Saving
  <2> QED
    BY <1>1, <2>1, <2>2 DEF HistoryKept, Saved
<1>2. RowsInv'
  BY DEF RowsInv, RowsKept, HistoryKept, CallInv, Saving
<1> QED
  BY <1>1, <1>2 DEF SavedIsDurable

(* A step that leaves the tables alone leaves saves atomic.                  *)
LEMMA AtomicKept ==
  ASSUME StoreInv, NEW c \in Callers, Frame(c), UNCHANGED <<memories, embeddings>>
  PROVE  SavesAreAtomic'
<1> USE DEF StoreInv, Frame, CallerInv
<1>1. \A i \in DOMAIN memories : 
        /\ saves'[memories[i].call].dims = saves[memories[i].call].dims
        /\ saves'[memories[i].call].status # "failed"
  BY DEF RowsInv, RowInv, HistoryKept, SavesAreAtomic, Saving
<1> QED
  BY <1>1 DEF SavesAreAtomic

(* What a caller's row is, and that its id can be noted in its request.      *)
LEMMA RowFacts ==
  ASSUME StoreInv, NEW c \in Callers, pc[c] \in SaveSteps
  PROVE  /\ req[c].call \in DOMAIN saves /\ saves[req[c].call].status = "running"
         /\ NewRow(c) \in Row /\ Inserted(c) \in Seq(Row)
         /\ NewRow(c).call = req[c].call
         /\ DOMAIN Inserted(c) = DOMAIN memories \cup {Len(memories) + 1}
         /\ Len(Inserted(c)) = Len(memories) + 1 /\ Len(memories) \in Nat
         /\ Len(memories) + 1 \notin DOMAIN memories
         /\ Inserted(c)[Len(memories) + 1] = NewRow(c)
         /\ \A i \in DOMAIN memories : Inserted(c)[i] = memories[i]
<1>1. /\ req[c].call \in DOMAIN saves /\ saves[req[c].call].status = "running"
      /\ saves \in Seq(SaveRecord) /\ memories \in Seq(Row) /\ Len(saves) <= MaxSaves
  BY DEF StoreInv, CallerInv, CallInv, Saving, CallsType, TablesType, CallsInv
<1>2. saves[req[c].call] \in SaveRecord /\ req[c].call \in 1..MaxSaves
  BY <1>1, MemoryAssumption
<1>3. NewRow(c) \in Row /\ NewRow(c).call = req[c].call
  BY <1>2 DEF NewRow, Row, SaveRecord
<1> HIDE DEF Row
<1> QED
  BY <1>1, <1>3 DEF Inserted

(* A step that commits one row of its own call, with the embedding if the    *)
(* call has one, leaves saves atomic.                                        *)
LEMMA AtomicExtended ==
  ASSUME StoreInv, NEW c \in Callers, Frame(c), pc[c] \in SaveSteps,
         saves' = saves, memories' = Append(memories, NewRow(c)),
         embeddings' = embeddings \cup
           {[memory_id |-> Len(memories) + 1, dims |-> d] : d \in {saves[req[c].call].dims} \ {0}}
  PROVE  SavesAreAtomic'
<1> USE DEF StoreInv, Frame, CallerInv
<1> DEFINE n == Len(memories) + 1
           call == req[c].call
<1>1. memories \in Seq(Row) /\ call \in DOMAIN saves /\ saves[call].status = "running"
  BY DEF TablesType, CallInv, Saving
<1>2. /\ DOMAIN memories' = DOMAIN memories \cup {n}
      /\ n \notin DOMAIN memories
      /\ memories'[n].call = call
      /\ \A i \in DOMAIN memories : memories'[i] = memories[i] /\ memories[i].call # call
  <2>1. memories' = Inserted(c)
    BY DEF Inserted
  <2>2. \A i \in DOMAIN memories : memories[i].call # call
    BY <1>1 DEF RowInv
  <2> HIDE DEF StoreInv, Frame, CallerInv
  <2>3. DOMAIN Inserted(c) = DOMAIN memories \cup {n} /\ n \notin DOMAIN memories
    BY RowFacts
  <2>4. Inserted(c)[n].call = call /\ \A i \in DOMAIN memories : Inserted(c)[i] = memories[i]
    BY RowFacts
  <2> HIDE DEF n, call
  <2> QED
    BY <2>1, <2>2, <2>3, <2>4
<1> HIDE DEF n, call
<1>3. embeddings' = embeddings \cup
        {[memory_id |-> n, dims |-> d] : d \in {saves[call].dims} \ {0}}
  BY DEF n, call
<1>4. embeddings' = {[memory_id |-> i, dims |-> saves[memories'[i].call].dims] :
                       i \in {i \in DOMAIN memories' : saves[memories'[i].call].dims # 0}}
  BY <1>2, <1>3 DEF SavesAreAtomic
<1> QED
  BY <1>1, <1>2, <1>4 DEF SavesAreAtomic

(* A step keeps the invariant when its own caller's part of it holds after.  *)
LEMMA StepInv ==
  ASSUME StoreInv, NEW c \in Callers, Frame(c), CallsType', TablesType',
         Len(saves') <= MaxSaves, CallerInv(c)', SavesAreAtomic',
         pc'[c] \in Saving => \/ pc[c] \in Saving /\ req'[c].call = req[c].call
                              \/ req'[c].call \notin DOMAIN saves
  PROVE  StoreInv'
<1>1. ASSUME NEW d \in Callers \ {c} PROVE OwnCall(c, d)'
  <2>1. pc[d] \in Saving => req[d].call \in DOMAIN saves
    BY DEF StoreInv, CallerInv, CallInv
  <2>2. pc'[d] = pc[d] /\ req'[d] = req[d]
    BY DEF Frame, OthersKept
  <2> QED
    BY <2>1, <2>2 DEF StoreInv, CallsInv, OwnCall
<1>2. ASSUME NEW d \in Callers, NEW e \in Callers PROVE OwnCall(d, e)'
  <2>1. CASE d = c \/ e = c
    BY <1>1, <2>1, OthersInv DEF OwnCall
  <2>2. CASE d # c /\ e # c
    BY <2>2 DEF StoreInv, Frame, OthersKept, CallsInv, OwnCall
  <2> QED
    BY <2>1, <2>2
<1>3. CallsInv'
  BY <1>2 DEF CallsInv
<1>4. \A d \in Callers : CallerInv(d)'
  BY OthersInv
<1> QED
  BY <1>3, <1>4, DurableKept DEF StoreInv

-----------------------------------------------------------------------------
(* The actions of memory_save.                                               *)

LEMMA StartSaveInv ==
  ASSUME StoreInv, NEW c \in Callers, StartSave(c)
  PROVE  StoreInv'
<1> DEFINE n == Len(saves) + 1
           new == [NoRequest EXCEPT !.call = n]
<1>t. CallsType /\ TablesType /\ CallerInv(c)
  BY DEF StoreInv
<1>1. PICK t \in Texts :
        saves' = Append(saves, [text |-> t, status |-> "running", id |-> 0, dims |-> 0])
  BY DEF StartSave
<1>2. /\ saves' \in Seq(SaveRecord) /\ DOMAIN saves' = DOMAIN saves \cup {n}
      /\ Len(saves') = n /\ n \in 1..MaxSaves /\ n \notin DOMAIN saves
      /\ \A m \in DOMAIN saves : saves'[m] = saves[m]
      /\ saves'[n].status = "running" /\ saves'[n].dims = 0
  BY <1>1, <1>t, MemoryAssumption DEF StartSave, CallsType, SaveRecord
<1>3. /\ pc[c] = "idle" /\ UNCHANGED <<config, memories, embeddings, writer, tx>>
      /\ req' = [req EXCEPT ![c] = new]
      /\ pc' = [pc EXCEPT ![c] = IF config.embedder THEN "embed" ELSE "save"]
  BY <1>2 DEF StartSave, tables, GoTo
<1>4. new \in Request /\ new.call = n
  <2> HIDE DEF n
  <2>1. n \in 0..MaxSaves /\ 0 \in 0..MaxSaves
    BY <1>2, MemoryAssumption
  <2>2. NoRequest \in Request
    BY <2>1 DEF NoRequest, Request
  <2> QED
    BY <2>1, <2>2 DEF Request
<1> HIDE DEF n, new
<1>5. req'[c] = new /\ pc'[c] \in {"embed", "save"} /\ (pc'[c] = "embed" => config.embedder)
  BY <1>3, <1>t DEF CallsType
<1>6. CallsType' /\ TablesType'
  BY <1>2, <1>3, <1>4, <1>t DEF CallsType, TablesType, Places, SaveSteps
<1>7. Frame(c)
  BY <1>2, <1>3, <1>t
  DEF Frame, OthersKept, HistoryKept, RowsKept, LockKept, Saving, SaveSteps, CallsType
<1>8. CallerInv(c)'
  <2>1. \A i \in DOMAIN memories : memories[i].call # n
    BY <1>2 DEF StoreInv, RowsInv
  <2> QED
    BY <1>2, <1>3, <1>4, <1>5, <1>t, <2>1
    DEF CallerInv, CallInv, LockInv, RowInv, Saving, SaveSteps, Inside, SearchSteps
<1> QED
  BY <1>2, <1>3, <1>4, <1>5, <1>6, <1>7, <1>8, <1>t, AtomicKept, StepInv

LEMMA EmbedInv ==
  ASSUME StoreInv, NEW c \in Callers, Embed(c)
  PROVE  StoreInv'
<1> DEFINE n == req[c].call
<1>t. CallsType /\ TablesType /\ CallerInv(c) /\ Len(saves) <= MaxSaves
  BY DEF StoreInv, CallsInv
<1>1. /\ pc[c] = "embed" /\ UNCHANGED <<config, memories, embeddings, writer, tx>>
      /\ n \in DOMAIN saves /\ saves[n].status = "running" /\ saves[n].dims = 0
      /\ req[c] \in Request
  BY <1>t DEF Embed, tables, CallerInv, CallInv, Saving, SaveSteps, CallsType
<1>2. CASE /\ GoTo(c, "begin")
           /\ \E d \in Dims : /\ req' = [req EXCEPT ![c].dims = d]
                              /\ saves' = [saves EXCEPT ![n].dims = d]
  <2>1. PICK d \in Dims : /\ req' = [req EXCEPT ![c].dims = d]
                          /\ saves' = [saves EXCEPT ![n].dims = d]
    BY <1>2
  <2>2. pc' = [pc EXCEPT ![c] = "begin"]
    BY <1>2 DEF GoTo
  <2>3. /\ req' = [req EXCEPT ![c] = [req[c] EXCEPT !.dims = d]]
        /\ [req[c] EXCEPT !.dims = d] \in Request
        /\ req'[c].dims = d /\ req'[c].call = n
    BY <1>t, <1>1, <2>1 DEF Request, CallsType
  <2>4. /\ saves' \in Seq(SaveRecord) /\ DOMAIN saves' = DOMAIN saves /\ Len(saves') = Len(saves)
        /\ \A m \in DOMAIN saves : m # n => saves'[m] = saves[m]
        /\ saves'[n].status = "running" /\ saves'[n].text = saves[n].text /\ saves'[n].dims = d
    <3> DEFINE s == [saves[n] EXCEPT !.dims = d]
    <3>1. saves[n] \in SaveRecord
      BY <1>t, <1>1 DEF CallsType
    <3>2. /\ s \in SaveRecord /\ s.dims = d
          /\ s.status = saves[n].status /\ s.text = saves[n].text
      BY <3>1 DEF SaveRecord
    <3>3. saves' = [saves EXCEPT ![n] = s]
      BY <2>1
    <3> HIDE DEF s, n
    <3> QED
      BY <1>t, <1>1, <3>2, <3>3 DEF CallsType
  <2>5. CallsType' /\ TablesType'
    BY <1>t, <1>1, <2>2, <2>3, <2>4 DEF CallsType, TablesType, Places, SaveSteps
  <2>6. Frame(c)
    BY <1>t, <1>1, <2>2, <2>3, <2>4
    DEF Frame, OthersKept, HistoryKept, RowsKept, LockKept, Saving, SaveSteps, CallsType
  <2>7. pc'[c] = "begin"
    BY <1>t, <2>2 DEF CallsType
  <2>8. CallerInv(c)'
    BY <1>t, <1>1, <2>3, <2>4, <2>7
    DEF CallerInv, CallInv, LockInv, RowInv, Saving, SaveSteps, Inside, SearchSteps, n
  <2> QED
    BY <1>t, <1>1, <2>3, <2>4, <2>5, <2>6, <2>7, <2>8, AtomicKept, StepInv DEF n, Saving, SaveSteps
<1>3. CASE GoTo(c, "save") /\ UNCHANGED <<req, saves>>
  <2>1. pc' = [pc EXCEPT ![c] = "save"] /\ pc'[c] = "save"
    BY <1>3, <1>t DEF GoTo, CallsType
  <2>2. CallsType' /\ TablesType'
    BY <1>t, <1>1, <1>3, <2>1 DEF CallsType, TablesType, Places, SaveSteps
  <2>3. Frame(c)
    BY <1>t, <1>1, <1>3, <2>1
    DEF Frame, OthersKept, HistoryKept, RowsKept, LockKept, Saving, SaveSteps, CallsType
  <2>4. CallerInv(c)'
    BY <1>t, <1>1, <1>3, <2>1
    DEF CallerInv, CallInv, LockInv, RowInv, Saving, SaveSteps, Inside, SearchSteps, Saved
  <2> QED
    BY <1>t, <1>1, <1>3, <2>1, <2>2, <2>3, <2>4, AtomicKept, StepInv DEF Saving, SaveSteps
<1> QED
  BY <1>2, <1>3 DEF Embed

LEMMA SaveInv ==
  ASSUME StoreInv, NEW c \in Callers, Save(c)
  PROVE  StoreInv'
<1>t. CallsType /\ TablesType /\ CallerInv(c) /\ Len(saves) <= MaxSaves
  BY DEF StoreInv, CallsInv
<1>1. /\ pc[c] = "save" /\ UNCHANGED <<config, embeddings, writer, tx, saves>>
      /\ writer = NoCaller /\ memories' = Inserted(c) /\ pc' = [pc EXCEPT ![c] = "report"]
      /\ saves[req[c].call].dims = 0
  BY <1>t DEF Save, Inserted, GoTo, CallerInv, CallInv
<1>s. req[c].call \in DOMAIN saves /\ saves[req[c].call].status = "running"
  BY <1>1, RowFacts DEF SaveSteps
<1>2. pc'[c] = "report"
  BY <1>t, <1>1 DEF CallsType
<1>f. /\ req[c].call \in DOMAIN saves /\ saves[req[c].call].status = "running"
      /\ NewRow(c) \in Row /\ Inserted(c) \in Seq(Row)
      /\ NewRow(c).call = req[c].call
      /\ DOMAIN Inserted(c) = DOMAIN memories \cup {Len(memories) + 1}
      /\ Len(Inserted(c)) = Len(memories) + 1 /\ Len(memories) \in Nat
      /\ Len(memories) + 1 \notin DOMAIN memories
      /\ Inserted(c)[Len(memories) + 1] = NewRow(c)
      /\ \A i \in DOMAIN memories : Inserted(c)[i] = memories[i]
  BY <1>1, RowFacts DEF SaveSteps
<1>3. /\ req' \in [Callers -> Request]
      /\ \A d \in Callers \ {c} : req'[d] = req[d]
      /\ req'[c].id = Len(memories) + 1 /\ req'[c].call = req[c].call
  <2> DEFINE k == Len(memories) + 1
             r == [req[c] EXCEPT !.id = k]
  <2>1. req[c] \in Request /\ k \in Nat
    BY <1>t, <1>f DEF CallsType
  <2>2. r \in Request /\ r.id = k /\ r.call = req[c].call /\ r.dims = req[c].dims
    <3> HIDE DEF k
    <3> QED
      BY <2>1 DEF Request
  <2>3. req' = [req EXCEPT ![c] = r]
    BY <1>1, <1>f DEF Save
  <2> HIDE DEF r
  <2> QED
    BY <1>t, <2>2, <2>3 DEF CallsType
<1>4. CallsType' /\ TablesType'
  BY <1>t, <1>1, <1>3, <1>f DEF CallsType, TablesType, Places
<1>5. Frame(c)
  <2>1. OthersKept(c) /\ HistoryKept(c)
    BY <1>t, <1>1, <1>s, <1>3 DEF OthersKept, HistoryKept, CallsType, Saving, SaveSteps
  <2>2. RowsKept(c)
    BY <1>1, <1>f DEF RowsKept, SaveSteps
  <2>3. LockKept(c)
    BY <1>1, MemoryAssumption DEF LockKept
  <2> QED
    BY <2>1, <2>2, <2>3 DEF Frame
<1>6. CallerInv(c)'
  <2>1. NewRow(c)' = NewRow(c)
    BY <1>1, <1>3 DEF NewRow
  <2> QED
    BY <1>t, <1>1, <1>2, <1>3, <1>f, <2>1
    DEF CallerInv, CallInv, LockInv, RowInv, Saving, SaveSteps, Inside, SearchSteps
<1>7. SavesAreAtomic'
  <2>1. embeddings' = embeddings \cup
          {[memory_id |-> Len(memories) + 1, dims |-> d] : d \in {saves[req[c].call].dims} \ {0}}
    BY <1>1
  <2> QED
    BY <1>1, <1>5, <2>1, AtomicExtended DEF Inserted, SaveSteps
<1> QED
  BY <1>t, <1>1, <1>2, <1>3, <1>4, <1>5, <1>6, <1>7, StepInv DEF Saving, SaveSteps

LEMMA BeginInv ==
  ASSUME StoreInv, NEW c \in Callers, Begin(c)
  PROVE  StoreInv'
<1>t. CallsType /\ TablesType /\ CallerInv(c) /\ Len(saves) <= MaxSaves
  BY DEF StoreInv, CallsInv
<1>1. /\ pc[c] = "begin" /\ UNCHANGED <<config, memories, embeddings, req, saves>>
      /\ writer = NoCaller /\ writer' = c
      /\ tx' = [memories |-> memories, embeddings |-> embeddings]
      /\ pc' = [pc EXCEPT ![c] = "insert"]
  BY DEF Begin, GoTo
<1>s. req[c].call \in DOMAIN saves /\ saves[req[c].call].status = "running"
  BY <1>1, RowFacts DEF SaveSteps
<1>2. pc'[c] = "insert"
  BY <1>t, <1>1 DEF CallsType
<1>4. CallsType' /\ TablesType'
  BY <1>t, <1>1 DEF CallsType, TablesType, Places, SaveSteps
<1>5. Frame(c)
  BY <1>t, <1>1, <1>s, MemoryAssumption
  DEF Frame, OthersKept, HistoryKept, RowsKept, LockKept, Saving, SaveSteps, CallsType
<1>6. CallerInv(c)'
  BY <1>t, <1>1, <1>2
  DEF CallerInv, CallInv, LockInv, RowInv, Saving, SaveSteps, Inside, SearchSteps
<1> QED
  BY <1>t, <1>1, <1>2, <1>4, <1>5, <1>6, AtomicKept, StepInv DEF Saving, SaveSteps

LEMMA InsertMemoryInv ==
  ASSUME StoreInv, NEW c \in Callers, InsertMemory(c)
  PROVE  StoreInv'
<1>t. CallsType /\ TablesType /\ CallerInv(c) /\ Len(saves) <= MaxSaves
  BY DEF StoreInv, CallsInv
<1>1. /\ pc[c] = "insert" /\ UNCHANGED <<config, memories, embeddings, writer, saves>>
      /\ tx = [memories |-> memories, embeddings |-> embeddings]
      /\ tx' = [tx EXCEPT !.memories = Append(tx.memories, NewRow(c))]
      /\ pc' = [pc EXCEPT ![c] = "insert_embedding"] /\ writer = c
  BY <1>t DEF InsertMemory, GoTo, CallerInv, LockInv, Inside
<1>s. req[c].call \in DOMAIN saves /\ saves[req[c].call].status = "running"
  BY <1>1, RowFacts DEF SaveSteps
<1>2. pc'[c] = "insert_embedding"
  BY <1>t, <1>1 DEF CallsType
<1>f. NewRow(c) \in Row /\ Inserted(c) \in Seq(Row)
      /\ Len(Inserted(c)) = Len(memories) + 1 /\ Len(memories) \in Nat
  BY <1>1, RowFacts DEF SaveSteps
<1>u. tx' = [memories |-> Inserted(c), embeddings |-> embeddings]
  BY <1>1 DEF Inserted
<1>3. /\ req' \in [Callers -> Request]
      /\ \A d \in Callers \ {c} : req'[d] = req[d]
      /\ req'[c].id = Len(memories) + 1 /\ req'[c].call = req[c].call
      /\ req'[c].dims = req[c].dims
  <2> DEFINE k == Len(memories) + 1
             r == [req[c] EXCEPT !.id = k]
  <2>1. req[c] \in Request /\ k \in Nat
    BY <1>t, <1>f DEF CallsType
  <2>2. r \in Request /\ r.id = k /\ r.call = req[c].call /\ r.dims = req[c].dims
    <3> HIDE DEF k
    <3> QED
      BY <2>1 DEF Request
  <2>3. req' = [req EXCEPT ![c] = r]
    <3>1. Len(tx'.memories) = k
      BY <1>u, <1>f
    <3> HIDE DEF k
    <3> QED
      BY <3>1 DEF InsertMemory
  <2> HIDE DEF r
  <2> QED
    BY <1>t, <2>2, <2>3 DEF CallsType
<1>4. CallsType' /\ TablesType'
  <2>1. tx'.memories = Inserted(c) /\ tx'.embeddings = embeddings
    BY <1>u
  <2> QED
    BY <1>t, <1>1, <2>1, <1>3, <1>f DEF CallsType, TablesType, Places, SaveSteps
<1>5. Frame(c)
  BY <1>t, <1>1, <1>s, <1>3
  DEF Frame, OthersKept, HistoryKept, RowsKept, LockKept, Saving, SaveSteps, CallsType
<1>6. CallerInv(c)'
  <2>1. Inserted(c)' = Inserted(c)
    BY <1>1, <1>3 DEF Inserted, NewRow
  <2> QED
    BY <1>t, <1>1, <1>u, <1>2, <1>3, <1>f, <2>1, ZenonT(40)
    DEF CallerInv, CallInv, LockInv, RowInv, Saving, SaveSteps, Inside, SearchSteps
<1> QED
  BY <1>t, <1>1, <1>2, <1>3, <1>4, <1>5, <1>6, AtomicKept, StepInv DEF Saving, SaveSteps

LEMMA InsertEmbeddingInv ==
  ASSUME StoreInv, NEW c \in Callers, InsertEmbedding(c)
  PROVE  StoreInv'
<1> DEFINE row == [memory_id |-> req[c].id, dims |-> req[c].dims]
<1>t. CallsType /\ TablesType /\ CallerInv(c) /\ Len(saves) <= MaxSaves
  BY DEF StoreInv, CallsInv
<1>1. /\ pc[c] = "insert_embedding"
      /\ UNCHANGED <<config, memories, embeddings, writer, req, saves>>
      /\ tx = [memories |-> Inserted(c), embeddings |-> embeddings]
      /\ tx' = [tx EXCEPT !.embeddings = @ \cup {row}]
      /\ pc' = [pc EXCEPT ![c] = "commit"] /\ writer = c
      /\ req[c].id = Len(memories) + 1 /\ req[c].dims \in Dims
  BY <1>t DEF InsertEmbedding, GoTo, CallerInv, LockInv, CallInv, Inside
<1>s. req[c].call \in DOMAIN saves /\ saves[req[c].call].status = "running"
  BY <1>1, RowFacts DEF SaveSteps
<1>2. pc'[c] = "commit"
  BY <1>t, <1>1 DEF CallsType
<1>f. Inserted(c) \in Seq(Row) /\ Len(memories) \in Nat
  BY <1>1, RowFacts DEF SaveSteps
<1>r. row \in EmbeddingRow
  BY <1>1, <1>f DEF EmbeddingRow
<1>u. tx' = [memories |-> Inserted(c), embeddings |-> embeddings \cup {row}]
  BY <1>1
<1>4. CallsType' /\ TablesType'
  BY <1>t, <1>1, <1>u, <1>f, <1>r DEF CallsType, TablesType, Places, SaveSteps
<1>5. Frame(c)
  BY <1>t, <1>1, <1>s
  DEF Frame, OthersKept, HistoryKept, RowsKept, LockKept, Saving, SaveSteps, CallsType
<1>6. CallerInv(c)'
  <2>1. Inserted(c)' = Inserted(c)
    BY <1>1 DEF Inserted, NewRow
  <2> QED
    BY <1>t, <1>1, <1>u, <1>2, <1>f, <2>1
    DEF CallerInv, CallInv, LockInv, RowInv, Saving, SaveSteps, Inside, SearchSteps
<1> QED
  BY <1>t, <1>1, <1>2, <1>4, <1>5, <1>6, AtomicKept, StepInv DEF Saving, SaveSteps

LEMMA CommitInv ==
  ASSUME StoreInv, NEW c \in Callers, Commit(c)
  PROVE  StoreInv'
<1> DEFINE row == [memory_id |-> req[c].id, dims |-> req[c].dims]
<1>t. CallsType /\ TablesType /\ CallerInv(c) /\ Len(saves) <= MaxSaves
  BY DEF StoreInv, CallsInv
<1>1. /\ pc[c] = "commit" /\ UNCHANGED <<config, req, saves>>
      /\ tx = [memories |-> Inserted(c), embeddings |-> embeddings \cup {row}]
      /\ memories' = tx.memories /\ embeddings' = tx.embeddings
      /\ tx' = NoTransaction /\ writer' = NoCaller
      /\ pc' = [pc EXCEPT ![c] = "report"] /\ writer = c
      /\ req[c].id = Len(memories) + 1
      /\ req[c].dims \in Dims /\ saves[req[c].call].dims = req[c].dims
  BY <1>t DEF Commit, GoTo, CallerInv, LockInv, CallInv, Inside
<1>s. req[c].call \in DOMAIN saves /\ saves[req[c].call].status = "running"
  BY <1>1, RowFacts DEF SaveSteps
<1>2. pc'[c] = "report"
  BY <1>t, <1>1 DEF CallsType
<1>f. /\ req[c].call \in DOMAIN saves /\ saves[req[c].call].status = "running"
      /\ Inserted(c) \in Seq(Row)
      /\ NewRow(c).call = req[c].call
      /\ DOMAIN Inserted(c) = DOMAIN memories \cup {Len(memories) + 1}
      /\ Len(memories) \in Nat
      /\ Len(memories) + 1 \notin DOMAIN memories
      /\ Inserted(c)[Len(memories) + 1] = NewRow(c)
      /\ \A i \in DOMAIN memories : Inserted(c)[i] = memories[i]
  BY <1>1, RowFacts DEF SaveSteps
<1>u. memories' = Inserted(c) /\ embeddings' = embeddings \cup {row}
  BY <1>1
<1>r. row \in EmbeddingRow
  BY <1>1, <1>f DEF EmbeddingRow
<1>4. CallsType' /\ TablesType'
  <2>1. <<>> \in Seq(Row)
    OBVIOUS
  <2> QED
    BY <1>t, <1>1, <1>u, <1>f, <1>r, <2>1
    DEF CallsType, TablesType, Places, NoTransaction
<1>5. Frame(c)
  <2>1. OthersKept(c) /\ HistoryKept(c)
    BY <1>t, <1>1, <1>s DEF OthersKept, HistoryKept, CallsType, Saving, SaveSteps
  <2>2. RowsKept(c)
    BY <1>1, <1>u, <1>f DEF RowsKept, SaveSteps
  <2>3. LockKept(c)
    BY <1>1, MemoryAssumption DEF LockKept
  <2> QED
    BY <2>1, <2>2, <2>3 DEF Frame
<1>6. CallerInv(c)'
  <2>1. NewRow(c)' = NewRow(c) /\ writer' # c
    BY <1>1, MemoryAssumption DEF NewRow
  <2> QED
    BY <1>t, <1>1, <1>u, <1>2, <1>f, <2>1
    DEF CallerInv, CallInv, LockInv, RowInv, Saving, SaveSteps, Inside, SearchSteps
<1>7. SavesAreAtomic'
  <2>1. {row} = {[memory_id |-> Len(memories) + 1, dims |-> d] :
                    d \in {saves[req[c].call].dims} \ {0}}
    BY <1>1, MemoryAssumption
  <2> QED
    BY <1>1, <1>u, <1>5, <2>1, AtomicExtended DEF Inserted, SaveSteps
<1> QED
  BY <1>t, <1>1, <1>2, <1>4, <1>5, <1>6, <1>7, StepInv DEF Saving, SaveSteps

(* A caller that returns is idle again.                                      *)
LEMMA ReturnFacts ==
  ASSUME CallsType, NEW c \in Callers, Return(c)
  PROVE  /\ pc' \in [Callers -> Places] /\ req' \in [Callers -> Request]
         /\ pc'[c] = "idle"
         /\ \A d \in Callers \ {c} : pc'[d] = pc[d] /\ req'[d] = req[d]
<1>1. NoRequest \in Request
  BY MemoryAssumption DEF NoRequest, Request
<1>2. pc' = [pc EXCEPT ![c] = "idle"] /\ req' = [req EXCEPT ![c] = NoRequest]
  BY DEF Return, GoTo
<1> QED
  BY <1>1, <1>2 DEF CallsType, Places

LEMMA ReportSavedInv ==
  ASSUME StoreInv, NEW c \in Callers, ReportSaved(c)
  PROVE  StoreInv'
<1> DEFINE n == req[c].call
           s == [saves[n] EXCEPT !.status = "saved", !.id = req[c].id]
<1>t. CallsType /\ TablesType /\ CallerInv(c) /\ Len(saves) <= MaxSaves
  BY DEF StoreInv, CallsInv
<1>1. /\ pc[c] = "report" /\ UNCHANGED <<config, memories, embeddings, writer, tx>>
      /\ n \in DOMAIN saves /\ Return(c) /\ req[c] \in Request
  BY <1>t DEF ReportSaved, tables, CallerInv, CallInv, Saving, CallsType
<1>2. saves' = [saves EXCEPT ![n] = s]
  BY <1>t, <1>1 DEF ReportSaved, CallsType
<1>3. /\ s \in SaveRecord /\ s.status = "saved" /\ s.id = req[c].id
      /\ s.text = saves[n].text /\ s.dims = saves[n].dims
  <2>1. saves[n] \in SaveRecord
    <3> HIDE DEF n
    <3> QED
      BY <1>t, <1>1 DEF CallsType
  <2>2. req[c].id \in Nat
    BY <1>1 DEF Request
  <2> QED
    BY <2>1, <2>2 DEF SaveRecord
<1> HIDE DEF n, s
<1>4. /\ saves' \in Seq(SaveRecord) /\ DOMAIN saves' = DOMAIN saves /\ Len(saves') = Len(saves)
      /\ \A m \in DOMAIN saves : m # n => saves'[m] = saves[m]
      /\ saves'[n] = s
  BY <1>t, <1>1, <1>2, <1>3 DEF CallsType
<1>5. /\ pc' \in [Callers -> Places] /\ req' \in [Callers -> Request]
      /\ pc'[c] = "idle"
      /\ \A d \in Callers \ {c} : pc'[d] = pc[d] /\ req'[d] = req[d]
  BY <1>t, <1>1, ReturnFacts
<1>6. CallsType' /\ TablesType'
  BY <1>t, <1>1, <1>4, <1>5 DEF CallsType, TablesType
<1>7. Frame(c)
  BY <1>1, <1>3, <1>4, <1>5
  DEF Frame, OthersKept, HistoryKept, RowsKept, LockKept, Saving, SaveSteps, n
<1>8. CallerInv(c)'
  BY <1>t, <1>1, <1>5
  DEF CallerInv, CallInv, LockInv, RowInv, Saving, SaveSteps, Inside, SearchSteps
<1> QED
  BY <1>t, <1>1, <1>4, <1>5, <1>6, <1>7, <1>8, AtomicKept, StepInv DEF Saving, SaveSteps

LEMMA SaveFailsInv ==
  ASSUME StoreInv, NEW c \in Callers, SaveFails(c)
  PROVE  StoreInv'
<1> DEFINE n == req[c].call
           s == [saves[n] EXCEPT !.status = "failed"]
<1>t. CallsType /\ TablesType /\ CallerInv(c) /\ Len(saves) <= MaxSaves
  BY DEF StoreInv, CallsInv
<1>1. /\ pc[c] \in SaveSteps /\ UNCHANGED <<config, memories, embeddings>>
      /\ n \in DOMAIN saves /\ Return(c) /\ req[c] \in Request
      /\ saves' = [saves EXCEPT ![n].status = "failed"]
  BY <1>t DEF SaveFails, CallerInv, CallInv, Saving, CallsType
<1>w. \/ writer = c /\ writer' = NoCaller /\ tx' = NoTransaction
      \/ writer # c /\ writer' = writer /\ tx' = tx
  BY DEF SaveFails
<1>2. saves' = [saves EXCEPT ![n] = s]
  BY <1>1
<1>3. /\ s \in SaveRecord /\ s.status = "failed"
      /\ s.text = saves[n].text /\ s.dims = saves[n].dims
  <2>1. saves[n] \in SaveRecord
    BY <1>t, <1>1 DEF CallsType
  <2> QED
    BY <2>1 DEF SaveRecord
<1> HIDE DEF n, s
<1>4. /\ saves' \in Seq(SaveRecord) /\ DOMAIN saves' = DOMAIN saves /\ Len(saves') = Len(saves)
      /\ \A m \in DOMAIN saves : m # n => saves'[m] = saves[m]
      /\ saves'[n] = s
  BY <1>t, <1>1, <1>2, <1>3 DEF CallsType
<1>5. /\ pc' \in [Callers -> Places] /\ req' \in [Callers -> Request]
      /\ pc'[c] = "idle"
      /\ \A d \in Callers \ {c} : pc'[d] = pc[d] /\ req'[d] = req[d]
  BY <1>t, <1>1, ReturnFacts
<1>6. CallsType' /\ TablesType'
  <2>1. CallsType'
    BY <1>t, <1>1, <1>4, <1>5 DEF CallsType
  <2>2. tx'.memories \in Seq(Row) /\ tx'.embeddings \subseteq EmbeddingRow
    <3>1. CASE tx' = NoTransaction
      BY <3>1 DEF NoTransaction
    <3>2. CASE tx' = tx
      BY <1>t, <3>2 DEF TablesType
    <3> QED
      BY <1>w, <3>1, <3>2
  <2>3. writer' \in Callers \cup {NoCaller}
    BY <1>t, <1>w DEF TablesType
  <2> QED
    BY <1>t, <1>1, <2>1, <2>2, <2>3 DEF TablesType
<1>7. Frame(c)
  BY <1>1, <1>w, <1>3, <1>4, <1>5, MemoryAssumption
  DEF Frame, OthersKept, HistoryKept, RowsKept, LockKept, Saving, SaveSteps, n
<1>8. CallerInv(c)'
  BY <1>1, <1>w, <1>5, MemoryAssumption
  DEF CallerInv, CallInv, LockInv, RowInv, Saving, SaveSteps, Inside, SearchSteps
<1> QED
  BY <1>t, <1>1, <1>4, <1>5, <1>6, <1>7, <1>8, AtomicKept, StepInv DEF Saving, SaveSteps

-----------------------------------------------------------------------------
(* The actions of memory_search change nothing but their caller's place and  *)
(* request.                                                                  *)
LEMMA SearchStepInv ==
  ASSUME StoreInv, NEW c \in Callers, UNCHANGED <<config, tables, saves>>,
         pc[c] \in SearchSteps \cup {"idle"}, pc'[c] \in SearchSteps \cup {"idle"},
         pc' \in [Callers -> Places], req' \in [Callers -> Request],
         \A d \in Callers \ {c} : pc'[d] = pc[d] /\ req'[d] = req[d],
         CallInv(c)'
  PROVE  StoreInv'
<1>t. CallsType /\ TablesType /\ CallerInv(c) /\ Len(saves) <= MaxSaves
  BY DEF StoreInv, CallsInv
<1>1. CallsType' /\ TablesType'
  BY <1>t DEF CallsType, TablesType, tables
<1>2. Frame(c)
  BY DEF Frame, OthersKept, HistoryKept, RowsKept, LockKept, Saving, SaveSteps, SearchSteps,
         tables
<1>3. CallerInv(c)'
  BY <1>t
  DEF CallerInv, LockInv, RowInv, Saving, SaveSteps, Inside, SearchSteps, tables
<1> QED
  BY <1>t, <1>1, <1>2, <1>3, AtomicKept, StepInv DEF Saving, SaveSteps, SearchSteps, tables

LEMMA StartSearchInv ==
  ASSUME StoreInv, NEW c \in Callers, StartSearch(c)
  PROVE  StoreInv'
<1>t. CallsType
  BY DEF StoreInv
<1>1. PICK q \in Queries, n \in Limits :
        req' = [req EXCEPT ![c] = [NoRequest EXCEPT !.query = q, !.limit = n, !.before = Saved]]
  BY DEF StartSearch
<1> DEFINE r == [NoRequest EXCEPT !.query = q, !.limit = n, !.before = Saved]
<1>2. r \in Request /\ r.query = q /\ r.limit = n /\ r.before = Saved
  <2>1. NoRequest \in Request
    BY MemoryAssumption DEF NoRequest, Request
  <2>2. Saved \in SUBSET (1..MaxSaves)
    BY <1>t, MemoryAssumption DEF Saved, CallsType, StoreInv, CallsInv
  <2> QED
    BY <2>1, <2>2 DEF Request
<1>3. /\ pc[c] = "idle" /\ UNCHANGED <<config, tables, saves>>
      /\ pc' = [pc EXCEPT ![c] = IF config.embedder THEN "embed_query" ELSE "keyword"]
  BY DEF StartSearch, GoTo
<1> HIDE DEF r
<1>4. /\ req' \in [Callers -> Request] /\ req'[c] = r
      /\ \A d \in Callers \ {c} : req'[d] = req[d]
  BY <1>t, <1>1, <1>2 DEF CallsType, r
<1>5. /\ pc' \in [Callers -> Places]
      /\ pc'[c] \in {"embed_query", "keyword"} /\ (pc'[c] = "embed_query" => config.embedder)
      /\ \A d \in Callers \ {c} : pc'[d] = pc[d]
  BY <1>t, <1>3 DEF CallsType, Places, SearchSteps
<1>6. CallInv(c)' /\ pc'[c] \in SearchSteps
  BY <1>2, <1>3, <1>4, <1>5 DEF CallInv, Saving, SaveSteps, Inside, SearchSteps, Saved
<1> QED
  BY <1>3, <1>4, <1>5, <1>6, SearchStepInv

LEMMA EmbedQueryInv ==
  ASSUME StoreInv, NEW c \in Callers, EmbedQuery(c)
  PROVE  StoreInv'
<1>t. CallsType /\ CallInv(c)
  BY DEF StoreInv, CallerInv
<1>1. pc[c] = "embed_query" /\ UNCHANGED <<config, tables, saves>> /\ req[c] \in Request
  BY <1>t DEF EmbedQuery, CallsType
<1>2. CASE GoTo(c, "similar") /\ \E d \in Dims : req' = [req EXCEPT ![c].dims = d]
  <2>1. PICK d \in Dims : req' = [req EXCEPT ![c].dims = d]
    BY <1>2
  <2> DEFINE r == [req[c] EXCEPT !.dims = d]
  <2>2. /\ r \in Request /\ r.dims = d /\ r.query = req[c].query /\ r.limit = req[c].limit
        /\ r.before = req[c].before
    BY <1>1 DEF Request
  <2>3. req' = [req EXCEPT ![c] = r] /\ pc' = [pc EXCEPT ![c] = "similar"]
    BY <1>2, <2>1 DEF GoTo
  <2> HIDE DEF r
  <2>4. /\ req' \in [Callers -> Request] /\ req'[c] = r
        /\ pc' \in [Callers -> Places] /\ pc'[c] = "similar"
        /\ \A d_ \in Callers \ {c} : pc'[d_] = pc[d_] /\ req'[d_] = req[d_]
    BY <1>t, <2>2, <2>3 DEF CallsType, Places, SearchSteps
  <2>5. CallInv(c)'
    BY <1>t, <1>1, <2>2, <2>4 DEF CallInv, Saving, SaveSteps, Inside, SearchSteps, Saved
  <2> QED
    BY <1>1, <2>4, <2>5, SearchStepInv DEF SearchSteps
<1>3. CASE FallBack(c)
  <2>1. /\ req' = req /\ pc' \in [Callers -> Places] /\ pc'[c] = "keyword"
        /\ \A d \in Callers \ {c} : pc'[d] = pc[d]
    BY <1>t, <1>3 DEF FallBack, GoTo, CallsType, Places, SearchSteps
  <2>2. CallInv(c)'
    BY <1>t, <1>1, <2>1 DEF CallInv, Saving, SaveSteps, Inside, SearchSteps, Saved
  <2> QED
    BY <1>t, <1>1, <2>1, <2>2, SearchStepInv DEF SearchSteps, CallsType
<1> QED
  BY <1>2, <1>3 DEF EmbedQuery

(* A search that answers, falls back or fails.                               *)
LEMMA SearchEndInv ==
  ASSUME StoreInv, NEW c \in Callers, SearchSimilar(c) \/ SearchKeyword(c) \/ SearchFails(c)
  PROVE  StoreInv'
<1>t. CallsType /\ CallInv(c)
  BY DEF StoreInv, CallerInv
<1>1. /\ pc[c] \in SearchSteps /\ UNCHANGED <<config, tables, saves>>
      /\ Return(c) \/ (FallBack(c) /\ pc[c] = "similar")
  BY DEF SearchSimilar, SearchKeyword, SearchFails, Answer, SearchSteps
<1>2. CASE Return(c)
  <2>1. /\ pc' \in [Callers -> Places] /\ req' \in [Callers -> Request]
        /\ pc'[c] = "idle"
        /\ \A d \in Callers \ {c} : pc'[d] = pc[d] /\ req'[d] = req[d]
    BY <1>t, <1>2, ReturnFacts
  <2>2. CallInv(c)'
    BY <2>1 DEF CallInv, Saving, SaveSteps, Inside, SearchSteps
  <2> QED
    BY <1>1, <2>1, <2>2, SearchStepInv
<1>3. CASE FallBack(c) /\ pc[c] = "similar"
  <2>1. /\ req' = req /\ pc' \in [Callers -> Places] /\ pc'[c] = "keyword"
        /\ \A d \in Callers \ {c} : pc'[d] = pc[d]
    BY <1>t, <1>3 DEF FallBack, GoTo, CallsType, Places, SearchSteps
  <2>2. CallInv(c)'
    BY <1>t, <1>1, <1>3, <2>1 DEF CallInv, Saving, SaveSteps, Inside, SearchSteps, Saved
  <2> QED
    BY <1>t, <1>1, <2>1, <2>2, SearchStepInv DEF SearchSteps, CallsType
<1> QED
  BY <1>1, <1>2, <1>3

-----------------------------------------------------------------------------
(* After a crash nobody is in a call, and what ran is lost.                  *)
LEMMA CrashInv ==
  ASSUME StoreInv, Crash
  PROVE  StoreInv'
<1>t. CallsType /\ TablesType
  BY DEF StoreInv
<1>1. /\ UNCHANGED <<config, memories, embeddings>>
      /\ writer' = NoCaller /\ tx' = NoTransaction
      /\ pc' = [c \in Callers |-> "idle"] /\ req' = [c \in Callers |-> NoRequest]
      /\ saves' = [n \in DOMAIN saves |->
                     IF saves[n].status = "running" THEN [saves[n] EXCEPT !.status = "lost"]
                     ELSE saves[n]]
  BY DEF Crash
<1>2. \A n \in DOMAIN saves :
        /\ saves'[n] \in SaveRecord
        /\ saves'[n].text = saves[n].text /\ saves'[n].dims = saves[n].dims
        /\ saves'[n].id = saves[n].id
        /\ saves'[n].status = IF saves[n].status = "running" THEN "lost" ELSE saves[n].status
  <2> SUFFICES ASSUME NEW n \in DOMAIN saves
               PROVE  /\ saves'[n] \in SaveRecord
                      /\ saves'[n].text = saves[n].text /\ saves'[n].dims = saves[n].dims
                      /\ saves'[n].id = saves[n].id
                      /\ saves'[n].status = IF saves[n].status = "running" THEN "lost"
                                            ELSE saves[n].status
    OBVIOUS
  <2>1. saves[n] \in SaveRecord
    BY <1>t DEF CallsType
  <2>2. saves'[n] = IF saves[n].status = "running" THEN [saves[n] EXCEPT !.status = "lost"]
                    ELSE saves[n]
    BY <1>1
  <2> QED
    BY <2>1, <2>2 DEF SaveRecord
<1>3. DOMAIN saves' = DOMAIN saves /\ saves' \in Seq(SaveRecord) /\ Len(saves') = Len(saves)
  <2>1. DOMAIN saves = 1..Len(saves) /\ Len(saves) \in Nat
    BY <1>t DEF CallsType
  <2>2. saves' \in [1..Len(saves) -> SaveRecord]
    BY <1>1, <1>2, <2>1
  <2> QED
    BY <2>1, <2>2
<1>4. CallsType' /\ TablesType'
  <2>1. <<>> \in Seq(Row) /\ NoRequest \in Request
    BY MemoryAssumption DEF NoRequest, Request
  <2> QED
    BY <1>t, <1>1, <1>3, <2>1 DEF CallsType, TablesType, Places, NoTransaction
<1>5. CallsInv' /\ RowsInv'
  BY <1>1, <1>3 DEF StoreInv, CallsInv, RowsInv, OwnCall, Saving, SaveSteps
<1>6. \A c \in Callers : CallerInv(c)'
  BY <1>1, MemoryAssumption
  DEF CallerInv, CallInv, LockInv, RowInv, Saving, SaveSteps, Inside, SearchSteps
<1>7. SavesAreAtomic'
  <2>1. \A i \in DOMAIN memories :
          /\ saves'[memories[i].call].dims = saves[memories[i].call].dims
          /\ saves'[memories[i].call].status # "failed"
    BY <1>2 DEF StoreInv, RowsInv, SavesAreAtomic
  <2> QED
    BY <1>1, <2>1 DEF StoreInv, SavesAreAtomic
<1>8. SavedIsDurable'
  <2>1. \A n \in Saved' : n \in Saved
    BY <1>2, <1>3 DEF Saved
  <2>2. \A n \in Saved' : saves'[n].id = saves[n].id /\ saves'[n].text = saves[n].text
    BY <1>2, <2>1 DEF Saved
  <2> QED
    BY <1>1, <2>1, <2>2 DEF StoreInv, SavedIsDurable
<1> QED
  BY <1>4, <1>5, <1>6, <1>7, <1>8 DEF StoreInv

LEMMA InitiallyStoreInv == Init => StoreInv
<1> SUFFICES ASSUME Init PROVE StoreInv
  OBVIOUS
<1>1. <<>> \in Seq(Row) /\ <<>> \in Seq(SaveRecord) /\ NoRequest \in Request
  BY MemoryAssumption DEF NoRequest, Request
<1>2. CallsType /\ TablesType
  BY <1>1 DEF Init, CallsType, TablesType, Places, NoTransaction
<1>3. CallsInv /\ RowsInv /\ SavesAreAtomic /\ SavedIsDurable
  BY MemoryAssumption
  DEF Init, CallsInv, RowsInv, SavesAreAtomic, SavedIsDurable, Saved, OwnCall, Saving, SaveSteps
<1>4. \A c \in Callers : CallerInv(c)
  BY MemoryAssumption
  DEF Init, CallerInv, CallInv, LockInv, RowInv, Saving, SaveSteps, Inside, SearchSteps
<1> QED
  BY <1>2, <1>3, <1>4 DEF StoreInv

(* Every step keeps the invariant.                                           *)
LEMMA NextInv ==
  ASSUME StoreInv, [Next]_vars
  PROVE  StoreInv'
<1>1. ASSUME NEW c \in Callers, StartSave(c) \/ StartSearch(c) \/ CallStep(c)
      PROVE  StoreInv'
  BY <1>1, StartSaveInv, EmbedInv, SaveInv, BeginInv, InsertMemoryInv, InsertEmbeddingInv,
     CommitInv, ReportSavedInv, SaveFailsInv, StartSearchInv, EmbedQueryInv, SearchEndInv
  DEF CallStep
<1>2. CASE UNCHANGED vars
  BY <1>2
  DEF vars, tables, StoreInv, CallsType, TablesType, CallsInv, RowsInv, CallerInv, CallInv,
      LockInv, RowInv, OwnCall, SavesAreAtomic, SavedIsDurable, Saved, Inserted, NewRow
<1> QED
  BY <1>1, <1>2, CrashInv DEF Next

(* The invariant from which the properties follow.                           *)
THEOREM StoreInvariance == Spec => []StoreInv
BY InitiallyStoreInv, NextInv, PTL DEF Spec

(* Whatever memory_save has reported as saved is in the database for good,   *)
(* as it was given, whatever other callers do and whenever the machine stops.*)
THEOREM SavedDurable == Spec => []SavedIsDurable
<1>1. StoreInv => SavedIsDurable
  BY DEF StoreInv
<1> QED
  BY <1>1, StoreInvariance, PTL

(* A memory and its embedding are stored together or not at all, a failed    *)
(* save has stored nothing, and no save is stored twice.                     *)
THEOREM SavesAtomic == Spec => []SavesAreAtomic
<1>1. StoreInv => SavesAreAtomic
  BY DEF StoreInv
<1> QED
  BY <1>1, StoreInvariance, PTL

-----------------------------------------------------------------------------
(* What FirstN selects from a finite set in an order that is strict and      *)
(* total on it.                                                              *)
StrictTotal(S, R) ==
  /\ R \subseteq S \X S
  /\ \A x \in S : <<x, x>> \notin R
  /\ \A x, y, z \in S : <<x, y>> \in R /\ <<y, z>> \in R => <<x, z>> \in R
  /\ \A x, y \in S : x # y => <<x, y>> \in R \/ <<y, x>> \in R

Ahead(S, R, x) == {y \in S : <<y, x>> \in R}
Selected(S, R, n) == {x \in S : Cardinality(Ahead(S, R, x)) < n}

(* Who is ahead has fewer ahead, and nobody has everyone ahead.              *)
LEMMA AheadFacts ==
  ASSUME NEW S, IsFiniteSet(S), NEW R, StrictTotal(S, R)
  PROVE  /\ \A x \in S : Cardinality(Ahead(S, R, x)) \in 0 .. Cardinality(S) - 1
         /\ \A x, y \in S : <<x, y>> \in R =>
              Cardinality(Ahead(S, R, x)) < Cardinality(Ahead(S, R, y))
<1>s. Cardinality(S) \in Nat
  BY FS_CardinalityType
<1>1. ASSUME NEW x \in S PROVE Cardinality(Ahead(S, R, x)) \in 0 .. Cardinality(S) - 1
  <2>1. Ahead(S, R, x) \subseteq S /\ x \in S \ Ahead(S, R, x)
    BY DEF Ahead, StrictTotal
  <2>2. /\ IsFiniteSet(Ahead(S, R, x)) /\ Cardinality(Ahead(S, R, x)) <= Cardinality(S)
        /\ Cardinality(Ahead(S, R, x)) = Cardinality(S) => Ahead(S, R, x) = S
    BY <2>1, FS_Subset
  <2>3. Cardinality(Ahead(S, R, x)) \in Nat
    BY <2>2, FS_CardinalityType
  <2> QED
    BY <1>s, <2>1, <2>2, <2>3
<1>2. ASSUME NEW x \in S, NEW y \in S, <<x, y>> \in R
      PROVE  Cardinality(Ahead(S, R, x)) < Cardinality(Ahead(S, R, y))
  <2>1. Ahead(S, R, x) \subseteq Ahead(S, R, y) /\ x \in Ahead(S, R, y) \ Ahead(S, R, x)
    BY <1>2 DEF Ahead, StrictTotal
  <2>2. IsFiniteSet(Ahead(S, R, y))
    BY FS_Subset DEF Ahead
  <2>3. /\ IsFiniteSet(Ahead(S, R, x))
        /\ Cardinality(Ahead(S, R, x)) <= Cardinality(Ahead(S, R, y))
        /\ Cardinality(Ahead(S, R, x)) = Cardinality(Ahead(S, R, y))
             => Ahead(S, R, x) = Ahead(S, R, y)
    BY <2>1, <2>2, FS_Subset
  <2>4. Cardinality(Ahead(S, R, x)) \in Nat /\ Cardinality(Ahead(S, R, y)) \in Nat
    BY <2>2, <2>3, FS_CardinalityType
  <2> QED
    BY <2>1, <2>3, <2>4
<1> QED
  BY <1>1, <1>2

(* So the numbers of those ahead are exactly 0, 1, ... up to the last.       *)
LEMMA AheadIsRank ==
  ASSUME NEW S, IsFiniteSet(S), NEW R, StrictTotal(S, R)
  PROVE  [x \in S |-> Cardinality(Ahead(S, R, x))] \in Bijection(S, 0 .. Cardinality(S) - 1)
<1> DEFINE T == 0 .. Cardinality(S) - 1
           rank == [x \in S |-> Cardinality(Ahead(S, R, x))]
<1>s. Cardinality(S) \in Nat
  BY FS_CardinalityType
<1>1. /\ \A x \in S : rank[x] \in T
      /\ \A x, y \in S : <<x, y>> \in R => rank[x] < rank[y]
  BY AheadFacts
<1>2. \A x \in S : rank[x] \in Int
  BY <1>1
<1>3. rank \in [S -> T]
  BY <1>1
<1> HIDE DEF rank
<1>4. \A x, y \in S : rank[x] = rank[y] => x = y
  <2> SUFFICES ASSUME NEW x \in S, NEW y \in S, rank[x] = rank[y], x # y PROVE FALSE
    OBVIOUS
  <2>1. <<x, y>> \in R \/ <<y, x>> \in R
    BY DEF StrictTotal
  <2>2. rank[x] < rank[y] \/ rank[y] < rank[x]
    BY <1>1, <2>1
  <2> QED
    BY <1>2, <2>2
<1>5. rank \in Injection(S, T)
  BY <1>3, <1>4 DEF Injection, IsInjective
<1>6. IsFiniteSet(T) /\ Cardinality(T) = Cardinality(S)
  <2>1. IsFiniteSet(T) /\ Cardinality(T) =
          IF 0 > Cardinality(S) - 1 THEN 0 ELSE (Cardinality(S) - 1) - 0 + 1
    <3>1. 0 \in Int /\ Cardinality(S) - 1 \in Int
      BY <1>s
    <3> QED
      BY <3>1, FS_Interval, Zenon
  <2> HIDE DEF T
  <2> DEFINE n == Cardinality(S)
  <2>2. n \in Nat => n = IF 0 > n - 1 THEN 0 ELSE (n - 1) - 0 + 1
    <3> HIDE DEF n
    <3> QED
      OBVIOUS
  <2> QED
    BY <1>s, <2>1, <2>2
<1>7. rank \in Surjection(S, T)
  BY <1>5, <1>6, FS_Injection
<1>8. rank \in Bijection(S, T)
  BY <1>5, <1>7 DEF Bijection
<1> QED
  BY <1>8 DEF rank

(* What is not selected is behind n that are; and something is selected.     *)
LEMMA SelectedFacts ==
  ASSUME NEW S, IsFiniteSet(S), NEW R, StrictTotal(S, R), NEW n \in Nat \ {0}
  PROVE  /\ \A x \in S \ Selected(S, R, n) :
              /\ Cardinality(Selected(S, R, n)) = n
              /\ \A y \in Selected(S, R, n) : <<y, x>> \in R
         /\ S # {} => Selected(S, R, n) # {}
<1> DEFINE T == 0 .. Cardinality(S) - 1
           rank == [x \in S |-> Cardinality(Ahead(S, R, x))]
           first == Selected(S, R, n)
<1>s. Cardinality(S) \in Nat
  BY FS_CardinalityType
<1>1. rank \in Bijection(S, T)
  BY AheadIsRank
<1>2. /\ rank \in [S -> T] /\ \A k \in T : \E x \in S : rank[x] = k
      /\ \A x, y \in S : rank[x] = rank[y] => x = y
  BY <1>1 DEF Bijection, Injection, Surjection, IsInjective
<1>3. \A x, y \in S : <<x, y>> \in R => rank[x] < rank[y]
  BY AheadFacts
<1>4. first = {x \in S : rank[x] < n}
  BY DEF Selected
<1> HIDE DEF rank, first
<1>5. ASSUME NEW x \in S \ first PROVE Cardinality(first) = n
  <2> DEFINE f == [y \in first |-> rank[y]]
  <2>1. rank[x] \in T /\ ~(rank[x] < n)
    BY <1>2, <1>4, <1>5
  <2>2. 0 .. n - 1 \subseteq T /\ \A k \in T : k < n <=> k \in 0 .. n - 1
    BY <1>s, <2>1
  <2>3. f \in [first -> 0 .. n - 1]
    BY <1>2, <1>4, <2>2
  <2>4. \A k \in 0 .. n - 1 : \E y \in first : f[y] = k
    BY <1>2, <1>4, <2>2
  <2>5. \A y, z \in first : f[y] = f[z] => y = z
    BY <1>2, <1>4
  <2>6. f \in Bijection(first, 0 .. n - 1)
    BY <2>3, <2>4, <2>5 DEF Bijection, Injection, Surjection, IsInjective
  <2>7. IsFiniteSet(first)
    BY <1>4, FS_Subset
  <2>8. Cardinality(0 .. n - 1) = Cardinality(first)
    BY <2>6, <2>7, FS_Bijection DEF ExistsBijection
  <2>9. Cardinality(0 .. n - 1) = IF 0 > n - 1 THEN 0 ELSE (n - 1) - 0 + 1
    BY FS_Interval
  <2> QED
    BY <2>8, <2>9
<1>6. ASSUME NEW x \in S \ first, NEW y \in first PROVE <<y, x>> \in R
  <2>1. x \in S /\ y \in S /\ rank[y] < n /\ ~(rank[x] < n) /\ rank[x] \in Int /\ rank[y] \in Int
    BY <1>2, <1>4
  <2>2. x # y /\ ~(rank[x] < rank[y])
    BY <2>1
  <2> QED
    BY <1>3, <2>1, <2>2 DEF StrictTotal
<1>7. ASSUME S # {} PROVE first # {}
  <2>1. PICK x \in S : TRUE
    BY <1>7
  <2>2. 0 \in T
    BY <1>2, <1>s, <2>1
  <2> QED
    BY <1>2, <1>4, <2>2
<1> QED
  BY <1>5, <1>6, <1>7 DEF first
-----------------------------------------------------------------------------
(* What a search returns.                                                    *)

(* Sets of row ids are finite sets of numbers.                               *)
LEMMA RowIds ==
  ASSUME TablesType, NEW S \in SUBSET DOMAIN memories
  PROVE  IsFiniteSet(S) /\ S \in SUBSET (Nat \ {0})
<1>1. DOMAIN memories = 1 .. Len(memories) /\ Len(memories) \in Nat
  BY DEF TablesType
<1>2. IsFiniteSet(1 .. Len(memories))
  BY <1>1, FS_Interval
<1> QED
  BY <1>1, <1>2, FS_Subset

(* A keyword search finds the newest memories that contain the query.        *)
LEMMA KeywordEntriesFacts ==
  ASSUME CallsType, TablesType, NEW q, NEW n \in Nat \ {0}
  PROVE  LET matching == {i \in DOMAIN memories : <<q, memories[i].text>> \in Containing}
             found == KeywordEntries(q, n)
         IN /\ found \subseteq matching
            /\ \A i \in matching \ found :
                 Cardinality(found) = n /\ \A j \in found : j > i
            /\ matching # {} => found # {}
<1> DEFINE S == {i \in DOMAIN memories : <<q, memories[i].text>> \in Containing}
           R == {e \in S \X S : e[1] > e[2]}
           found == KeywordEntries(q, n)
<1>1. S \in SUBSET DOMAIN memories
  OBVIOUS
<1>2. IsFiniteSet(S) /\ S \in SUBSET (Nat \ {0})
  BY <1>1, RowIds
<1> HIDE DEF S
<1>3. \A i, j \in S : <<i, j>> \in R <=> i > j
  OBVIOUS
<1>4. StrictTotal(S, R)
  <2>1. S \subseteq Int
    BY <1>2
  <2>2. /\ \A x \in S : <<x, x>> \notin R
        /\ \A x, y, z \in S : <<x, y>> \in R /\ <<y, z>> \in R => <<x, z>> \in R
        /\ \A x, y \in S : x # y => <<x, y>> \in R \/ <<y, x>> \in R
    <3> HIDE DEF R
    <3> QED
      BY <1>3, <2>1
  <2> QED
    BY <2>2 DEF StrictTotal
<1>5. found = Selected(S, R, n)
  <2>1. \A x \in S : {y \in S : y > x} = Ahead(S, R, x)
    BY <1>3 DEF Ahead
  <2>2. found = {x \in S : Cardinality({y \in S : y > x}) < n}
    BY DEF KeywordEntries, FirstN, S
  <2> QED
    BY <2>1, <2>2 DEF Selected
<1>6. /\ found \subseteq S
      /\ \A x \in S \ found : Cardinality(found) = n /\ \A y \in found : <<y, x>> \in R
      /\ S # {} => found # {}
  BY <1>2, <1>4, <1>5, SelectedFacts DEF Selected
<1>7. \A x \in S \ found : \A y \in found : y > x
  BY <1>6
<1> QED
  BY <1>6, <1>7 DEF S

(* A semantic search finds, of the memories embedded in the query's          *)
(* dimension, those most similar to it.                                      *)
LEMMA SimilarEntriesFacts ==
  ASSUME StoreInv, NEW q \in Queries, NEW d \in Dims, NEW n \in Nat \ {0}
  PROVE  LET embedded == {i \in DOMAIN memories : saves[memories[i].call].dims = d}
             found == SimilarEntries(q, d, n)
         IN /\ found \subseteq embedded
            /\ \A i \in embedded \ found :
                 /\ Cardinality(found) = n
                 /\ \A j \in found : Similarity[q][memories[j].text]
                                       >= Similarity[q][memories[i].text]
<1> DEFINE S == {i \in DOMAIN memories : saves[memories[i].call].dims = d}
           R == {e \in S \X S : MoreSimilar(q, e[1], e[2])}
           found == SimilarEntries(q, d, n)
<1>1. S \in SUBSET DOMAIN memories
  OBVIOUS
<1>2. IsFiniteSet(S) /\ S \in SUBSET (Nat \ {0})
  BY <1>1, RowIds DEF StoreInv
<1>3. {e.memory_id : e \in {e \in embeddings : e.dims = d}} = S
  <2>1. embeddings = {[memory_id |-> i, dims |-> saves[memories[i].call].dims] :
                        i \in {i \in DOMAIN memories : saves[memories[i].call].dims # 0}}
    BY DEF StoreInv, SavesAreAtomic
  <2>2. d # 0
    BY MemoryAssumption
  <2>3. ASSUME NEW e \in embeddings, e.dims = d PROVE e.memory_id \in S
    BY <2>1, <2>3
  <2>4. ASSUME NEW i \in S PROVE \E e \in embeddings : e.dims = d /\ e.memory_id = i
    <3>1. i \in DOMAIN memories /\ saves[memories[i].call].dims = d
      OBVIOUS
    <3>2. [memory_id |-> i, dims |-> d] \in embeddings
      BY <2>1, <2>2, <3>1
    <3> QED
      BY <3>2
  <2> HIDE DEF S
  <2> QED
    BY <2>3, <2>4
<1>4. \A i \in S : Similarity[q][memories[i].text] \in Nat /\ i \in Nat
  <2>1. \A i \in S : memories[i] \in Row
    BY <1>1 DEF StoreInv, TablesType
  <2>2. \A i \in S : memories[i].text \in Texts
    BY <2>1 DEF Row
  <2> QED
    BY <1>2, <2>2, MemoryAssumption
<1> HIDE DEF S
<1>5. \A i, j \in S : <<i, j>> \in R <=> MoreSimilar(q, i, j)
  OBVIOUS
<1>6. StrictTotal(S, R)
  <2>1. /\ \A x \in S : ~MoreSimilar(q, x, x)
        /\ \A x, y, z \in S :
             MoreSimilar(q, x, y) /\ MoreSimilar(q, y, z) => MoreSimilar(q, x, z)
        /\ \A x, y \in S : x # y => MoreSimilar(q, x, y) \/ MoreSimilar(q, y, x)
    BY <1>4 DEF MoreSimilar
  <2> QED
    BY <1>5, <2>1 DEF StrictTotal
<1>7. found = Selected(S, R, n)
  <2>1. \A x \in S : {y \in S : MoreSimilar(q, y, x)} = Ahead(S, R, x)
    BY <1>5 DEF Ahead
  <2>2. found = {x \in S : Cardinality({y \in S : MoreSimilar(q, y, x)}) < n}
    BY <1>3 DEF SimilarEntries, FirstN
  <2> QED
    BY <2>1, <2>2 DEF Selected
<1>8. /\ found \subseteq S
      /\ \A x \in S \ found : Cardinality(found) = n /\ \A y \in found : <<y, x>> \in R
  <2> HIDE DEF R, found
  <2> QED
    BY <1>2, <1>6, <1>7, SelectedFacts DEF Selected
<1>9. \A x \in S \ found : \A y \in found :
        Similarity[q][memories[y].text] >= Similarity[q][memories[x].text]
  <2>1. \A x \in S \ found : \A y \in found : MoreSimilar(q, y, x)
    BY <1>5, <1>8
  <2> QED
    BY <1>4, <1>8, <2>1 DEF MoreSimilar
<1> QED
  BY <1>8, <1>9 DEF S

(* The two steps that answer; every other step answers nothing.              *)
AnswersKeyword(c) ==
  /\ pc[c] = "keyword"
  /\ Answer(c, "keyword", KeywordEntries(req[c].query, req[c].limit))
  /\ UNCHANGED <<config, tables, saves>>
AnswersSemantic(c) ==
  LET found == SimilarEntries(req[c].query, req[c].dims, req[c].limit) IN
  /\ pc[c] = "similar"
  /\ found # {} \/ ~config.fallback
  /\ Answer(c, "semantic", found)
  /\ UNCHANGED <<config, tables, saves>>

LEMMA AnswerSteps ==
  ASSUME Next
  PROVE  Silent \/ \E c \in Callers : AnswersKeyword(c) \/ AnswersSemantic(c)
BY DEF Next, CallStep, StartSave, StartSearch, Embed, Save, Begin, InsertMemory,
       InsertEmbedding, Commit, ReportSaved, SaveFails, EmbedQuery, SearchSimilar,
       SearchKeyword, SearchFails, FallBack, Crash, AnswersKeyword, AnswersSemantic

(* What is known where a search answers.                                     *)
LEMMA SearchFacts ==
  ASSUME StoreInv, NEW c \in Callers, pc[c] \in {"keyword", "similar"}
  PROVE  /\ req[c].query \in Queries /\ req[c].limit \in Limits
         /\ req[c].limit \in Nat \ {0}
         /\ req[c].dims \in Dims \cup {0} /\ req[c].before \in SUBSET (1..MaxSaves)
         /\ pc[c] = "similar" => req[c].dims \in Dims /\ config.embedder
         /\ \A n \in req[c].before :
              /\ n \in Saved /\ n \in DOMAIN saves
              /\ saves[n].id \in DOMAIN memories
              /\ memories[saves[n].id].text = saves[n].text
              /\ memories[saves[n].id].call = n
<1>1. CallInv(c) /\ req[c] \in Request /\ SavedIsDurable
  BY DEF StoreInv, CallerInv, CallsType
<1>2. req[c].dims \in Dims \cup {0} /\ req[c].before \in SUBSET (1..MaxSaves)
  BY <1>1 DEF Request
<1>3. /\ req[c].query \in Queries /\ req[c].limit \in Limits /\ req[c].before \subseteq Saved
      /\ pc[c] = "similar" => req[c].dims \in Dims /\ config.embedder
  BY <1>1 DEF CallInv, SearchSteps
<1>4. req[c].limit \in Nat \ {0}
  BY <1>3, MemoryAssumption
<1>5. ASSUME NEW n \in Saved
      PROVE  /\ n \in DOMAIN saves /\ saves[n].id \in DOMAIN memories
             /\ memories[saves[n].id].text = saves[n].text
             /\ memories[saves[n].id].call = n
  <2>1. /\ saves[n].id \in DOMAIN memories
        /\ memories[saves[n].id] = [text |-> saves[n].text, call |-> n]
    BY <1>1 DEF SavedIsDurable
  <2>2. n \in DOMAIN saves
    BY DEF Saved
  <2> QED
    BY <2>1, <2>2
<1> QED
  BY <1>2, <1>3, <1>4, <1>5

(* Both answers are of the right type and hold what they should.             *)
LEMMA KeywordAnswer ==
  ASSUME StoreInv, NEW c \in Callers, AnswersKeyword(c)
  PROVE  AnswerType' /\ SearchFindsSaved'
<1> DEFINE q == req[c].query
           found == KeywordEntries(q, req[c].limit)
           matching == {i \in DOMAIN memories : <<q, memories[i].text>> \in Containing}
<1>1. /\ UNCHANGED <<config, memories, saves>>
      /\ answer' = [success |-> TRUE, by |-> "keyword", query |-> q,
                    dims |-> req[c].dims, limit |-> req[c].limit,
                    before |-> req[c].before, entries |-> found]
  BY DEF AnswersKeyword, Answer, tables
<1>2. /\ found \subseteq matching
      /\ \A i \in matching \ found :
           Cardinality(found) = req[c].limit /\ \A j \in found : j > i
      /\ matching # {} => found # {}
  BY SearchFacts, KeywordEntriesFacts DEF StoreInv, AnswersKeyword
<1>3. \A n \in req[c].before : Matches(n, q) => saves[n].id \in matching
  BY SearchFacts DEF AnswersKeyword, Matches
<1>4. found \in SUBSET (Nat \ {0})
  <2>1. found \in SUBSET DOMAIN memories
    BY <1>2
  <2> QED
    BY <2>1, RowIds DEF StoreInv
<1>5. AnswerType'
  <2> HIDE DEF found
  <2> QED
    BY <1>1, <1>4, SearchFacts DEF AnswerType, SearchAnswer, AnswersKeyword
<1> HIDE DEF found, matching
<1>6. SearchFindsSaved'
  BY <1>1, <1>2, <1>3 DEF SearchFindsSaved, Matches
<1> QED
  BY <1>5, <1>6

LEMMA SemanticAnswer ==
  ASSUME StoreInv, NEW c \in Callers, AnswersSemantic(c)
  PROVE  AnswerType' /\ SearchFindsSaved'
<1> DEFINE q == req[c].query
           d == req[c].dims
           found == SimilarEntries(q, d, req[c].limit)
           embedded == {i \in DOMAIN memories : saves[memories[i].call].dims = d}
<1>1. /\ UNCHANGED <<config, memories, saves>>
      /\ found # {} \/ ~config.fallback
      /\ answer' = [success |-> TRUE, by |-> "semantic", query |-> q,
                    dims |-> d, limit |-> req[c].limit,
                    before |-> req[c].before, entries |-> found]
  BY DEF AnswersSemantic, Answer, tables
<1>2. /\ found \subseteq embedded
      /\ \A i \in embedded \ found :
           /\ Cardinality(found) = req[c].limit
           /\ \A j \in found : Similarity[q][memories[j].text] >= Similarity[q][memories[i].text]
  BY SearchFacts, SimilarEntriesFacts DEF AnswersSemantic
<1>3. /\ \A n \in req[c].before :
           /\ saves[n].dims = d => saves[n].id \in embedded
           /\ memories[saves[n].id].text = saves[n].text
      /\ config.embedder
  BY SearchFacts DEF AnswersSemantic
<1>4. found \in SUBSET (Nat \ {0})
  <2>1. found \in SUBSET DOMAIN memories
    BY <1>2
  <2> QED
    BY <2>1, RowIds DEF StoreInv
<1>5. AnswerType'
  <2> HIDE DEF found
  <2> QED
    BY <1>1, <1>4, SearchFacts DEF AnswerType, SearchAnswer, AnswersSemantic
<1> HIDE DEF found, embedded
<1>6. SearchFindsSaved'
  BY <1>1, <1>2, <1>3 DEF SearchFindsSaved, Matches
<1> QED
  BY <1>5, <1>6

(* A step that answers nothing makes no claim.                               *)
LEMMA NoAnswerFacts ==
  ASSUME Silent
  PROVE  AnswerType' /\ SearchFindsSaved'
BY MemoryAssumption DEF Silent, NoAnswer, AnswerType, SearchAnswer, SearchFindsSaved

(* Nor does the start, and every step keeps what is proved of the answer.    *)
LEMMA InitiallyNoAnswer == Init => AnswerType /\ SearchFindsSaved
<1> SUFFICES ASSUME Init PROVE AnswerType /\ SearchFindsSaved
  OBVIOUS
<1>1. answer = NoAnswer
  BY DEF Init
<1> QED
  BY <1>1 DEF NoAnswer, AnswerType, SearchAnswer, SearchFindsSaved

LEMMA AnswerInv ==
  ASSUME StoreInv, AnswerType, SearchFindsSaved, [Next]_vars
  PROVE  AnswerType' /\ SearchFindsSaved'
<1>1. CASE UNCHANGED vars
  BY <1>1 DEF vars, tables, AnswerType, SearchFindsSaved, Matches
<1> QED
  BY <1>1, AnswerSteps, KeywordAnswer, SemanticAnswer, NoAnswerFacts

(* Every variable keeps its type.                                            *)
THEOREM TypeCorrect == Spec => []TypeOK
<1>1. Init => AnswerType /\ SearchFindsSaved
  BY InitiallyNoAnswer
<1>2. StoreInv /\ AnswerType => TypeOK
  BY DEF StoreInv, CallsType, TablesType, AnswerType, TypeOK, Places, Request, SaveRecord,
         SearchAnswer
<1> QED
  BY <1>1, <1>2, AnswerInv, StoreInvariance, PTL DEF Spec

(* What was saved before a search began is in its answer, unless the limit   *)
(* is filled with newer or more similar memories; and an answer that falls   *)
(* back to keywords is not empty while a saved memory matches.               *)
THEOREM SearchesFindSaved == Spec => []SearchFindsSaved
<1>1. Init => AnswerType /\ SearchFindsSaved
  BY InitiallyNoAnswer
<1> QED
  BY <1>1, AnswerInv, StoreInvariance, PTL DEF Spec

-----------------------------------------------------------------------------
(* The store as one log (MemoryLog).                                         *)

(* A function on 1..n with one more value is a sequence appended to.         *)
Filled(f, n) == f = [i \in 1..n |-> f[i]]
LEMMA OneMore ==
  ASSUME NEW n \in Nat, NEW f, NEW g, NEW x, Filled(f, n), Filled(g, n + 1),
         \A i \in 1..n : g[i] = f[i], g[n + 1] = x
  PROVE  g = Append(f, x)
<1> DEFINE S == {f[i] : i \in 1..n} \cup {x}
           h == Append(f, x)
<1>1. /\ x \in S /\ \A i \in 1..n : f[i] \in S
      /\ \A i \in 1..n + 1 : i \in 1..n \/ i = n + 1
  OBVIOUS
<1> HIDE DEF S
<1>2. f \in [1..n -> S] /\ g \in [1..n + 1 -> S]
  BY <1>1 DEF Filled
<1>3. f \in Seq(S) /\ Len(f) = n /\ g \in Seq(S) /\ Len(g) = n + 1
  BY <1>2
<1>4. /\ h \in Seq(S) /\ Len(h) = n + 1 /\ h[n + 1] = x
      /\ \A i \in 1..n : h[i] = f[i]
  BY <1>1, <1>3, AppendProperties
<1> HIDE DEF h
<1>5. \A i \in 1..n + 1 : g[i] = h[i]
  BY <1>1, <1>4
<1>6. g = h
  BY <1>3, <1>4, <1>5, SeqEqual
<1> QED
  BY <1>6 DEF h

DimsAt(i) == {e.dims : e \in {e \in embeddings : e.memory_id = i}}
Entry(i) == [text |-> memories[i].text, call |-> memories[i].call, dims |-> DimsAt(i)]
CallAt(n) == [text |-> saves[n].text, status |-> saves[n].status, id |-> saves[n].id]

LEMMA LogIs ==
  ASSUME CallsType, TablesType
  PROVE  /\ Len(memories) \in Nat /\ DOMAIN memories = 1..Len(memories)
         /\ Len(saves) \in Nat /\ DOMAIN saves = 1..Len(saves)
         /\ Entries = [i \in DOMAIN memories |-> Entry(i)]
         /\ Calls = [n \in DOMAIN saves |-> CallAt(n)]
BY DEF CallsType, TablesType, Entries, Entry, DimsAt, Calls, CallAt

(* Every embedding is of a memory.                                           *)
LEMMA EmbeddingsOfRows ==
  ASSUME StoreInv, NEW e \in embeddings
  PROVE  e.memory_id \in DOMAIN memories
BY DEF StoreInv, SavesAreAtomic

LEMMA EntriesKept ==
  ASSUME UNCHANGED <<memories, embeddings>>
  PROVE  Entries' = Entries
BY DEF Entries

LEMMA CallsKept ==
  ASSUME CallsType, TablesType, DOMAIN saves' = DOMAIN saves,
         \A n \in DOMAIN saves : CallAt(n)' = CallAt(n)
  PROVE  Calls' = Calls
<1>1. Calls' = [n \in DOMAIN saves' |-> CallAt(n)']
  BY DEF Calls, CallAt
<1>2. Calls = [n \in DOMAIN saves |-> CallAt(n)]
  BY LogIs
<1> QED
  BY <1>1, <1>2

(* A row committed with its embedding, if it has one, is an entry.           *)
LEMMA EntriesExtended ==
  ASSUME StoreInv, NEW c \in Callers, pc[c] \in SaveSteps, NEW D,
         memories' = Inserted(c),
         embeddings' = embeddings \cup {[memory_id |-> Len(memories) + 1, dims |-> d] : d \in D}
  PROVE  Entries' = Append(Entries, [text |-> NewRow(c).text, dims |-> D, call |-> NewRow(c).call])
<1> DEFINE n == Len(memories)
           g == Entries'
           x == [text |-> NewRow(c).text, dims |-> D, call |-> NewRow(c).call]
           row == NewRow(c)
<1>1. /\ n \in Nat /\ DOMAIN memories = 1..n
      /\ Entries = [i \in 1..n |-> Entry(i)]
  BY LogIs DEF StoreInv
<1>2. /\ DOMAIN memories' = DOMAIN memories \cup {n + 1}
      /\ memories'[n + 1] = row /\ \A i \in DOMAIN memories : memories'[i] = memories[i]
  BY RowFacts
<1>3. \A e \in embeddings : e.memory_id \in 1..n
  BY <1>1, EmbeddingsOfRows
<1>4. embeddings' = embeddings \cup {[memory_id |-> n + 1, dims |-> d] : d \in D}
  OBVIOUS
<1> HIDE DEF n, row
<1>5. \A i : DimsAt(i)' = {e.dims : e \in {e \in embeddings' : e.memory_id = i}}
  BY DEF DimsAt
<1>6. ASSUME NEW i \in 1..n PROVE DimsAt(i)' = DimsAt(i)
  <2>1. i # n + 1
    BY <1>1
  <2>2. {e \in embeddings' : e.memory_id = i} = {e \in embeddings : e.memory_id = i}
    BY <1>4, <2>1
  <2> QED
    BY <1>5, <2>2 DEF DimsAt
<1>7. {e.dims : e \in {e \in embeddings' : e.memory_id = n + 1}} = D
  <2> DEFINE m == n + 1
             E == {e \in embeddings' : e.memory_id = m}
  <2>1. m \notin 1..n
    BY <1>1
  <2>2. \A e \in embeddings : e.memory_id # m
    BY <1>3, <2>1
  <2>3. embeddings' = embeddings \cup {[memory_id |-> m, dims |-> d] : d \in D}
    BY <1>4
  <2> HIDE DEF m
  <2>4. E = {[memory_id |-> m, dims |-> d] : d \in D}
    BY <2>2, <2>3
  <2> HIDE DEF E
  <2>5. {e.dims : e \in E} = D
    <3> DEFINE at(d) == [memory_id |-> m, dims |-> d]
    <3>1. /\ \A d \in D : at(d) \in E
          /\ \A e \in E : \E d \in D : e = at(d)
          /\ \A d : at(d).dims = d
      BY <2>4
    <3> HIDE DEF at
    <3>2. \A e \in E : e.dims \in D
      BY <3>1
    <3>3. \A d \in D : \E e \in E : e.dims = d
      BY <3>1
    <3> QED
      BY <3>2, <3>3
  <2> QED
    BY <2>5 DEF E, m
<1>8. g = [i \in 1..n + 1 |-> [text |-> memories'[i].text, call |-> memories'[i].call,
                              dims |-> DimsAt(i)']]
  <2>1. g = [i \in DOMAIN memories' |-> [text |-> memories'[i].text, call |-> memories'[i].call,
                                         dims |-> DimsAt(i)']]
    BY DEF Entries, DimsAt
  <2>2. DOMAIN memories' = 1..n + 1
    BY <1>1, <1>2
  <2> HIDE DEF g
  <2> QED
    BY <2>1, <2>2
<1> DEFINE f == Entries
<1> HIDE DEF g, f, x
<1>9. f = [i \in 1..n |-> Entry(i)]
  BY <1>1 DEF f
<1>10. f = [i \in 1..n |-> f[i]] /\ g = [i \in 1..n + 1 |-> g[i]]
  BY <1>8, <1>9
<1>11. \A i \in 1..n : g[i] = f[i]
  <2>1. \A i \in 1..n : /\ i \in 1..n + 1 /\ memories'[i] = memories[i]
                        /\ DimsAt(i)' = DimsAt(i)
    BY <1>1, <1>2, <1>6
  <2>2. \A i \in 1..n : g[i] = [text |-> memories[i].text, call |-> memories[i].call,
                                dims |-> DimsAt(i)]
    BY <1>8, <2>1
  <2> QED
    BY <1>9, <2>2 DEF Entry
<1>12. g[n + 1] = x
  <2>1. n + 1 \in 1..n + 1
    BY <1>1
  <2>2. \A i : i = n + 1 => DimsAt(i)' = D
    BY <1>5, <1>7
  <2>3. g[n + 1] = [text |-> row.text, call |-> row.call, dims |-> D]
    BY <1>2, <1>8, <2>1, <2>2
  <2> QED
    BY <2>3 DEF x, row
<1>13. g = Append(f, x)
  <2>1. Filled(f, n) /\ Filled(g, n + 1)
    BY <1>10 DEF Filled
  <2> QED
    BY <1>1, <1>11, <1>12, <2>1, OneMore
<1> QED
  BY <1>13 DEF f, g, x

(* The steps of the log.                                                     *)
LEMMA QuietReply ==
  ASSUME Silent
  PROVE  Log!Quiet
BY DEF Silent, NoAnswer, Reply, Log!Quiet, Log!NoReply

LEMMA ForgetStep ==
  ASSUME Silent, Entries' = Entries, Calls' = Calls
  PROVE  Log!Next
BY QuietReply DEF Log!Forget, Log!Next

(* A running call is one of the log's, and has entered what it has a row for.*)
LEMMA CallRunning ==
  ASSUME StoreInv, NEW c \in Callers, pc[c] \in Saving
  PROVE  /\ req[c].call \in DOMAIN saves /\ DOMAIN Calls = DOMAIN saves
         /\ Log!Running(req[c].call)
         /\ Calls[req[c].call] = CallAt(req[c].call)
         /\ Log!Entered(req[c].call) => \E i \in DOMAIN memories : memories[i].call = req[c].call
<1>1. req[c].call \in DOMAIN saves /\ saves[req[c].call].status = "running"
  BY DEF StoreInv, CallerInv, CallInv
<1>2. /\ Entries = [i \in DOMAIN memories |-> Entry(i)]
      /\ Calls = [n \in DOMAIN saves |-> CallAt(n)]
  BY LogIs DEF StoreInv
<1>3. DOMAIN Calls = DOMAIN saves /\ Calls[req[c].call] = CallAt(req[c].call)
  BY <1>1, <1>2
<1>4. Log!Running(req[c].call)
  BY <1>1, <1>3 DEF Log!Running, CallAt
<1>5. ASSUME Log!Entered(req[c].call)
      PROVE  \E i \in DOMAIN memories : memories[i].call = req[c].call
  BY <1>2, <1>5 DEF Log!Entered, Entry
<1> QED
  BY <1>1, <1>3, <1>4, <1>5

(* A call of memory_save begins.                                             *)
LEMMA StartSaveCalls ==
  ASSUME StoreInv, NEW c \in Callers, StartSave(c)
  PROVE  Log!Next
<1> DEFINE n == Len(saves)
<1>1. PICK t \in Texts :
        saves' = Append(saves, [text |-> t, status |-> "running", id |-> 0, dims |-> 0])
  BY DEF StartSave
<1> DEFINE s == [text |-> t, status |-> "running", id |-> 0, dims |-> 0]
           x == [text |-> t, status |-> "running", id |-> 0]
           f == Calls
           g == Calls'
<1>2. Entries' = Entries /\ Silent
  BY DEF StartSave, tables, Entries
<1>3. n \in Nat /\ DOMAIN saves = 1..n /\ f = [i \in 1..n |-> CallAt(i)]
  BY LogIs DEF StoreInv
<1>4. /\ DOMAIN saves' = 1..n + 1 /\ saves'[n + 1] = s
      /\ \A i \in 1..n : i \in 1..n + 1 /\ saves'[i] = saves[i]
  <2>1. saves \in Seq(SaveRecord) /\ s \in SaveRecord
    BY MemoryAssumption DEF StoreInv, CallsType, SaveRecord
  <2> HIDE DEF s
  <2>2. saves' = Append(saves, s)
    BY <1>1 DEF s
  <2> QED
    BY <2>1, <2>2
<1>5. g = [i \in DOMAIN saves' |-> [text |-> saves'[i].text, status |-> saves'[i].status,
                                    id |-> saves'[i].id]]
  BY DEF Calls
<1> HIDE DEF n, f, g
<1>6. g = [i \in 1..n + 1 |-> [text |-> saves'[i].text, status |-> saves'[i].status,
                               id |-> saves'[i].id]]
  BY <1>4, <1>5
<1>7. /\ \A i \in 1..n : g[i] = f[i]
      /\ g[n + 1] = x
  <2>1. n + 1 \in 1..n + 1
    BY <1>3
  <2> QED
    BY <1>3, <1>4, <1>6, <2>1 DEF CallAt
<1>8. Filled(f, n) /\ Filled(g, n + 1)
  BY <1>3, <1>6 DEF Filled
<1> HIDE DEF s, x
<1>9. g = Append(f, x)
  BY <1>3, <1>7, <1>8, OneMore
<1>10. Log!Call
  BY <1>2, <1>9, QuietReply DEF Log!Call, f, g, x
<1> QED
  BY <1>10 DEF Log!Next

(* An embedding noted in a call of memory_save is not the log's affair yet.  *)
LEMMA EmbedForgets ==
  ASSUME StoreInv, NEW c \in Callers, Embed(c)
  PROVE  Log!Next
<1> DEFINE n == req[c].call
<1>1. Entries' = Entries /\ Silent
  BY DEF Embed, tables, Entries
<1>2. CASE UNCHANGED saves
  <2>1. Calls' = Calls
    BY <1>2 DEF Calls
  <2> QED
    BY <1>1, <2>1, ForgetStep
<1>3. ASSUME NEW d \in Dims, saves' = [saves EXCEPT ![n].dims = d] PROVE Log!Next
  <2>1. CallsType /\ TablesType
    BY DEF StoreInv
  <2>2. saves \in Seq(SaveRecord)
    BY <2>1 DEF CallsType
  <2>3. /\ DOMAIN saves' = DOMAIN saves
        /\ \A i \in DOMAIN saves : saves'[i] = IF i = n THEN [saves[i] EXCEPT !.dims = d]
                                               ELSE saves[i]
    BY <1>3, <2>2
  <2>4. \A i \in DOMAIN saves : saves[i] \in SaveRecord
    BY <2>2
  <2>5. \A i \in DOMAIN saves : /\ saves'[i].text = saves[i].text
                                /\ saves'[i].status = saves[i].status
                                /\ saves'[i].id = saves[i].id
    BY <2>3, <2>4 DEF SaveRecord
  <2>6. \A i \in DOMAIN saves : CallAt(i)' = CallAt(i)
    BY <2>5 DEF CallAt
  <2>7. Calls' = Calls
    BY <2>1, <2>3, <2>6, CallsKept
  <2> QED
    BY <1>1, <2>7, ForgetStep
<1> QED
  BY <1>2, <1>3 DEF Embed

(* The steps that prepare, and those of searches that answer nothing.        *)
LEMMA QuietSteps ==
  ASSUME UNCHANGED <<memories, embeddings, saves>>, Silent
  PROVE  Log!Next
BY ForgetStep DEF Entries, Calls

(* A row that is committed enters the log.                                   *)
LEMMA RowEnters ==
  ASSUME StoreInv, NEW c \in Callers, pc[c] \in SaveSteps, NEW D,
         D = {} \/ \E d \in Dims : D = {d},
         memories' = Inserted(c),
         embeddings' = embeddings \cup {[memory_id |-> Len(memories) + 1, dims |-> d] : d \in D},
         UNCHANGED saves, Silent
  PROVE  Log!Next
<1> DEFINE n == req[c].call
           row == [text |-> NewRow(c).text, dims |-> D, call |-> NewRow(c).call]
<1>1. Entries' = Append(Entries, row)
  BY EntriesExtended
<1>2. /\ n \in DOMAIN Calls /\ Log!Running(n) /\ Calls[n].text = saves[n].text
      /\ ~Log!Entered(n)
  <2>1. pc[c] \in Saving
    BY DEF Saving
  <2>2. \A i \in DOMAIN memories : memories[i].call # n
    BY DEF StoreInv, CallerInv, RowInv
  <2>3. /\ n \in DOMAIN Calls /\ Log!Running(n) /\ Calls[n] = CallAt(n)
        /\ Log!Entered(n) => \E i \in DOMAIN memories : memories[i].call = n
    BY <2>1, CallRunning
  <2>4. CallAt(n).text = saves[n].text
    BY DEF CallAt
  <2> QED
    BY <2>2, <2>3, <2>4
<1>3. row = [text |-> Calls[n].text, dims |-> D, call |-> n]
  BY <1>2 DEF NewRow
<1>4. Calls' = Calls
  BY DEF Calls
<1>5. D \in {{}} \cup {{d} : d \in Dims}
  OBVIOUS
<1> HIDE DEF n, row
<1>6. Log!Enter(n)
  BY <1>1, <1>2, <1>3, <1>4, <1>5, QuietReply DEF Log!Enter
<1> QED
  BY <1>2, <1>6 DEF Log!Next

LEMMA SaveEnters ==
  ASSUME StoreInv, NEW c \in Callers, Save(c)
  PROVE  Log!Next
<1>1. /\ pc[c] \in SaveSteps /\ memories' = Inserted(c)
      /\ UNCHANGED <<embeddings, saves>> /\ Silent
  BY DEF Save, SaveSteps, Inserted
<1>2. embeddings' = embeddings \cup {[memory_id |-> Len(memories) + 1, dims |-> d] : d \in {}}
  BY <1>1
<1> QED
  BY <1>1, <1>2, RowEnters

(* A memory and its embedding enter the log in one step.                     *)
LEMMA CommitEnters ==
  ASSUME StoreInv, NEW c \in Callers, Commit(c)
  PROVE  Log!Next
<1> DEFINE d == req[c].dims
           D == {d}
<1>1. /\ pc[c] = "commit" /\ UNCHANGED saves /\ Silent
      /\ memories' = tx.memories /\ embeddings' = tx.embeddings
  BY DEF Commit
<1>2. /\ tx = [memories |-> Inserted(c),
               embeddings |-> embeddings \cup {[memory_id |-> req[c].id, dims |-> d]}]
      /\ req[c].id = Len(memories) + 1 /\ d \in Dims
  BY <1>1 DEF StoreInv, CallerInv, LockInv, CallInv, Inside
<1>3. /\ pc[c] \in SaveSteps /\ memories' = Inserted(c)
      /\ embeddings' = embeddings \cup {[memory_id |-> Len(memories) + 1, dims |-> e] : e \in D}
  BY <1>1, <1>2 DEF SaveSteps
<1>4. D = {} \/ \E e \in Dims : D = {e}
  BY <1>2
<1> HIDE DEF D
<1> QED
  BY <1>1, <1>3, <1>4, RowEnters

(* Calls with one record changed.                                            *)
LEMMA CallsChanged ==
  ASSUME StoreInv, NEW n \in DOMAIN saves, NEW s, saves' = [saves EXCEPT ![n] = s], NEW x,
         x = [text |-> s.text, status |-> s.status, id |-> s.id]
  PROVE  Calls' = [Calls EXCEPT ![n] = x]
<1>1. Calls = [i \in DOMAIN saves |-> CallAt(i)]
  BY LogIs DEF StoreInv
<1>2. /\ DOMAIN saves' = DOMAIN saves
      /\ \A i \in DOMAIN saves : saves'[i] = IF i = n THEN s ELSE saves[i]
  BY DEF StoreInv, CallsType
<1>3. Calls' = [i \in DOMAIN saves' |-> [text |-> saves'[i].text, status |-> saves'[i].status,
                                         id |-> saves'[i].id]]
  BY DEF Calls
<1>4. Calls' = [i \in DOMAIN saves |-> IF i = n THEN x ELSE CallAt(i)]
  BY <1>2, <1>3 DEF CallAt
<1>5. [Calls EXCEPT ![n] = x] = [i \in DOMAIN saves |-> IF i = n THEN x ELSE CallAt(i)]
  BY <1>1
<1> QED
  BY <1>4, <1>5

(* A report is of the entry that the call made.                              *)
LEMMA ReportSavedReports ==
  ASSUME StoreInv, NEW c \in Callers, ReportSaved(c)
  PROVE  Log!Next
<1> DEFINE n == req[c].call
           i == req[c].id
           s == [saves[n] EXCEPT !.status = "saved", !.id = i]
           x == [Calls[n] EXCEPT !.status = "saved", !.id = i]
<1>1. /\ pc[c] = "report" /\ UNCHANGED <<memories, embeddings>> /\ Silent
      /\ saves' = [saves EXCEPT ![n].status = "saved", ![n].id = i]
  BY DEF ReportSaved, tables
<1>2. /\ n \in DOMAIN saves /\ n \in DOMAIN Calls /\ Log!Running(n) /\ Calls[n] = CallAt(n)
      /\ DOMAIN Calls = DOMAIN saves
  BY <1>1, CallRunning DEF Saving
<1>3. i \in DOMAIN memories /\ memories[i].call = n
  <2>1. i \in DOMAIN memories /\ memories[i] = NewRow(c)
    BY <1>1 DEF StoreInv, CallerInv, RowInv
  <2>2. NewRow(c).call = n
    BY DEF NewRow
  <2> QED
    BY <2>1, <2>2
<1>4. i \in DOMAIN Entries /\ Entries[i].call = n
  BY <1>3, LogIs DEF StoreInv, Entry
<1>5. saves' = [saves EXCEPT ![n] = s]
  BY <1>1, <1>2 DEF StoreInv, CallsType
<1>6. x = [text |-> s.text, status |-> s.status, id |-> s.id]
  <2>1. saves[n] \in SaveRecord
    BY <1>2 DEF StoreInv, CallsType
  <2> HIDE DEF n, i
  <2>2. s.text = saves[n].text /\ s.status = "saved" /\ s.id = i
    BY <2>1 DEF SaveRecord
  <2> HIDE DEF s
  <2> DEFINE R == [text : Texts, status : {"running", "saved", "failed", "lost"}, id : Nat]
             e == Calls[n]
  <2>3. e \in R /\ e.text = saves[n].text
    BY <1>2, <2>1 DEF CallAt, SaveRecord
  <2>i. i \in Nat
    BY <1>3, LogIs DEF StoreInv
  <2> HIDE DEF e
  <2>4. x \in R /\ x.text = e.text /\ x.status = "saved" /\ x.id = i
    BY <2>3, <2>i DEF e
  <2> HIDE DEF x
  <2>5. x = [text |-> saves[n].text, status |-> "saved", id |-> i]
    BY <2>3, <2>4
  <2> QED
    BY <2>2, <2>5
<1>7. Calls' = [Calls EXCEPT ![n] = x]
  <2> HIDE DEF n, s, x
  <2> QED
    BY <1>2, <1>5, <1>6, CallsChanged
<1>8. [Calls EXCEPT ![n] = x] = [Calls EXCEPT ![n].status = "saved", ![n].id = i]
  <2> HIDE DEF n, i
  <2> QED
    BY <1>2
<1>9. Entries' = Entries
  BY <1>1 DEF Entries
<1> HIDE DEF n, i, s, x
<1>10. Log!Report(n)
  BY <1>1, <1>2, <1>4, <1>7, <1>8, <1>9, QuietReply DEF Log!Report
<1> QED
  BY <1>2, <1>10 DEF Log!Next

(* A call that fails has entered nothing: its row is not committed.          *)
LEMMA SaveFailsFails ==
  ASSUME StoreInv, NEW c \in Callers, SaveFails(c)
  PROVE  Log!Next
<1> DEFINE n == req[c].call
           s == [saves[n] EXCEPT !.status = "failed"]
           x == [Calls[n] EXCEPT !.status = "failed"]
<1>1. /\ pc[c] \in SaveSteps /\ UNCHANGED <<memories, embeddings>> /\ Silent
      /\ saves' = [saves EXCEPT ![n].status = "failed"]
  BY DEF SaveFails
<1>2. /\ n \in DOMAIN saves /\ n \in DOMAIN Calls /\ Log!Running(n) /\ Calls[n] = CallAt(n)
      /\ Log!Entered(n) => \E i \in DOMAIN memories : memories[i].call = n
  BY <1>1, CallRunning DEF Saving
<1>3. ~Log!Entered(n)
  BY <1>1, <1>2 DEF StoreInv, CallerInv, RowInv
<1>4. saves' = [saves EXCEPT ![n] = s]
  BY <1>1
<1>5. x = [text |-> s.text, status |-> s.status, id |-> s.id]
  <2>1. saves[n] \in SaveRecord
    BY <1>2 DEF StoreInv, CallsType
  <2> HIDE DEF n
  <2> QED
    BY <1>2, <2>1 DEF CallAt, SaveRecord
<1>6. Calls' = [Calls EXCEPT ![n] = x]
  <2> HIDE DEF n, s, x
  <2> QED
    <3>1. n \in DOMAIN saves
      BY <1>2
    <3> QED
      BY <1>4, <1>5, <3>1, CallsChanged
<1>7. Entries' = Entries
  BY <1>1 DEF Entries
<1>8. Log!Fail(n)
  <2> HIDE DEF n
  <2> QED
    BY <1>1, <1>2, <1>3, <1>6, <1>7, QuietReply DEF Log!Fail
<1> QED
  BY <1>2, <1>8 DEF Log!Next

(* The machine stops.                                                        *)
LEMMA CrashStops ==
  ASSUME StoreInv, Crash
  PROVE  Log!Next
<1>1. /\ UNCHANGED <<memories, embeddings>> /\ Silent
      /\ saves' = [n \in DOMAIN saves |->
                     IF saves[n].status = "running" THEN [saves[n] EXCEPT !.status = "lost"]
                     ELSE saves[n]]
  BY DEF Crash
<1>2. Calls = [n \in DOMAIN saves |-> CallAt(n)] /\ DOMAIN Calls = DOMAIN saves
  BY LogIs DEF StoreInv
<1>3. \A n \in DOMAIN saves : saves[n] \in SaveRecord
  BY DEF StoreInv, CallsType
<1>4. ASSUME NEW n \in DOMAIN saves
      PROVE  [text |-> saves'[n].text, status |-> saves'[n].status, id |-> saves'[n].id] =
               IF Log!Running(n) THEN [Calls[n] EXCEPT !.status = "lost"] ELSE Calls[n]
  <2>1. Calls[n] = CallAt(n) /\ saves[n] \in SaveRecord
    BY <1>2, <1>3
  <2>2. Log!Running(n) <=> saves[n].status = "running"
    BY <2>1 DEF Log!Running, CallAt
  <2>3. saves'[n] = IF Log!Running(n) THEN [saves[n] EXCEPT !.status = "lost"] ELSE saves[n]
    BY <1>1, <2>2
  <2>4. CASE Log!Running(n)
    BY <2>1, <2>3, <2>4 DEF CallAt, SaveRecord
  <2>5. CASE ~Log!Running(n)
    BY <2>1, <2>3, <2>5 DEF CallAt
  <2> QED
    BY <2>4, <2>5
<1>5. Calls' = [n \in DOMAIN saves' |-> [text |-> saves'[n].text, status |-> saves'[n].status,
                                         id |-> saves'[n].id]]
  BY DEF Calls
<1>6. DOMAIN saves' = DOMAIN saves
  BY <1>1
<1>7. Calls' = [n \in DOMAIN Calls |-> IF Log!Running(n) THEN [Calls[n] EXCEPT !.status = "lost"]
                                       ELSE Calls[n]]
  BY <1>2, <1>4, <1>5, <1>6
<1>8. Entries' = Entries
  BY <1>1 DEF Entries
<1>9. Log!Stop
  BY <1>1, <1>7, <1>8, QuietReply DEF Log!Stop
<1> QED
  BY <1>9 DEF Log!Next

(* A search answers from the log as it is.                                   *)
LEMMA SameCount == \A S : Log!Cardinality(S) = Cardinality(S)
BY Zenon DEF Log!Cardinality, Cardinality

LEMMA KeywordsOfLog ==
  ASSUME StoreInv, NEW q, NEW n
  PROVE  Log!ByKeyword(q, n) = KeywordEntries(q, n)
<1> DEFINE S == {i \in DOMAIN memories : <<q, memories[i].text>> \in Containing}
<1>1. Entries = [i \in DOMAIN memories |-> Entry(i)]
  BY LogIs DEF StoreInv
<1>2. {i \in DOMAIN Entries : <<q, Entries[i].text>> \in Containing} = S
  BY <1>1 DEF Entry
<1>3. Log!ByKeyword(q, n) = {i \in S : Log!Cardinality({j \in S : j > i}) < n}
  <2> HIDE DEF S
  <2> QED
    BY <1>2 DEF Log!ByKeyword, Log!Best
<1>4. KeywordEntries(q, n) = {i \in S : Cardinality({j \in S : j > i}) < n}
  <2>1. KeywordEntries(q, n) = FirstN(S, n, LAMBDA i, j : i > j)
    BY DEF KeywordEntries
  <2> HIDE DEF S
  <2> QED
    BY <2>1 DEF FirstN
<1> HIDE DEF S
<1> QED
  BY <1>3, <1>4, SameCount

LEMMA SimilarOfLog ==
  ASSUME StoreInv, NEW q, NEW d \in Dims, NEW n
  PROVE  Log!BySimilarity(q, d, n) = SimilarEntries(q, d, n)
<1> DEFINE S == {e.memory_id : e \in {e \in embeddings : e.dims = d}}
<1>1. Entries = [i \in DOMAIN memories |-> Entry(i)]
  BY LogIs DEF StoreInv
<1>2. {i \in DOMAIN Entries : d \in Entries[i].dims} = S
  <2>1. \A i \in DOMAIN memories :
          d \in Entries[i].dims <=> \E e \in embeddings : e.memory_id = i /\ e.dims = d
    BY <1>1 DEF Entry, DimsAt
  <2>2. \A e \in embeddings : e.memory_id \in DOMAIN memories
    BY EmbeddingsOfRows
  <2> QED
    BY <1>1, <2>1, <2>2
<1>3. S \subseteq DOMAIN memories
  BY EmbeddingsOfRows
<1> HIDE DEF S
<1>4. \A i, j \in S : Log!MoreSimilar(q, i, j) <=> MoreSimilar(q, i, j)
  <2>1. \A i \in S : Entries[i].text = memories[i].text
    BY <1>1, <1>3 DEF Entry
  <2> QED
    BY <2>1 DEF Log!MoreSimilar, MoreSimilar
<1>5. Log!BySimilarity(q, d, n) = {i \in S : Log!Cardinality({j \in S : Log!MoreSimilar(q, j, i)}) < n}
  BY <1>2 DEF Log!BySimilarity, Log!Best
<1>6. SimilarEntries(q, d, n) = {i \in S : Cardinality({j \in S : MoreSimilar(q, j, i)}) < n}
  <2>1. SimilarEntries(q, d, n) = FirstN(S, n, LAMBDA i, j : MoreSimilar(q, i, j))
    BY DEF SimilarEntries, S
  <2> QED
    BY <2>1 DEF FirstN
<1>7. \A i \in S : {j \in S : Log!MoreSimilar(q, j, i)} = {j \in S : MoreSimilar(q, j, i)}
  BY <1>4
<1> QED
  BY <1>5, <1>6, <1>7, SameCount

LEMMA AnswerReplies ==
  ASSUME StoreInv, NEW c \in Callers, pc[c] \in {"keyword", "similar"}, NEW by, NEW found,
         Answer(c, by, found), UNCHANGED <<memories, embeddings, saves>>,
         \/ by = "keyword" /\ found = Log!ByKeyword(req[c].query, req[c].limit)
         \/ by = "semantic" /\ found = Log!BySimilarity(req[c].query, req[c].dims, req[c].limit)
  PROVE  Log!Next
<1> DEFINE q == req[c].query
           d == req[c].dims
           n == req[c].limit
<1>1. q \in Queries /\ d \in Dims \cup {0} /\ n \in Limits
  BY SearchFacts
<1>2. Reply' = [success |-> TRUE, by |-> by, query |-> q, dims |-> d, limit |-> n,
                entries |-> found]
  BY DEF Answer, Reply
<1>3. Entries' = Entries /\ Calls' = Calls
  BY DEF Entries, Calls
<1>4. \/ by = "keyword" /\ found = Log!ByKeyword(q, n)
      \/ by = "semantic" /\ found = Log!BySimilarity(q, d, n)
  OBVIOUS
<1> HIDE DEF q, d, n
<1>5. Log!Search(q, d, n)
  BY <1>2, <1>3, <1>4 DEF Log!Search, Log!Reply
<1> QED
  BY <1>1, <1>5 DEF Log!Next

LEMMA SearchReplies ==
  ASSUME StoreInv, NEW c \in Callers, SearchSimilar(c) \/ SearchKeyword(c)
  PROVE  Log!Next
<1>1. UNCHANGED <<memories, embeddings, saves>>
  BY DEF SearchSimilar, SearchKeyword, tables
<1>2. CASE Silent
  BY <1>1, <1>2, QuietSteps
<1>3. CASE AnswersKeyword(c)
  <2>1. pc[c] = "keyword" /\ Answer(c, "keyword", KeywordEntries(req[c].query, req[c].limit))
    BY <1>3 DEF AnswersKeyword
  <2> QED
    BY <1>1, <2>1, KeywordsOfLog, AnswerReplies
<1>4. CASE AnswersSemantic(c)
  <2>1. /\ pc[c] = "similar"
        /\ Answer(c, "semantic", SimilarEntries(req[c].query, req[c].dims, req[c].limit))
    BY <1>4 DEF AnswersSemantic
  <2>2. req[c].dims \in Dims
    BY <2>1, SearchFacts
  <2> QED
    BY <1>1, <2>1, <2>2, SimilarOfLog, AnswerReplies
<1> QED
  BY <1>2, <1>3, <1>4
  DEF SearchSimilar, SearchKeyword, FallBack, AnswersKeyword, AnswersSemantic

(* Every step is one of the log's, or leaves it alone.                       *)
LEMMA StepOfLog ==
  ASSUME StoreInv, [Next]_vars
  PROVE  [Log!Next]_(Log!vars)
<1>1. ASSUME NEW c \in Callers, StartSave(c) \/ StartSearch(c) \/ CallStep(c)
      PROVE  Log!Next
  <2>1. CASE Begin(c) \/ InsertMemory(c) \/ InsertEmbedding(c) \/ StartSearch(c)
             \/ SearchFails(c)
    <3>1. UNCHANGED <<memories, embeddings, saves>> /\ Silent
      BY <2>1 DEF Begin, InsertMemory, InsertEmbedding, StartSearch, SearchFails, tables
    <3> QED
      BY <3>1, QuietSteps
  <2>2. CASE EmbedQuery(c)
    <3>1. UNCHANGED <<memories, embeddings, saves>> /\ Silent
      BY <2>2 DEF EmbedQuery, FallBack, tables
    <3> QED
      BY <3>1, QuietSteps
  <2> QED
    BY <1>1, <2>1, <2>2, StartSaveCalls, EmbedForgets, SaveEnters, CommitEnters,
       ReportSavedReports, SaveFailsFails, SearchReplies
    DEF CallStep
<1>2. CASE UNCHANGED vars
  BY <1>2 DEF vars, tables, Log!vars, Entries, Calls, Reply
<1> QED
  BY <1>1, <1>2, CrashStops DEF Next

LEMMA InitOfLog == Init => Log!Init
<1> SUFFICES ASSUME Init PROVE Log!Init
  OBVIOUS
<1>1. memories = <<>> /\ embeddings = {} /\ saves = <<>> /\ answer = NoAnswer
  BY DEF Init
<1>2. Entries = <<>> /\ Calls = <<>>
  BY <1>1 DEF Entries, Calls
<1>3. Reply = Log!NoReply
  BY <1>1 DEF Reply, NoAnswer, Log!NoReply
<1> QED
  BY <1>2, <1>3 DEF Log!Init

(* The callers together, whatever the interleaving of their statements,      *)
(* failures and crashes, do what one log of memories does.                   *)
THEOREM LogImplemented == Spec => LogSpec
<1>1. Init => Log!Init
  BY InitOfLog
<1>2. StoreInv /\ [Next]_vars => [Log!Next]_(Log!vars)
  BY StepOfLog
<1>3. Spec => Log!Spec
  BY <1>1, <1>2, StoreInvariance, PTL DEF Spec, Log!Spec
<1> QED
  BY <1>3 DEF LogSpec

=============================================================================
