---------------------------- MODULE MemoryStore -----------------------------
(***************************************************************************)
(* tools/memory_tool.cpp and tools/sqlite_memory_store.cpp: the tools        *)
(* memory_save and memory_search, called by any number of threads or         *)
(* processes that share one SQLite file.  Each operation opens its own       *)
(* connection; between two statements of one caller the others run.          *)
(*                                                                           *)
(* SQLite is external: at most one connection holds the write lock, readers  *)
(* see what is committed, an uncommitted transaction disappears with its     *)
(* connection, and any call may fail (the busy timeout included).            *)
(* Embeddings are reduced to their dimension and to how similar a query is   *)
(* to a text; the tags, searched as the content is, are part of the text.    *)
(* Failing allocations are left out.                                         *)
(***************************************************************************)
EXTENDS Naturals, Sequences, FiniteSets

CONSTANTS
  Callers,       \* threads or processes that execute memory tools
  Texts,         \* contents of memories
  Queries,
  Containing,    \* <<q, t>>: text t contains query q (LIKE)
  Similarity,    \* Similarity[q][t]: cosine similarity, ranked
  Dims,          \* dimensions of the embedding models in use
  Limits,        \* search limits
  Configs,       \* what the tools are configured with
  NoCaller,
  MaxSaves       \* bound: calls of memory_save

ASSUME MemoryAssumption ==
  /\ NoCaller \notin Callers
  /\ Containing \subseteq Queries \X Texts
  /\ Similarity \in [Queries -> [Texts -> Nat]]
  /\ Dims \subseteq Nat \ {0}
  /\ Limits \subseteq Nat \ {0}
  /\ Configs \subseteq [embedder : BOOLEAN, saveAnyway : BOOLEAN, fallback : BOOLEAN]
  /\ MaxSaves \in Nat

VARIABLES
  config,      \* an embedder is given; MemoryToolConfig's two switches
  memories,    \* committed rows of table memories; a row's id is its index
  embeddings,  \* committed rows of table memory_embeddings
  writer,      \* the caller whose connection holds the write lock
  tx,          \* the two tables as the writer sees them
  pc,          \* pc[c]: where caller c is in execute()
  req,         \* req[c]: the locals of its call
  saves,       \* history: every call of memory_save and how it ended
  answer       \* output: what memory_search returned in the latest step

tables == <<memories, embeddings, writer, tx>>
vars == <<config, tables, pc, req, saves, answer>>

NoAnswer == [success |-> FALSE, by |-> "none", query |-> "", dims |-> 0, limit |-> 0,
             before |-> {}, entries |-> {}]
NoRequest == [call |-> 0, id |-> 0, query |-> "", dims |-> 0, limit |-> 0, before |-> {}]

NoTransaction == [memories |-> <<>>, embeddings |-> {}]

Row == [text : Texts, call : 1..MaxSaves]
EmbeddingRow == [memory_id : Nat \ {0}, dims : Dims]
SaveSteps == {"embed", "begin", "insert", "insert_embedding", "commit", "save"}
SearchSteps == {"embed_query", "similar", "keyword"}

TypeOK ==
  /\ config \in Configs
  /\ memories \in Seq(Row)
  /\ embeddings \subseteq EmbeddingRow
  /\ writer \in Callers \cup {NoCaller}
  /\ tx.memories \in Seq(Row) /\ tx.embeddings \subseteq EmbeddingRow
  /\ pc \in [Callers -> {"idle", "report"} \cup SaveSteps \cup SearchSteps]
  /\ req \in [Callers -> [call : 0..MaxSaves, id : Nat, query : Queries \cup {""},
                          dims : Dims \cup {0}, limit : Limits \cup {0},
                          before : SUBSET (1..MaxSaves)]]
  /\ saves \in Seq([text : Texts, status : {"running", "saved", "failed", "lost"},
                    id : Nat, dims : Dims \cup {0}])
  /\ answer \in [success : BOOLEAN, by : {"none", "keyword", "semantic"},
                 query : Queries \cup {""}, dims : Dims \cup {0},
                 limit : Limits \cup {0}, before : SUBSET (1..MaxSaves),
                 entries : SUBSET (Nat \ {0})]

Init ==
  /\ config \in Configs
  /\ memories = <<>> /\ embeddings = {}
  /\ writer = NoCaller
  /\ tx = NoTransaction
  /\ pc = [c \in Callers |-> "idle"]
  /\ req = [c \in Callers |-> NoRequest]
  /\ saves = <<>>
  /\ answer = NoAnswer

Silent == answer' = NoAnswer

GoTo(c, next) == pc' = [pc EXCEPT ![c] = next]

Return(c) ==
  /\ GoTo(c, "idle")
  /\ req' = [req EXCEPT ![c] = NoRequest]

-----------------------------------------------------------------------------
(* MemorySaveTool::execute                                                  *)

StartSave(c) ==
  /\ pc[c] = "idle"
  /\ Len(saves) < MaxSaves
  /\ \E t \in Texts :
       saves' = Append(saves, [text |-> t, status |-> "running", id |-> 0, dims |-> 0])
  /\ req' = [req EXCEPT ![c] = [NoRequest EXCEPT !.call = Len(saves')]]
  /\ GoTo(c, IF config.embedder THEN "embed" ELSE "save")
  /\ UNCHANGED <<config, tables>> /\ Silent

(* The embedder answers, or fails and the memory is saved without (lines    *)
(* 168-184).                                                                *)
Embed(c) ==
  /\ pc[c] = "embed"
  /\ \/ /\ \E d \in Dims :
             /\ req' = [req EXCEPT ![c].dims = d]
             /\ saves' = [saves EXCEPT ![req[c].call].dims = d]
        /\ GoTo(c, "begin")
     \/ /\ config.saveAnyway
        /\ GoTo(c, "save")
        /\ UNCHANGED <<req, saves>>
  /\ UNCHANGED <<config, tables>> /\ Silent

NewRow(c) == [text |-> saves[req[c].call].text, call |-> req[c].call]

(* SqliteMemoryStore::save: one statement, committed by itself.             *)
Save(c) ==
  /\ pc[c] = "save"
  /\ writer = NoCaller
  /\ memories' = Append(memories, NewRow(c))
  /\ req' = [req EXCEPT ![c].id = Len(memories')]
  /\ GoTo(c, "report")
  /\ UNCHANGED <<config, embeddings, writer, tx, saves>> /\ Silent

(* saveWithEmbedding: BEGIN IMMEDIATE, two INSERTs, COMMIT.                 *)
BeginDeferred(c) ==        \* a transaction that takes no write lock yet
  /\ pc[c] = "begin"
  /\ writer' = c
  /\ tx' = [memories |-> memories, embeddings |-> embeddings]
  /\ GoTo(c, "insert")
  /\ UNCHANGED <<config, memories, embeddings, req, saves>> /\ Silent

Begin(c) ==
  /\ pc[c] = "begin"
  /\ writer = NoCaller
  /\ writer' = c
  /\ tx' = [memories |-> memories, embeddings |-> embeddings]
  /\ GoTo(c, "insert")
  /\ UNCHANGED <<config, memories, embeddings, req, saves>> /\ Silent

InsertMemory(c) ==
  /\ pc[c] = "insert"
  /\ tx' = [tx EXCEPT !.memories = Append(@, NewRow(c))]
  /\ req' = [req EXCEPT ![c].id = Len(tx'.memories)]
  /\ GoTo(c, "insert_embedding")
  /\ UNCHANGED <<config, memories, embeddings, writer, saves>> /\ Silent

InsertEmbedding(c) ==
  /\ pc[c] = "insert_embedding"
  /\ tx' = [tx EXCEPT !.embeddings =
              @ \cup {[memory_id |-> req[c].id, dims |-> req[c].dims]}]
  /\ GoTo(c, "commit")
  /\ UNCHANGED <<config, memories, embeddings, writer, req, saves>> /\ Silent

Commit(c) ==
  /\ pc[c] = "commit"
  /\ memories' = tx.memories
  /\ embeddings' = tx.embeddings
  /\ writer' = NoCaller /\ tx' = NoTransaction
  /\ GoTo(c, "report")
  /\ UNCHANGED <<config, req, saves>> /\ Silent

ReportSaved(c) ==
  /\ pc[c] = "report"
  /\ saves' = [saves EXCEPT ![req[c].call].status = "saved",
                            ![req[c].call].id = req[c].id]
  /\ Return(c)
  /\ UNCHANGED <<config, tables>> /\ Silent

SaveFailsCommitting(c) ==   \* what was inserted so far kept on failure
  /\ pc[c] \in SaveSteps
  /\ IF writer = c
       THEN /\ memories' = tx.memories /\ embeddings' = tx.embeddings
            /\ writer' = NoCaller /\ tx' = NoTransaction
       ELSE UNCHANGED tables
  /\ saves' = [saves EXCEPT ![req[c].call].status = "failed"]
  /\ Return(c)
  /\ UNCHANGED config /\ Silent

(* The call fails: an argument is refused, the embedder fails where that is *)
(* not accepted, the database is busy for too long or a statement fails.    *)
(* ~Transaction rolls back.                                                 *)
SaveFails(c) ==
  /\ pc[c] \in SaveSteps
  /\ IF writer = c THEN writer' = NoCaller /\ tx' = NoTransaction
                   ELSE UNCHANGED <<writer, tx>>
  /\ saves' = [saves EXCEPT ![req[c].call].status = "failed"]
  /\ Return(c)
  /\ UNCHANGED <<config, memories, embeddings>> /\ Silent

-----------------------------------------------------------------------------
(* MemorySearchTool::execute                                                *)

(* The first n of S in an order in which every two elements compare.        *)
FirstN(S, n, Precedes(_, _)) ==
  {x \in S : Cardinality({y \in S : Precedes(y, x)}) < n}

(* ORDER BY id DESC LIMIT n                                                 *)
KeywordEntries(q, n) ==
  FirstN({i \in DOMAIN memories : <<q, memories[i].text>> \in Containing}, n,
         LAMBDA i, j : i > j)

MoreSimilar(q, i, j) ==
  LET s == Similarity[q][memories[i].text]
      t == Similarity[q][memories[j].text]
  IN s > t \/ (s = t /\ i > j)

SimilarEntriesTruncated(q, d, n) ==   \* the newest n, then sorted
  FirstN({e.memory_id : e \in {e \in embeddings : e.dims = d}}, n, LAMBDA i, j : i > j)

(* Rows of another dimension are skipped (lines 391-407).                   *)
SimilarEntries(q, d, n) ==
  FirstN({e.memory_id : e \in {e \in embeddings : e.dims = d}}, n,
         LAMBDA i, j : MoreSimilar(q, i, j))

Saved == {n \in DOMAIN saves : saves[n].status = "saved"}

StartSearch(c) ==
  /\ pc[c] = "idle"
  /\ \E q \in Queries, n \in Limits :
       req' = [req EXCEPT ![c] =
                 [NoRequest EXCEPT !.query = q, !.limit = n, !.before = Saved]]
  /\ GoTo(c, IF config.embedder THEN "embed_query" ELSE "keyword")
  /\ UNCHANGED <<config, tables, saves>> /\ Silent

Answer(c, by, entries) ==
  /\ answer' = [success |-> TRUE, by |-> by, query |-> req[c].query,
                dims |-> req[c].dims, limit |-> req[c].limit,
                before |-> req[c].before, entries |-> entries]
  /\ Return(c)

(* Where a semantic search gave nothing: keywords, if that is configured.   *)
FallBack(c) == config.fallback /\ GoTo(c, "keyword") /\ UNCHANGED <<req>> /\ Silent

EmbedQuery(c) ==
  /\ pc[c] = "embed_query"
  /\ \/ /\ \E d \in Dims : req' = [req EXCEPT ![c].dims = d]
        /\ GoTo(c, "similar")
        /\ Silent
     \/ FallBack(c)
  /\ UNCHANGED <<config, tables, saves>>

SearchSimilar(c) ==
  /\ pc[c] = "similar"
  /\ LET found == SimilarEntries(req[c].query, req[c].dims, req[c].limit) IN
       \/ (found # {} \/ ~config.fallback) /\ Answer(c, "semantic", found)
       \/ FallBack(c)      \* found nothing, or the store failed
  /\ UNCHANGED <<config, tables, saves>>

SearchKeyword(c) ==
  /\ pc[c] = "keyword"
  /\ Answer(c, "keyword", KeywordEntries(req[c].query, req[c].limit))
  /\ UNCHANGED <<config, tables, saves>>

(* The embedder throws, or an error value is met and no fallback is left.   *)
SearchFails(c) ==
  /\ pc[c] \in SearchSteps
  /\ pc[c] \in {"embed_query", "keyword"} \/ ~config.fallback
  /\ Return(c)
  /\ UNCHANGED <<config, tables, saves>> /\ Silent

-----------------------------------------------------------------------------
(* The machine stops: connections are gone and what is committed stays.     *)
Crash ==
  /\ \E c \in Callers : pc[c] # "idle"
  /\ writer' = NoCaller /\ tx' = NoTransaction
  /\ pc' = [c \in Callers |-> "idle"]
  /\ req' = [c \in Callers |-> NoRequest]
  /\ saves' = [n \in DOMAIN saves |->
                 IF saves[n].status = "running" THEN [saves[n] EXCEPT !.status = "lost"]
                 ELSE saves[n]]
  /\ UNCHANGED <<config, memories, embeddings>> /\ Silent

CallStep(c) ==
  \/ Embed(c) \/ Save(c) \/ Begin(c) \/ InsertMemory(c) \/ InsertEmbedding(c)
  \/ Commit(c) \/ ReportSaved(c) \/ SaveFails(c)
  \/ EmbedQuery(c) \/ SearchSimilar(c) \/ SearchKeyword(c) \/ SearchFails(c)

Next ==
  \/ \E c \in Callers : StartSave(c) \/ StartSearch(c) \/ CallStep(c)
  \/ Crash

Spec == Init /\ [][Next]_vars

-----------------------------------------------------------------------------
(* "Saved memory with id N.": from then on row N is that memory, whatever   *)
(* other callers insert, roll back or whenever the machine stops.           *)
SavedIsDurable ==
  \A n \in Saved :
    /\ saves[n].id \in DOMAIN memories
    /\ memories[saves[n].id] = [text |-> saves[n].text, call |-> n]

(* "SQLite should atomically persist memories and embeddings"               *)
(* (tests/tool_tests.cpp:472): at every moment, also after a crash, a       *)
(* memory saved with an embedding has exactly its own in the other table.   *)
(* A save that is reported as failed has stored nothing, so that calling    *)
(* memory_save again does not store the memory twice; and no call stores    *)
(* two rows.                                                                *)
SavesAreAtomic ==
  /\ embeddings = {[memory_id |-> i, dims |-> saves[memories[i].call].dims] :
                     i \in {i \in DOMAIN memories : saves[memories[i].call].dims # 0}}
  /\ \A i \in DOMAIN memories : saves[memories[i].call].status # "failed"
  /\ \A i, j \in DOMAIN memories : memories[i].call = memories[j].call => i = j

Matches(n, q) == <<q, saves[n].text>> \in Containing

(* A keyword answer, whichever way the tool came to it, holds every memory  *)
(* saved before the search began that contains the query, or else limit     *)
(* newer ones; and no answer is empty while there is such a memory, unless  *)
(* keyword search is switched off.  A semantic answer leaves out a memory    *)
(* embedded before the search began, in the query's dimension, only for     *)
(* limit others at least as similar.                                        *)
SearchFindsSaved ==
  answer.success =>
    \A n \in answer.before :
      LET found == saves[n].id \in answer.entries
          full == Cardinality(answer.entries) = answer.limit
      IN /\ Matches(n, answer.query) =>
              /\ answer.by = "keyword" =>
                   \/ found
                   \/ full /\ (\A i \in answer.entries : i > saves[n].id)
              /\ config.fallback \/ ~config.embedder => answer.entries # {}
         /\ answer.by = "semantic" /\ saves[n].dims = answer.dims =>
              \/ found
              \/ /\ full
                 /\ \A i \in answer.entries :
                      Similarity[answer.query][memories[i].text]
                        >= Similarity[answer.query][saves[n].text]

(* "Embedding unavailable; saved for keyword search only."                  *)
(* (memory_tool.cpp:196): memory_search, with its keyword fallback, finds   *)
(* such a memory by a word it contains, if its limit leaves room for it.    *)
KeywordOnlyIsFound ==
  answer.success /\ config.fallback =>
    \A n \in answer.before : saves[n].dims = 0 /\ Matches(n, answer.query) =>
      saves[n].id \in answer.entries \/ Cardinality(answer.entries) = answer.limit

(* The store as a log (MemoryLog).                                          *)
Entries ==
  [i \in DOMAIN memories |->
     [text |-> memories[i].text, call |-> memories[i].call,
      dims |-> {e.dims : e \in {e \in embeddings : e.memory_id = i}}]]
Calls ==
  [n \in DOMAIN saves |->
     [text |-> saves[n].text, status |-> saves[n].status, id |-> saves[n].id]]
Reply ==
  [success |-> answer.success, by |-> answer.by, query |-> answer.query,
   dims |-> answer.dims, limit |-> answer.limit, entries |-> answer.entries]

Log == INSTANCE MemoryLog WITH log <- Entries, calls <- Calls, reply <- Reply

(* The callers together do what one log of memories does, whatever the       *)
(* interleaving of their statements, failures and crashes: a memory and its  *)
(* embedding, rows of two tables, appear in one step, never change or        *)
(* disappear, failed calls have entered nothing, a reported id is that of    *)
(* the call's own memory, and a search is answered from one moment's         *)
(* memories.                                                                 *)
LogSpec == Log!Spec

=============================================================================
