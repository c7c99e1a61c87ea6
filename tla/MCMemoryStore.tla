--------------------------- MODULE MCMemoryStore ----------------------------
(* A text that contains the query and one that does not, but is more        *)
(* similar to it.                                                           *)
EXTENDS MemoryStore

MCTexts == {"sqlite", "database"}
MCQueries == {"sql"}
MCContaining == {<<"sql", "sqlite">>}
MCSimilarity ==
  [q \in MCQueries |-> [t \in MCTexts |-> IF t = "database" THEN 1 ELSE 0]]

(* The default configuration, the strict one, and no embedder.              *)
MCConfigs ==
  {[embedder |-> TRUE, saveAnyway |-> TRUE, fallback |-> TRUE],
   [embedder |-> TRUE, saveAnyway |-> FALSE, fallback |-> FALSE],
   [embedder |-> FALSE, saveAnyway |-> TRUE, fallback |-> TRUE]}
=============================================================================
