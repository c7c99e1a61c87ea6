\* Two callers, two saves, embeddings of two dimensions.
CONSTANTS
  Callers = {c1, c2}
  Texts <- MCTexts
  Queries <- MCQueries
  Containing <- MCContaining
  Similarity <- MCSimilarity
  Dims = {1, 2}
  Configs <- MCConfigs
  Limits = {1}
  NoCaller = NoCaller
  MaxSaves = 2

SPECIFICATION Spec
INVARIANTS
  SavesAreAtomic
  SearchFindsSaved
PROPERTY
  LogSpec
