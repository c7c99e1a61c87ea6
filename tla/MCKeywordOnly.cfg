\* One caller that saves twice and searches.
CONSTANTS
  Callers = {c1}
  Texts <- MCTexts
  Queries <- MCQueries
  Containing <- MCContaining
  Similarity <- MCSimilarity
  Dims = {1, 2}
  Configs <- MCConfigs
  Limits = {2}
  NoCaller = NoCaller
  MaxSaves = 2

SPECIFICATION Spec
INVARIANT
  KeywordOnlyIsFound
