\* One skill fits in the prompt, two may fit the task.
CONSTANTS
  Files <- MCFiles
  Contents <- MCContents
  Absent = Absent
  Tasks <- MCTasks
  MaxSkills = 1
  MaxChanges = 2
  MaxTask = 5
  MaxKeyword = 3
  MaxPieces = 4
  MaxListed = 2
  MaxLetters = 2
  MaxOutput = 2
  MaxArgs = 4
  Width = 4

SPECIFICATION MCSpec
INVARIANTS
  SkillsAreCurrent
  BestAreSelected
  KeywordMatchesWords
  MatchesGrammar
  ObjectsInProseFound
  VerdictsFollowList
  LineMeansWhatItSays
