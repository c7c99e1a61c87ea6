\* Two calls by each agent, so that the second finds what the first left; one
\* change of the file and one move of the mouse by somebody else.  Two positions
\* are on the screen, one is not.  Two bytes are at the limit of a read, three
\* beyond it.
CONSTANTS
  Workers = {agent1, agent2}
  MaxCalls = 2
  MaxResults = 1
  Width = 2
  Inodes = {i1, i2}
  None = None
  Directory = Directory
  MaxReadBytes = 2
  CreateParents = TRUE
  Points = {origin, elsewhere}
  Beyond = {beyond}
  Center = origin
  MaxToolCalls = 2
  MaxEdits = 1
  MaxNudges = 1

SPECIFICATION MCSpec
SYMMETRY Agents
INVARIANTS
  HandlesReleased
  InitIsExclusive
  SuccessIsWholeReply
  SuccessIsStored
  AppendsAreKept
  ReportIsTrue
