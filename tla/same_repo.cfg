CONSTANTS
  MaxSteps = 2
  MaxLetters = 2
  MaxAsks = 2
  MaxSessions = 2
  MaxCommits = 7
  MaxTrouble = 1
  Overlaps = FALSE
SPECIFICATION SameRepoSpec
INVARIANTS
  HistoryKept
  ReleasedWithReply
  ReplyUnderPrompt
CHECK_DEADLOCK FALSE
