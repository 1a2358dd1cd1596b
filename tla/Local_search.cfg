SPECIFICATION FairSpec
CONSTANTS
  Buffered = TRUE
  Plans <- RaceOrRush
INVARIANTS
  AnswersFitMessage
  AnswersOnce
  PrefixUpToDate
PROPERTIES
  HelpersFollow
