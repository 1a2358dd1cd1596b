SPECIFICATION FairSpec
CONSTANTS
  Buffered = FALSE
  Plans <- TwoAnswers
PROPERTY HelpersFollow
CHECK_DEADLOCK FALSE
