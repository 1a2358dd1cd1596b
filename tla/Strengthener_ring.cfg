SPECIFICATION FairSpec
CONSTANTS
  sizeOut = 7
  opt_reducer_work = 2
  Plans <- WrapOrNext
INVARIANTS
  ReadsWholeClauses
  ShortensOwnClause
PROPERTIES
  StrengthenerEnds
  BothImplementChannels
