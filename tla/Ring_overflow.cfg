SPECIFICATION Spec
CONSTANTS
  sizeOut = 7
  opt_reducer_work = 2
  Plans <- WrapOrNext
INVARIANT EveryMessageFits
