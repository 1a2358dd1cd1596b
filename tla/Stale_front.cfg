SPECIFICATION Spec
CONSTANTS
  vc = 7
  Cnfs <- StaleFront
  Reported <- FirstThree
  ReportingTimes = {2}
  MaxPauses = 0
INVARIANTS
  NeverThrows
