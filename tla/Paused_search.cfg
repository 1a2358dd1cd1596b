SPECIFICATION Spec
CONSTANTS
  vc = 4
  Cnfs <- SecondOrFourth
  Reported <- FirstThree
  ReportingTimes = {2}
  MaxPauses = 2
INVARIANTS
  NeverThrows
