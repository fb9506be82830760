CONSTANTS
  Addrs <- TwoAddrs
  MaxLines = 3
  MaxTexts = 2
SPECIFICATION Spec
INVARIANTS TypeOK NotStranded
PROPERTIES ProgramEnds
