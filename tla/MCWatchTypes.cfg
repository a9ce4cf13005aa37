SPECIFICATION Spec
CONSTANTS
  own = own
  other = other
  Sites = {own, other}
  Own = own
  DownAfter = 2
  Day = 2
  StaleAfter = 2
  KeepFor = 4
  MaxTurns = 4
  MaxFaults = 1
INVARIANT
  TypeOK
