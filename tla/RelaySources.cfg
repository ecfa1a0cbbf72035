\* Two peripherals answer one GetInfo of all sources.
SPECIFICATION Spec
CONSTANTS
  c1 = c1
  Call = {c1}
  NoCall = NoCall
  Central = Central
  p1 = p1
  p2 = p2
  Peripheral = {p1, p2}
  MaxRestarts = 0
INVARIANTS
  CorrectlyTagged
CHECK_DEADLOCK FALSE
