\* One peripheral, calls that overlap, everything may fail.
SPECIFICATION FairSpec
CONSTANTS
  c1 = c1
  c2 = c2
  Call = {c1, c2}
  NoCall = NoCall
  Central = Central
  p1 = p1
  Peripheral = {p1}
  MaxRestarts = 1
INVARIANTS
  TypeOK
  AnswersOwnCall
  AnswerOnItsWay
PROPERTIES
  CallsAreAnswered
  ImplementsRelayedCall
