\* Intervals of 0, 2 and 3 ms, and one that is refused.
SPECIFICATION Spec
CONSTANTS
  Low = 4
  High = 2
  Int16Max = 7
  MaxInterval = 3
  Motion <- MCMotion
  Interval = {0, 2, 3, 4}
  AxisFlags <- MCAxisFlags
  MaxTime = 4
  MaxSamples = 3
INVARIANTS
  TypeOK
  EventIsSum
  NoStaleMotion
PROPERTIES
  EventsAreSpaced
CHECK_DEADLOCK FALSE
