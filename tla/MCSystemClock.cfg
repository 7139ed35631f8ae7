SPECIFICATION Spec
CONSTANTS
  Alarms = {a1, a2}
  Head = Head
  Null = Null
  W = 5
  Intervals <- MCIntervals
INVARIANTS
  TypeOK
  HandlersExclusive
  ListWellFormed
PROPERTIES
  TickReturns
  ImplementsAlarmClock
