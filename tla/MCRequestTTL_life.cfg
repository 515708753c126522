SPECIFICATION Spec
CONSTANTS
  Lifetime <- TwoSecondsAndAnHour
  Lapses <- Around
  MaxUpdates = 3
INVARIANT TypeOK
INVARIANT NotDroppedEarly
INVARIANT NeverOutlivesANewRecord
PROPERTY UpdateKeepsTheRecord
CHECK_DEADLOCK FALSE
