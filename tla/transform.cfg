SPECIFICATION Spec
CONSTANTS
  Rows <- SomeRows
  MaxRows = 2
  MonthStart <- TwoDayMonths
  MaxDay = 50
  Skipped = 22
  Repeated = 23
  FirstDay = 20
  LastDay = 24
INVARIANTS
  RowsClassified
  RecordsSound
CHECK_DEADLOCK FALSE
