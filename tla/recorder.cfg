SPECIFICATION Spec
CONSTANTS
  Recorders = {"recorder"}
  Captures = {"capture"}
  Damaged = Damaged
  Lost = Lost
  NoSequence = NoSequence
  MaxSequence = 3
  MaxReconnects = 1
  MaxRecords = 3
  MaxRows = 3
  MaxFaults = 2
INVARIANTS
  LedgerIntact
  GapsMarked
  ReportIsTrue
CHECK_DEADLOCK FALSE
