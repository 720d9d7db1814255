\* Snapshots, sweeps, late packets, resets and the report in any order.
SPECIFICATION AggSpec
CONSTANTS
  Tables <- MCTables
  Steps <- MCSteps
  NoStream = NoStream
  MaxSecond = 1
  MaxSnapshots = 3
  MaxSweeps = 2
INVARIANTS
  TimelineAddsUp
  LossIsExamined
  VerdictsSound
  MarksAreCurrent
  ReportHighlights
CHECK_DEADLOCK FALSE
