\* A Reset while the report is being built: the verdict of the old window marks
\* hops of the new one.
SPECIFICATION AggSpec
CONSTANTS
  Tables <- MCTables
  Steps <- MCSteps
  NoStream = NoStream
  MaxSecond = 1
  MaxSnapshots = 3
  MaxSweeps = 2
INVARIANT MarksAreOfThisWindow
CHECK_DEADLOCK FALSE
