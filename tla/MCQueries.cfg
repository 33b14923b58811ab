CONSTANTS
  Catalog <- MCCatalog
  Jobs <- MCJobs
  Databases <- MCDatabases
  BlockSize = 2
  GallopAfter = 1
  FanIn = 2
  MaxLevel = 2
  RowsPerProbe = 2
  Claim = 1
SPECIFICATION QSpec
INVARIANTS
  BoundPlanAnswers
  PassesKeepTheAnswer
  StreamAnswer
  AggregateAnswer
  SortAnswer
  JoinAnswer
  WindowAnswer
  ScanAnswer
  BudgetKept
  AccumulatorAnswer
  KernelAnswer
  EqualKeysMeet
CHECK_DEADLOCK FALSE
