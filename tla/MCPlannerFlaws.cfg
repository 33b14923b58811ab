CONSTANTS
  Catalog <- MCCatalog
  Jobs <- MCJobs
  Databases <- MCDatabases
SPECIFICATION FSpec
INVARIANT DocumentedAnswers
CHECK_DEADLOCK FALSE
