CONSTANTS
  Owner = {1, 2, 3}
  Askers = {1}
  Postings <- MCPostings
  Filters <- MCFilters
  Windows <- MCWindows
  Page = 1
  MaxTime = 3
  MaxRows = 3
SPECIFICATION SpecReports
INVARIANTS
  StatementAddsUp
  StraysFound
  WalkComplete
CHECK_DEADLOCK FALSE
