\* Two pages asked for, of all clients or of one; two starts on one migration,
\* one failure of a statement; two clients whose rows change twice.
CONSTANTS
  Width4 = 2
  Width6 = 3
  init = init
  events = events
  reported = reported
  Files <- TabFiles
  Statements <- TabStatements
  Repeatable <- MCRepeatable
  Settings <- TabSettings
  Clients <- TabClients
  MaxStarts = 2
  MaxFaults = 1
  MaxWrites = 2
  Fresh = 0
  Searches <- TabSearches
  Limit = 1
  MaxAsked = 2
SPECIFICATION TabSpec
INVARIANTS PageFitsTotal TabShowsItsPage
CHECK_DEADLOCK FALSE
