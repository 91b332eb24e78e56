\* Three starts and two failures of a statement; three clients whose rows change
\* twice; no dashboard.
CONSTANTS
  Width4 = 2
  Width6 = 3
  init = init
  events = events
  reported = reported
  Files <- MCFiles
  Statements <- MCStatements
  Repeatable <- MCRepeatable
  Settings <- MCSettings
  Clients <- MCClients
  MaxStarts = 3
  MaxFaults = 2
  MaxWrites = 2
  Fresh = 0
  Searches = {}
  Limit = 1
  MaxAsked = 0
SPECIFICATION ProgramSpec
INVARIANTS SchemaBeforeService OnlyTornFails LocalsLeftAlone
PROPERTY CountsCatchUp
CHECK_DEADLOCK FALSE
