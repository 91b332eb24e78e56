\* Four events and pages of two; one change of filter, one break of the stream.
CONSTANTS
  Browser = b
  Streams = {b}
  Numbers = {1, 2, 3, 4}
  Blocked = {2, 4}
  PageSize = 2
  Lag = 2
  MaxAsked = 3
  MaxFilters = 1
  MaxLosses = 1
  MaxFails = 1
SPECIFICATION FeedSpec
INVARIANTS FeedTypeOK FeedInOrder NothingElseLost
CHECK_DEADLOCK FALSE
