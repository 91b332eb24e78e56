\* Two publishers and a stream, a queue and a channel of one event each.
CONSTANTS
  Publishers = {p, q}
  Streams = {s}
  QueueSize = 1
  BufferSize = 1
  Retention = 1
  MaxEvents = 3
  MaxTime = 1
  MaxFaults = 1
  MaxCrashes = 1
SPECIFICATION FairSpec
INVARIANTS EventTypeOK NeverSendsOnClosed StreamsFollowLog IdsFollowLog StreamedCanBeFetched
PROPERTIES ImplementsEventLog EventsAreFannedOut HandlersEnd
