\* The main loop, its two sessions, every command and an indifferent device.
CONSTANTS
  ReadTimeout = 2
  Writes = 1
  Deadline = 1
  MaxResults = 2
  MaxOperations = 1
SPECIFICATION FairSpec
INVARIANTS TypeOK
PROPERTIES StressOkMeansRead WatchTimeoutWaited SessionsEnd
