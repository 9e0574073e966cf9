\* A watch whose last result is a failed readiness check never ends by itself.
CONSTANTS
  ReadTimeout = 2
  Writes = 1
  Deadline = 1
  MaxResults = 2
  MaxOperations = 1
SPECIFICATION Spec
INVARIANTS WatchClosed
