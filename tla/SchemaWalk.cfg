\* Three classes over one bucket and the list of blobs, two failed reads.
CONSTANTS
  NumBuckets = 1
  Entity = entity
  Base = base
  Derived = derived
  Client = client
  Other = other
  MaxFaults = 2
SPECIFICATION Spec
INVARIANTS RegisteredIsFound
PROPERTIES OffsetsFound
\* The walk is over when the offsets are found.
CHECK_DEADLOCK FALSE
