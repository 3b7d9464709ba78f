\* A ring of 12 words, headers of 2 words and ranges of 1: records are 4 or 5
\* words long (3 without payload), so that six reads go around the ring twice and
\* leave remainders below and above a header at its end.
CONSTANTS
  Capacity = 12
  HeaderLen = 2
  RangeLen = 1
  MaxPayload = 2
  MaxReads = 6
  MaxAbandoned = 2
SPECIFICATION Spec
INVARIANT UnreadIntact
INVARIANT EmptyIffNothingUnread
INVARIANT WalkFindsOldest
INVARIANT ReleaseIsExact
INVARIANT BytesLagByAbandoned
PROPERTY EmptyRingAccepts
PROPERTY ChannelSpec
\* The client stops after MaxReads reads.
CHECK_DEADLOCK FALSE
