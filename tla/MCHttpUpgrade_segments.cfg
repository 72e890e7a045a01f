CONSTANTS
  Lower <- MCLower
  Containing <- MCContaining
  CommaParts <- MCCommaParts
  StoiOf <- MCStoiOf
  Length <- MCLength
  CutPrefixes <- MCCutPrefixes
  Requests <- MCRequests
  KeepEmptyParts = TRUE
  CutKinds = {"name", "colon", "value"}
  NoException = NoException
  BadHttpRequest = BadHttpRequest
  InvalidArgument = InvalidArgument

SPECIFICATION Spec
INVARIANT SegmentationTransparent
\* A handshake ends when it is upgraded or rejected.
CHECK_DEADLOCK FALSE
