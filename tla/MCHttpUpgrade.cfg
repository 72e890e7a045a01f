CONSTANTS
  Lower <- MCLower
  Containing <- MCContaining
  CommaParts <- MCCommaParts
  StoiOf <- MCStoiOf
  Length <- MCLength
  CutPrefixes <- MCCutPrefixes
  Requests <- MCRequests
  KeepEmptyParts = TRUE
  CutKinds = {"value"}
  NoException = NoException
  BadHttpRequest = BadHttpRequest
  InvalidArgument = InvalidArgument

SPECIFICATION Spec
PROPERTY UpgradeAsRequested ValidRequestUpgraded
\* A handshake ends when it is upgraded or rejected.
CHECK_DEADLOCK FALSE
