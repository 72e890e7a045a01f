CONSTANTS
  p1 = p1
  p2 = p2
  Publishes <- MCPublishes
  Footprint <- MCFootprint
  PacketIds <- MCPacketIds
  MaxQosMsgPending <- MCMaxQosMsgPending
  MaxQosBytesPending <- MCMaxQosBytesPending

SPECIFICATION Spec


INVARIANT ByteSizeExact
