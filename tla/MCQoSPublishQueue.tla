------------------------- MODULE MCQoSPublishQueue -------------------------
(* Instantiation of QoSPublishQueue for TLC: two publishes of different   *)
(* footprint (so accounting the wrong entry is visible), two packet ids   *)
(* (so an id can be queued twice and erased while absent), and budgets    *)
(* that let the queue hold three entries.                                 *)
EXTENDS QoSPublishQueue, TLC

CONSTANTS p1, p2

MCPublishes == {p1, p2}
MCFootprint == p1 :> 1 @@ p2 :> 3
MCPacketIds == {1, 2}
MCMaxQosMsgPending == 3
MCMaxQosBytesPending == 6
=============================================================================
