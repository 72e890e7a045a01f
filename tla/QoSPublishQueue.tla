-------------------------- MODULE QoSPublishQueue --------------------------
(***************************************************************************)
(* The per-session queue of QoS 1/2 publishes awaiting acknowledgement,   *)
(* QoSPublishQueue in src/qospacketqueue.cpp.  The queue is a std::list   *)
(* of QueuedPublish (a publish and its packet id) kept in insertion       *)
(* order, and qosQueueBytes is a running total of the approximate memory  *)
(* footprint (topic length + payload length) that callers use for flow    *)
(* control.  A publish is a model value; only its footprint matters here. *)
(*                                                                         *)
(* One action per mutating member function: the two queuePublish          *)
(* overloads, erase(packet_id) and erase(iterator).  The read-only         *)
(* members (size, getByteSize, begin, end) are operators.                 *)
(***************************************************************************)
EXTENDS Integers, Sequences, SequencesExt, Functions

CONSTANTS
  Publishes,     \* the publishes a caller may queue (model values)
  Footprint,     \* Publishes -> Nat: topic.length() + payload.length()
  PacketIds,     \* the packet ids a caller may pass, a subset of 1..65535
  MaxQosMsgPending,   \* the caller's max_qos_msg_pending_per_client
  MaxQosBytesPending  \* the caller's max_qos_bytes_pending_per_client

ASSUME Footprint \in [Publishes -> Nat]
ASSUME PacketIds \subseteq 1..65535
ASSUME MaxQosMsgPending \in Nat /\ MaxQosBytesPending \in Nat

VARIABLES
  queue,         \* std::list<QueuedPublish>: << [id, pub], ... >>
  qosQueueBytes  \* ssize_t qosQueueBytes

vars == <<queue, qosQueueBytes>>

Entries == [id : PacketIds, pub : Publishes]

\* QueuedPublish::getApproximateMemoryFootprint
ApproximateMemoryFootprint(e) == Footprint[e.pub]

\* The footprint the queue really holds: what qosQueueBytes stands for.
QueuedFootprint(q) ==
  FoldLeft(LAMBDA acc, e : acc + ApproximateMemoryFootprint(e), 0, q)

\* QoSPublishQueue::size and QoSPublishQueue::getByteSize
size == Len(queue)
getByteSize == qosQueueBytes

TypeOK ==
  /\ queue \in Seq(Entries)
  /\ Len(queue) <= MaxQosMsgPending
  /\ qosQueueBytes \in Int

Init ==
  /\ queue = << >>
  /\ qosQueueBytes = 0

-----------------------------------------------------------------------------
(* Plausible faults in the operations below; each is the body a mutant of *)
(* the mapped definition takes, to confirm a property can see the fault.  *)

\* queuePublish accounts queue.front() instead of queue.back().
QueuePublishCountsFront(pub, id) ==
  /\ queue' = Append(queue, [id |-> id, pub |-> pub])
  /\ qosQueueBytes' = qosQueueBytes + ApproximateMemoryFootprint(queue'[1])

-----------------------------------------------------------------------------
(* QoSPublishQueue::queuePublish(Publish &&pub, uint16_t id): append and  *)
(* add the footprint of queue.back().  assert(id > 0) is the caller's     *)
(* contract: PacketIds holds only non-zero ids.                           *)
QueuePublish(pub, id) ==
  /\ queue' = Append(queue, [id |-> id, pub |-> pub])
  /\ qosQueueBytes' = qosQueueBytes + ApproximateMemoryFootprint(Last(queue'))

(* QoSPublishQueue::queuePublish(PublishCopyFactory &, id, new_max_qos):  *)
(* the copy the factory makes has the same topic and payload, so the      *)
(* effect is that of the other overload; assert(new_max_qos > 0).         *)
QueuePublishFromFactory(pub, id, new_max_qos) ==
  /\ new_max_qos > 0
  /\ QueuePublish(pub, id)

(* QoSPublishQueue::erase(packet_id): scan from the front for the first   *)
(* entry with that id; if found, subtract its footprint (clamping a       *)
(* negative total to zero) and erase it.  No match leaves both alone.    *)
EraseById(packet_id) ==
  LET i == SelectInSeq(queue, LAMBDA e : e.id = packet_id)
      remaining == qosQueueBytes - ApproximateMemoryFootprint(queue[i])
  IN  IF i = 0
      THEN UNCHANGED vars
      ELSE /\ qosQueueBytes' = IF remaining < 0 THEN 0 ELSE remaining
           /\ queue' = RemoveAt(queue, i)

(* QoSPublishQueue::erase(const_iterator pos): list erase at a position,  *)
(* used by callers sweeping the queue; qosQueueBytes is not touched.      *)
EraseAt(pos) ==
  /\ pos \in 1..Len(queue)
  /\ queue' = RemoveAt(queue, pos)
  /\ UNCHANGED qosQueueBytes

\* Mutant: the count limit tested with <= (one entry too many).
CallerMayQueueOffByOne ==
  /\ size <= MaxQosMsgPending
  /\ getByteSize < MaxQosBytesPending

(* The caller queues a publish only while the session is under both      *)
(* budgets; the queue itself enforces neither (spec 4.2).                 *)
CallerMayQueue ==
  /\ size < MaxQosMsgPending
  /\ getByteSize < MaxQosBytesPending

Next ==
  \/ CallerMayQueue /\ \E pub \in Publishes, id \in PacketIds :
        \/ QueuePublish(pub, id)
        \/ \E q \in {1, 2} : QueuePublishFromFactory(pub, id, q)
  \/ \E id \in PacketIds : EraseById(id)
  \/ \E pos \in 1..Len(queue) : EraseAt(pos)

Spec == Init /\ [][Next]_vars

-----------------------------------------------------------------------------
(* Properties.                                                            *)

(* getByteSize() never reports less than the footprint the queue really   *)
(* holds, whatever order publishes are queued, acknowledged (erase by id, *)
(* also for ids that are absent or queued twice) and swept (erase by      *)
(* iterator).  Under-reporting would let a client exceed the configured   *)
(* max_qos_bytes_pending_per_client budget.                               *)
ByteSizeNeverUnderReports == getByteSize >= QueuedFootprint(queue)

(* What the spec says of getByteSize(): it is the footprint of exactly    *)
(* the publishes now queued, so an emptied queue reports zero bytes.      *)
ByteSizeExact == getByteSize = QueuedFootprint(queue)

=============================================================================
