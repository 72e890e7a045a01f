------------------------- MODULE RetainedMessagesDB -------------------------
(***************************************************************************)
(* The retained-message file of src/retainedmessagesdb.cpp.  A file is a  *)
(* sequence of fields in the order they are written: the magic string of  *)
(* its version, then per batch the saved-at time (v4 only), the message   *)
(* count and the reserved block, then per message the fixed-header        *)
(* length, the original age (v4 only), the packet length, the client id,  *)
(* the username and the encoded publish.  A field is a record [k, v]; a   *)
(* length field carries no value the model needs, and an encoded publish *)
(* carries the topic and QoS it decodes to.  A file cut short (a crash    *)
(* during writing) is a prefix of such a sequence.                        *)
(*                                                                         *)
(* Saving and loading are blocking, single-threaded batch operations      *)
(* (spec 5), so each is one operator: saveData gives the fields it        *)
(* appends, readData the result of a load.                                *)
(***************************************************************************)
EXTENDS Integers, Sequences, SequencesExt

CONSTANTS
  AgeModulus    \* 2^32: ages are stored and rebuilt as uint32_t

Versions == {"v1", "v2", "v3", "v4"}

\* The field kinds writeInt64, writeUint32, ... put in the file.
Magic(version) == [k |-> "magic", v |-> version]
Int64(x)   == [k |-> "int64", v |-> x]
Uint32(x)  == [k |-> "uint32", v |-> x]
Reserved   == [k |-> "reserved", v |-> 0]
Length     == [k |-> "length", v |-> 0]
Str(s)     == [k |-> "string", v |-> s]
Body(topic, qos) == [k |-> "body", v |-> [topic |-> topic, qos |-> qos]]

\* PersistenceFile::openWrite(MAGIC_STRING_V4): a new file holding the magic.
openWrite == << Magic("v4") >>

(* RetainedMessagesDB::saveData: the current time, the count, the         *)
(* reserved block, then per message the fixed-header length, its age as a *)
(* uint32_t, the packet length, client id, username and encoded publish   *)
(* (re-encoded as MQTT 5 with a dummy packet id for QoS > 0).  messages   *)
(* is a sequence of [topic, client_id, username, qos, age].               *)
\* Mutant: client id and username written in the wrong order.
MessageFieldsSwapped(m) ==
  << Length, Uint32(m.age % AgeModulus), Length,
     Str(m.username), Str(m.client_id), Body(m.topic, m.qos) >>

MessageFields(m) ==
  << Length, Uint32(m.age % AgeModulus), Length,
     Str(m.client_id), Str(m.username), Body(m.topic, m.qos) >>

saveData(messages, now_epoch) ==
  << Int64(now_epoch), Uint32(Len(messages)), Reserved >>
    \o FlattenSeq([i \in 1..Len(messages) |-> MessageFields(messages[i])])

\* Mutant: the v3 magic string is not recognised.
openReadNoV3(file) == IF file[1].v \in Versions \ {"v3"} THEN file[1].v ELSE "unknown"

(* openRead: the version is the file's magic string; any other string     *)
(* throws "Unknown file version."                                         *)
openRead(file) == IF file[1].v \in Versions THEN file[1].v ELSE "unknown"

(* persistence_state_age: seconds since the batch was saved, 0 if the     *)
(* wall clock is now behind the saved time.                               *)
PersistenceStateAge(fileSavedAt, now_epoch) ==
  IF fileSavedAt > now_epoch THEN 0 ELSE now_epoch - fileSavedAt

\* Mutant: the rebuilt age leaves out the age the message had when saved.
PubAgeDropsOriginal(stateAge, originalPubAge) == stateAge % AgeModulus

\* newPubAge: the batch's state age plus the saved age, as a uint32_t.
PubAge(stateAge, originalPubAge) == (stateAge + originalPubAge) % AgeModulus

\* The fields read for one message before its encoded publish.
HeaderLen(version) == IF version = "v4" THEN 5 ELSE 4

\* A loaded message: the decoded publish with the client id and username
\* read before it and its age rebuilt as a uint32_t.
Loaded(body, client_id, username, newPubAge) ==
  [topic |-> body.topic, qos |-> body.qos, client_id |-> client_id,
   username |-> username, age |-> newPubAge]

(* readDataV3V4.  The outer while loop reads a batch header, the inner    *)
(* for loop its messages.  Reaching the end of the file inside a header   *)
(* or a message header sets eofFound, which skips the rest and ends the   *)
(* loops with the messages read so far.  If the end comes after a         *)
(* complete message header but before the encoded publish, readCheck      *)
(* (PersistenceFile, a checked fread) throws and the load is aborted.  A  *)
(* result is [msgs, error].                                               *)
RECURSIVE ReadBatches(_, _, _, _), ReadMessages(_, _, _, _, _, _, _)

ReadBatches(fields, version, now_epoch, msgs) ==
  LET countAt == IF version = "v4" THEN 2 ELSE 1
  IN  IF Len(fields) < countAt
      THEN [msgs |-> msgs, error |-> FALSE]
      ELSE LET age == IF version = "v4"
                      THEN PersistenceStateAge(fields[1].v, now_epoch) ELSE 0
           IN  ReadMessages(SubSeq(fields, countAt + 2, Len(fields)), version,
                            now_epoch, age, fields[countAt].v, msgs, 0)

ReadMessages(fields, version, now_epoch, stateAge, n, msgs, i) ==
  LET h == HeaderLen(version)
      originalPubAge == IF version = "v4" THEN fields[2].v ELSE 0
      newPubAge == PubAge(stateAge, originalPubAge)
  IN  CASE i = n -> ReadBatches(fields, version, now_epoch, msgs)
        [] Len(fields) < h -> [msgs |-> msgs, error |-> FALSE]
        [] Len(fields) = h -> [msgs |-> msgs, error |-> TRUE]
        [] OTHER ->
             ReadMessages(SubSeq(fields, h + 2, Len(fields)), version, now_epoch,
                          stateAge, n,
                          Append(msgs, Loaded(fields[h + 1].v, fields[h - 1].v,
                                              fields[h].v, newPubAge)),
                          i + 1)

(* openRead followed by readData: v1 and v2 files give no messages (only  *)
(* a warning), v3 and v4 files are read, an unknown version is an error.  *)
readData(file, now_epoch) ==
  LET version == openRead(file)
  IN  CASE version \in {"v1", "v2"} -> [msgs |-> << >>, error |-> FALSE]
        [] version \in {"v3", "v4"} -> ReadBatches(Tail(file), version, now_epoch, << >>)
        [] OTHER -> [msgs |-> << >>, error |-> TRUE]

=============================================================================
