------------------------- MODULE RetainedPersistence -------------------------
(***************************************************************************)
(* The retained-message store across broker restarts: the in-memory      *)
(* retained table (an external collaborator, spec 3 and 5), the wall      *)
(* clock, the file of RetainedMessagesDB, checkpoint saves, crashes and   *)
(* the load at start-up.  The table maps a topic to its retained message  *)
(* or NoMsg; a message's age is what getAge() reports, seconds since it   *)
(* was created on the steady clock.                                       *)
(*                                                                         *)
(* A broker that is not running has no table.  Starting reads the file   *)
(* (if there is one) with whatever time the wall clock shows then, which  *)
(* may be behind the time of the save.  With TornWrites a save can be cut *)
(* short by a crash, leaving a prefix of the new file on disk.            *)
(***************************************************************************)
EXTENDS Integers, Sequences, SequencesExt, FiniteSets

CONSTANTS
  Topics, ClientIds, Usernames,
  AgeModulus,      \* 2^32, the width of a stored age
  MaxWall,         \* largest wall-clock reading the model reaches
  MaxStarts,       \* number of broker starts explored
  TornWrites,      \* whether a crash can interrupt a save half-way
  InitialFiles     \* files the broker may find at its first start, each
                   \* [file, table, savedAt]: the fields, the table they
                   \* hold and when each topic's batch was saved

DB == INSTANCE RetainedMessagesDB

NoMsg == [client_id |-> "none", username |-> "none", qos |-> 0, age |-> 0]

VARIABLES
  table,       \* the retained table: Topics -> message or NoMsg
  running,     \* whether the broker process is up
  wall,        \* the wall clock (system_clock), seconds since the epoch
  file,        \* the retained-messages file; << >> when there is none
  starts,      \* how many times the broker has started
  savedTable,  \* history: the table the file was written from
  torn,        \* history: whether that save was cut short
  savedAt      \* history: per topic, the wall clock when its message was saved

vars == <<table, running, wall, file, starts, savedTable, torn, savedAt>>

EmptyTable == [t \in Topics |-> NoMsg]

Messages == [client_id : ClientIds, username : Usernames, qos : {0, 1}, age : Nat]

\* The table as the vector<RetainedMessage> handed to saveData.
Snapshot(tbl) ==
  LET held == SetToSeq({t \in Topics : tbl[t] # NoMsg})
      m(t) == [topic |-> t, client_id |-> tbl[t].client_id,
               username |-> tbl[t].username, qos |-> tbl[t].qos, age |-> tbl[t].age]
  IN  [i \in 1..Len(held) |-> m(held[i])]

\* Restoring loaded messages one by one: a later one for a topic wins.
Restore(msgs) ==
  [t \in Topics |->
     LET i == SelectLastInSeq(msgs, LAMBDA m : m.topic = t)
     IN  IF i = 0 THEN NoMsg
         ELSE [client_id |-> msgs[i].client_id, username |-> msgs[i].username,
               qos |-> msgs[i].qos, age |-> msgs[i].age]]

\* What a table says independent of time: which message each topic has.
Content(tbl) ==
  {[topic |-> t, client_id |-> tbl[t].client_id, username |-> tbl[t].username,
    qos |-> tbl[t].qos] : t \in {u \in Topics : tbl[u] # NoMsg}}

TypeOK ==
  /\ table \in [Topics -> Messages \cup {NoMsg}]
  /\ running \in BOOLEAN
  /\ wall \in 0..MaxWall
  /\ starts \in 0..MaxStarts
  /\ torn \in BOOLEAN

Init ==
  /\ table = EmptyTable
  /\ running = FALSE
  /\ wall = 0
  /\ starts = 0
  /\ \E init \in InitialFiles : file = init.file /\ savedTable = init.table /\ savedAt = init.savedAt
  /\ torn = FALSE

-----------------------------------------------------------------------------
(* The retained table, an external collaborator: a retained publish       *)
(* replaces the topic's message, one with an empty payload deletes it.    *)
SetRetained(t, c, u, q) ==
  /\ running
  /\ table' = [table EXCEPT ![t] = [client_id |-> c, username |-> u, qos |-> q, age |-> 0]]
  /\ UNCHANGED <<running, wall, file, starts, savedTable, torn, savedAt>>

DeleteRetained(t) ==
  /\ running /\ table[t] # NoMsg
  /\ table' = [table EXCEPT ![t] = NoMsg]
  /\ UNCHANGED <<running, wall, file, starts, savedTable, torn, savedAt>>

\* A second passes on both clocks.
Tick ==
  /\ wall < MaxWall
  /\ wall' = wall + 1
  /\ table' = [t \in Topics |-> IF table[t] = NoMsg THEN NoMsg
                                ELSE [table[t] EXCEPT !.age = @ + 1]]
  /\ UNCHANGED <<running, file, starts, savedTable, torn, savedAt>>

(* A checkpoint or shutdown save: openWrite, then saveData of a snapshot  *)
(* of the table, replacing the previous file.                             *)
Save ==
  /\ running
  /\ file' = DB!openWrite \o DB!saveData(Snapshot(table), wall)
  /\ savedTable' = table /\ torn' = FALSE /\ savedAt' = [t \in Topics |-> wall]
  /\ UNCHANGED <<table, running, wall, starts>>

(* A crash in the middle of a save: only a prefix of the new file, at     *)
(* least its magic string, reached the disk.                              *)
TornSave ==
  /\ TornWrites /\ running /\ starts < MaxStarts
  /\ LET full == DB!openWrite \o DB!saveData(Snapshot(table), wall)
     IN  \E k \in 1..Len(full) - 1 : file' = SubSeq(full, 1, k)
  /\ savedTable' = table /\ torn' = TRUE /\ savedAt' = [t \in Topics |-> wall]
  /\ table' = EmptyTable /\ running' = FALSE
  /\ UNCHANGED <<wall, starts>>

(* The process stops (crash, or shutdown after its save); memory is lost. *)
(* The last of the MaxStarts runs is not stopped: a bound of the model.   *)
Crash ==
  /\ running /\ starts < MaxStarts
  /\ table' = EmptyTable /\ running' = FALSE
  /\ UNCHANGED <<wall, file, starts, savedTable, torn, savedAt>>

(* Start-up: the wall clock reads any time (it may be behind the last     *)
(* save); the file, if any, is read and its messages restored.  A load    *)
(* that fails leaves the table empty.                                     *)
Start ==
  /\ ~running /\ starts < MaxStarts
  /\ starts' = starts + 1 /\ running' = TRUE
  /\ \E now \in 0..MaxWall :
       /\ wall' = now
       /\ IF file = << >>
          THEN table' = EmptyTable
          ELSE LET r == DB!readData(file, now)
               IN  table' = IF r.error THEN EmptyTable ELSE Restore(r.msgs)
  /\ UNCHANGED <<file, savedTable, torn, savedAt>>

Next ==
  \/ \E t \in Topics, c \in ClientIds, u \in Usernames, q \in {0, 1} : SetRetained(t, c, u, q)
  \/ \E t \in Topics : DeleteRetained(t)
  \/ Tick \/ Save \/ TornSave \/ Crash \/ Start

Spec == Init /\ [][Next]_vars

-----------------------------------------------------------------------------
(* Properties of the start-up load.                                       *)

StartStep == ~running /\ running'

\* The content spec 4.3 expects a load of the current file to restore.
ExpectedContent ==
  IF file # << >> /\ file[1] \in {DB!Magic("v3"), DB!Magic("v4")} THEN Content(savedTable) ELSE {}

(* Whatever happened before (saves at any time, publishes and deletes in  *)
(* between, crashes, a wall clock behind the save at start-up, files left *)
(* by older versions), a start restores exactly the messages of the last  *)
(* save that completed: same topics, client ids, usernames and QoS; v1/v2 *)
(* files and files of unknown version restore nothing.                    *)
LoadRestoresSaved == [][StartStep /\ ~torn => Content(table') = ExpectedContent]_vars

(* Spec 4.3 and its round-trip requirement: a message restored from a v4  *)
(* file is as old as it was when saved plus the wall-clock time since the  *)
(* save, counted as 0 when the clock is now behind the save, so expiry     *)
(* neither jumps ahead nor is postponed by a restart; one from a v3 file   *)
(* is new (age 0).  The v4 file of the first start holds two batches saved *)
(* at different times, so a batch's time must be used for its messages.   *)
AgesReconstructed ==
  [][StartStep /\ file # << >> =>
       \A t \in Topics : table'[t] # NoMsg =>
          table'[t].age = IF file[1] = DB!Magic("v4")
                          THEN savedTable[t].age + (IF wall' > savedAt[t] THEN wall' - savedAt[t] ELSE 0)
                          ELSE 0]_vars

=============================================================================
