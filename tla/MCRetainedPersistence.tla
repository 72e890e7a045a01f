----------------------- MODULE MCRetainedPersistence -----------------------
(***************************************************************************)
(* Two topics, one client id and one username (distinct values, so a      *)
(* client id and a username read in the wrong order are told apart), QoS  *)
(* 0 and 1, a wall clock of 0..3 seconds and three starts.  The first     *)
(* start may find no file, a v1 or v2 development file, a v3 file with    *)
(* one message, a v4 file of two batches saved at different times, or a  *)
(* file of unknown version.                                               *)
(***************************************************************************)
EXTENDS RetainedPersistence, TLC

CONSTANTS t1, t2, c1, u1


MCTopics == {t1, t2}
MCClientIds == {c1}
MCUsernames == {u1}
MCMaxWall == 3
MCMaxStarts == 3

\* An age field wider than any age the model reaches (uint32_t in the code).
MCAgeModulus == 1024

Msg(q, a) == [client_id |-> c1, username |-> u1, qos |-> q, age |-> a]

MCInitialFiles ==
  LET none == [t \in MCTopics |-> NoMsg]
      at0 == [t \in MCTopics |-> 0]
  IN  { [file |-> << >>, table |-> none, savedAt |-> at0],
        [file |-> << DB!Magic("v1") >>, table |-> none, savedAt |-> at0],
        [file |-> << DB!Magic("v2") >>, table |-> none, savedAt |-> at0],
        [file |-> << DB!Magic("v3"), DB!Uint32(1), DB!Reserved,
                     DB!Length, DB!Length, DB!Str(c1), DB!Str(u1), DB!Body(t1, 1) >>,
         table |-> [none EXCEPT ![t1] = Msg(1, 0)], savedAt |-> at0],
        [file |-> << DB!Magic("v4"),
                     DB!Int64(1), DB!Uint32(1), DB!Reserved,
                     DB!Length, DB!Uint32(2), DB!Length, DB!Str(c1), DB!Str(u1), DB!Body(t1, 0),
                     DB!Int64(2), DB!Uint32(1), DB!Reserved,
                     DB!Length, DB!Uint32(0), DB!Length, DB!Str(c1), DB!Str(u1), DB!Body(t2, 1) >>,
         table |-> [t \in MCTopics |-> IF t = t1 THEN Msg(0, 2) ELSE Msg(1, 0)],
         savedAt |-> [t \in MCTopics |-> IF t = t1 THEN 1 ELSE 2]],
        [file |-> << DB!Magic("v0") >>, table |-> none, savedAt |-> at0] }
=============================================================================
