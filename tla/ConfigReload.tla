---------------------------- MODULE ConfigReload ----------------------------
(***************************************************************************)
(* What loading a configuration file promises, without the parser: the    *)
(* file on disk is edited between loads; a load either is accepted, and   *)
(* then (unless it only tests the file) the settings become what the      *)
(* whole file means, or is rejected and changes nothing.  A broker that   *)
(* was given no config path accepts every load and keeps its settings.    *)
(* Accepts and Meaning say which files are valid and what they mean; the  *)
(* parser's module gives them as its declarative reading of spec 7.       *)
(***************************************************************************)
EXTENDS Naturals, SequencesExt

CONSTANTS
  Paths,           \* config paths the broker may be started with; "" for none
  Lines,           \* lines an edit may add
  MaxLines,        \* bound on the length of the file
  Initial,         \* the settings before any load
  Accepts(_, _),   \* Accepts(path, lines): the file is valid
  Meaning(_, _)    \* Meaning(path, lines): the settings a valid file gives

VARIABLES path, file, settings, outcome

Init ==
  /\ path \in Paths
  /\ file = << >>
  /\ settings = Initial
  /\ outcome = "none"

Edit ==
  /\ \/ Len(file) < MaxLines /\ \E l \in Lines : file' = Append(file, l)
     \/ file # << >> /\ file' = Front(file)
  /\ outcome' = "none"
  /\ UNCHANGED <<path, settings>>

Load ==
  /\ \E test \in BOOLEAN :
       IF path = "" \/ Accepts(path, file)
       THEN /\ outcome' = "accepted"
            /\ settings' = IF path # "" /\ ~test THEN Meaning(path, file) ELSE settings
       ELSE /\ outcome' = "rejected"
            /\ UNCHANGED settings
  /\ UNCHANGED <<path, file>>

Spec == Init /\ [][Edit \/ Load]_<<path, file, settings, outcome>>

=============================================================================
