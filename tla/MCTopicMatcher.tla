--------------------------- MODULE MCTopicMatcher ---------------------------
(***************************************************************************)
(* Checks topicsMatch and isValidSubscribePath against the spec over every *)
(* filter of up to four characters from {a, /, +, #, $} and every topic of *)
(* up to three characters from {a, b, /, $}.  Four filter characters are   *)
(* enough for two wildcards in two levels ("+/#", "a/+/"), an empty level  *)
(* and a '$' prefix; a second letter in topics separates '+' from a       *)
(* literal match.  Each state is one (filter, topic) pair the broker might *)
(* be asked to match; a step adds or drops the last character of either  *)
(* string, which reaches every pair from the empty one; each such pair is *)
(* matched as the first call on a thread, with empty scratch vectors.     *)
(*                                                                         *)
(* The thread_local scratch vectors subscribeParts and publishParts are   *)
(* checked by a second part: one thread making any sequence of calls on   *)
(* CallFilters x CallTopics, the vectors carried from each call to the    *)
(* next.  The filters take both early returns and the segment walk with  *)
(* '+', '#' and several levels, so a later call can find every shape an   *)
(* earlier one leaves.  Carrying the vectors through the full enumeration *)
(* would multiply its pairs by every vector pair an earlier call leaves.  *)
(***************************************************************************)
EXTENDS TopicMatcher, TLC

FilterChars == {"a", Slash, Plus, Pound, Dollar}
TopicChars  == {"a", "b", Slash, Dollar}
Filters == SeqOf(FilterChars, 4)
Topics  == SeqOf(TopicChars, 3)
CallFilters ==
  { <<"a">>, <<Pound>>, <<Plus>>, <<"a", Slash, Pound>>, <<Plus, Slash, Plus>>,
    <<Slash, Plus>>, <<Dollar, Slash, Pound>> }
CallTopics == { <<"a">>, <<"a", Slash, "b">>, <<Slash>>, <<Dollar, "a">> }

VARIABLES
  filter, topic,
  scratch,   \* this thread's subscribeParts and publishParts
  matched    \* what topicsMatch(filter, topic) returned
vars == <<filter, topic, scratch, matched>>

\* One topicsMatch call on the thread, from the vectors the last call left.
MatchCall(f, t) ==
  LET r == topicsMatch(f, t, scratch)
  IN  matched' = r.match /\ scratch' = r.scratch

Init ==
  /\ filter = << >> /\ topic = << >>
  /\ scratch = EmptyScratch
  /\ matched = topicsMatch(<< >>, << >>, EmptyScratch).match

MatchStep ==
  /\ scratch = EmptyScratch
  /\ \/ /\ Len(filter) < 4
        /\ \E c \in FilterChars : filter' = Append(filter, c)
        /\ UNCHANGED topic
     \/ /\ Len(topic) < 3
        /\ \E c \in TopicChars : topic' = Append(topic, c)
        /\ UNCHANGED filter
     \/ filter # << >> /\ filter' = Front(filter) /\ UNCHANGED topic
     \/ topic # << >> /\ topic' = Front(topic) /\ UNCHANGED filter
  /\ matched' = topicsMatch(filter', topic', EmptyScratch).match
  /\ UNCHANGED scratch

\* The thread makes its next call, on the vectors its last call left.
ThreadCall ==
  \E f \in CallFilters, t \in CallTopics :
       filter' = f /\ topic' = t /\ MatchCall(f, t)

Next == MatchStep \/ ThreadCall
Spec == Init /\ [][Next]_vars

\* The inputs the broker passes on: a filter accepted at subscribe time and
\* a topic accepted at publish time.
Admitted == isValidSubscribePath(filter) /\ isValidPublishPath(topic)

(* topicsMatch is sound: whenever it delivers a publish to a subscription *)
(* the spec's matching rules (single-level '+', trailing '#', literal      *)
(* levels including empty ones, '$' topics only for '$' filters) agree,   *)
(* whatever the thread's scratch vectors held from earlier calls (spec:   *)
(* the buffer is cleared before each use and leaks nothing across calls). *)
(* Filters rejected at subscribe time are never matched, so this also     *)
(* depends on isValidSubscribePath refusing a '#' that is not the last   *)
(* level, which the segment walk assumes without checking.               *)
MatchSound == Admitted /\ matched => SpecMatch(filter, topic)

(* topicsMatch is complete: every pair the spec says matches is matched,  *)
(* including a trailing "/#" matching the parent level ("a/#" vs "a").    *)
MatchComplete == Admitted /\ SpecMatch(filter, topic) => matched

=============================================================================
