--------------------------- MODULE TopicMatcher ---------------------------
(***************************************************************************)
(* The topic functions of src/utils.cpp: splitting a topic on '/',        *)
(* topicsMatch (filter against publish topic), the structural validators  *)
(* isValidPublishPath, isValidSubscribePath and isValidShareName, and     *)
(* parseSubscriptionShare.  All but topicsMatch are pure operators;      *)
(* topicsMatch also takes and returns the thread's scratch vectors.  A    *)
(* string is a sequence of one-character strings; the alphabet is the     *)
(* caller's choice, and only '/', '+', '#' and '$' are special.            *)
(*                                                                         *)
(* Next to each algorithm is the reference the spec (sections 3 and 4.1)  *)
(* gives for it, written declaratively and independently of the code.    *)
(***************************************************************************)
EXTENDS Integers, Sequences, SequencesExt

Slash == "/"
Plus  == "+"
Pound == "#"
Dollar == "$"

\* The segment "$share" that starts a shared subscription.
ShareKeyword == <<"$", "s", "h", "a", "r", "e">>

\* Sentinel for "no share name was extracted".
NoShare == <<"-">>

-----------------------------------------------------------------------------
(* splitToVector(input, output, '/') with its defaults (no maximum, keep  *)
(* empty parts): every '/' ends a part, and the rest after the last '/'   *)
(* is the final part, so "a//b" has three parts and "" has one.           *)
RECURSIVE SplitToVector(_)
SplitToVector(s) ==
  LET end == SelectInSeq(s, LAMBDA c : c = Slash)
  IN  IF end = 0
      THEN << s >>
      ELSE << SubSeq(s, 1, end - 1) >> \o SplitToVector(SubSeq(s, end + 1, Len(s)))

\* A segment made of a single wildcard character.
IsSeg(seg, c) == seg = << c >>

(* The segment walk of topicsMatch: both iterators advance together; '+'  *)
(* matches any segment, '#' ends the walk with success, anything else     *)
(* must be equal; the walk succeeds only if both sides run out together.  *)
RECURSIVE WalkSegments(_, _)
WalkSegments(sub, pub) ==
  IF sub = << >> \/ pub = << >>
  THEN sub = << >> /\ pub = << >>
  ELSE IF IsSeg(Head(sub), Plus) THEN WalkSegments(Tail(sub), Tail(pub))
  ELSE IF IsSeg(Head(sub), Pound) THEN TRUE
  ELSE Head(sub) = Head(pub) /\ WalkSegments(Tail(sub), Tail(pub))

(* splitToVector(input, output, '/') appends the parts of input to       *)
(* output; it never clears output.                                        *)
splitToVectorInto(output, input) == output \o SplitToVector(input)

(* The thread_local scratch vectors subscribeParts and publishParts: one  *)
(* pair per thread, created empty and reused by every topicsMatch call on *)
(* that thread, so a call finds whatever the previous one left.           *)
EmptyScratch == [sub |-> << >>, pub |-> << >>]

(* Plausible fault: the scratch vectors are reused without clear().      *)
ClearPartsKept(parts) == parts

\* subscribeParts.clear(); publishParts.clear();
ClearParts(parts) == << >>

(* Plausible fault: the reserved-topic ('$') test is left out.          *)
topicsMatchNoDollarTest(subscribeTopic, publishTopic, scratch) ==
  IF ~Contains(subscribeTopic, Plus) /\ ~Contains(subscribeTopic, Pound)
  THEN [match |-> subscribeTopic = publishTopic, scratch |-> scratch]
  ELSE LET s == splitToVectorInto(ClearParts(scratch.sub), subscribeTopic)
           p == splitToVectorInto(ClearParts(scratch.pub), publishTopic)
       IN  [match |-> WalkSegments(s, p), scratch |-> [sub |-> s, pub |-> p]]

(* topicsMatch(subscribeTopic, publishTopic) on a thread whose scratch    *)
(* vectors hold scratch: the result and the vectors it leaves behind.    *)
(* The two early returns leave the vectors untouched; otherwise they are *)
(* cleared, filled by splitToVector and walked.                          *)
topicsMatch(subscribeTopic, publishTopic, scratch) ==
  IF ~Contains(subscribeTopic, Plus) /\ ~Contains(subscribeTopic, Pound)
  THEN [match |-> subscribeTopic = publishTopic, scratch |-> scratch]
  ELSE IF /\ subscribeTopic # << >> /\ publishTopic # << >>
          /\ publishTopic[1] = Dollar /\ subscribeTopic[1] # Dollar
  THEN [match |-> FALSE, scratch |-> scratch]
  ELSE LET s == splitToVectorInto(ClearParts(scratch.sub), subscribeTopic)
           p == splitToVectorInto(ClearParts(scratch.pub), publishTopic)
       IN  [match |-> WalkSegments(s, p), scratch |-> [sub |-> s, pub |-> p]]

\* isValidPublishPath: non-empty and free of '#' and '+'.
isValidPublishPath(s) ==
  /\ s # << >>
  /\ \A i \in 1..Len(s) : s[i] \notin {Pound, Plus}

(* Plausible fault: the scan forgets that nothing may follow '#'.       *)
isValidSubscribePathPoundAnywhere(s) ==
  LET RECURSIVE Scan(_, _, _)
      Scan(rest, plusAllowed, nextMustBeSlash) ==
        IF rest = << >> THEN TRUE
        ELSE LET c == Head(rest)
             IN  /\ ~(~plusAllowed /\ c = Plus)
                 /\ ~(nextMustBeSlash /\ c # Slash)
                 /\ Scan(Tail(rest), c = Slash, c = Plus)
  IN  Scan(s, TRUE, FALSE)

(* isValidSubscribePath: a left-to-right scan with three flags, each set  *)
(* from the previous character: '+' only after '/' or at the start, only  *)
(* '/' after '+', and nothing at all after '#'.                           *)
isValidSubscribePath(s) ==
  LET RECURSIVE Scan(_, _, _, _)
      Scan(rest, plusAllowed, nextMustBeSlash, poundSeen) ==
        IF rest = << >> THEN TRUE
        ELSE LET c == Head(rest)
             IN  /\ ~(~plusAllowed /\ c = Plus)
                 /\ ~(nextMustBeSlash /\ c # Slash)
                 /\ ~poundSeen
                 /\ Scan(Tail(rest), c = Slash, c = Plus, c = Pound)
  IN  Scan(s, TRUE, FALSE, FALSE)

\* isValidShareName: non-empty and free of '#', '+' and '/'.
isValidShareName(s) ==
  /\ s # << >>
  /\ \A i \in 1..Len(s) : s[i] \notin {Pound, Plus, Slash}

(* parseSubscriptionShare(subtopics, shareName): with fewer than three    *)
(* segments, or a first segment other than "$share", a no-op; otherwise   *)
(* a ProtocolError for an invalid name, else the first two segments are   *)
(* erased and the name is output.  shareName is the caller's value.       *)
parseSubscriptionShare(subtopics, shareName) ==
  IF Len(subtopics) < 3 \/ subtopics[1] # ShareKeyword
  THEN [subtopics |-> subtopics, shareName |-> shareName, error |-> FALSE]
  ELSE IF ~isValidShareName(subtopics[2])
  THEN [subtopics |-> subtopics, shareName |-> shareName, error |-> TRUE]
  ELSE [subtopics |-> Tail(Tail(subtopics)), shareName |-> subtopics[2],
        error |-> FALSE]

-----------------------------------------------------------------------------
(* References from the spec.                                              *)

\* Segments: the maximal '/'-free pieces between the cuts at each '/'.
Segments(s) ==
  LET cuts == << 0 >> \o SelectSeq([i \in 1..Len(s) |-> i],
                                   LAMBDA i : s[i] = Slash) \o << Len(s) + 1 >>
  IN  [k \in 1..Len(cuts) - 1 |-> SubSeq(s, cuts[k] + 1, cuts[k + 1] - 1)]

\* Joining segments with '/', the inverse of Segments.
RECURSIVE JoinSegments(_)
JoinSegments(segs) ==
  IF Len(segs) <= 1 THEN IF segs = << >> THEN << >> ELSE segs[1]
  ELSE segs[1] \o << Slash >> \o JoinSegments(Tail(segs))

(* Spec 3: '+' matches exactly one segment, a final '#' zero or more      *)
(* remaining segments, other segments literally; a topic starting with    *)
(* '$' is matched only by a filter starting with '$'.                     *)
SpecMatch(filter, topic) ==
  LET F == Segments(filter)
      T == Segments(topic)
      LevelOk(i) == IsSeg(F[i], Plus) \/ F[i] = T[i]
  IN  /\ (topic # << >> /\ topic[1] = Dollar) => (filter # << >> /\ filter[1] = Dollar)
      /\ \/ /\ Len(F) = Len(T)
            /\ \A i \in 1..Len(F) : LevelOk(i)
         \/ /\ IsSeg(F[Len(F)], Pound)
            /\ Len(T) >= Len(F) - 1
            /\ \A i \in 1..Len(F) - 1 : LevelOk(i)

=============================================================================
