-------------------------- MODULE MCUtf8Validation --------------------------
(***************************************************************************)
(* Checks isValidUtf8Generic against the reference over every string of   *)
(* up to four bytes from a set of bytes that sit at the boundaries the     *)
(* decoder cares about, with and without the publish-character check.     *)
(* The bytes reach: ASCII, DEL, NUL, '#'; the overlong leads C1 and the    *)
(* overlong second bytes after E0 and F0; C2 80 (U+0080, a C1 control);    *)
(* E0 A0 80 (U+0800, the first three-byte character); ED A0 80 (a          *)
(* surrogate) and ED 9F BF (U+D7FF); EF B7 90 (U+FDD0); EF BF BF (U+FFFF); *)
(* F0 90 80 80 (U+10000); F4 8F BF BF (U+10FFFF); F4 90 80 80 and F5 ...   *)
(* (beyond U+10FFFF); stray continuation bytes and truncated characters.  *)
(* Strings of four bytes are those that start with a four-byte lead (F0,  *)
(* F4, F5): shorter strings already combine every pair and triple of       *)
(* characters, and four bytes are needed only for one four-byte form.     *)
(* A step adds or drops the last byte or flips the flag.                  *)
(***************************************************************************)
EXTENDS Utf8Validation, TLC

Bytes == { 0, 35, 65, 127,                        \* NUL, '#', 'A', DEL
           128, 143, 144, 159, 160, 183, 191,     \* continuation bytes
           193, 194, 224, 237, 239, 240, 244, 245 } \* lead bytes
MaxLen == 4

VARIABLES s, checkPublishChars
vars == <<s, checkPublishChars>>

Init == s = << >> /\ checkPublishChars \in BOOLEAN
Next ==
  \/ /\ Len(s) < MaxLen
     /\ Len(s) = MaxLen - 1 => s[1] >= 240
     /\ \E b \in Bytes : s' = Append(s, b) /\ UNCHANGED checkPublishChars
  \/ s # << >> /\ s' = Front(s) /\ UNCHANGED checkPublishChars
  \/ checkPublishChars' = ~checkPublishChars /\ UNCHANGED s
Spec == Init /\ [][Next]_vars

TypeOK == s \in SeqOf(Bytes, MaxLen) /\ checkPublishChars \in BOOLEAN

Accepted == isValidUtf8Generic(s, checkPublishChars)

(* Every string the spec calls valid is accepted: no well-formed character *)
(* of an allowed code point, of any length, is refused, and the flag only *)
(* refuses '#' and '+'.                                                    *)
Utf8Complete == SpecValidUtf8(s, checkPublishChars) => Accepted

(* Whatever is accepted is a sequence of shortest-form characters of code *)
(* points MQTT allows: no overlong form, control, surrogate or            *)
(* noncharacter gets through, up to the largest value a four-byte form    *)
(* can carry.                                                             *)
Utf8NoForbiddenCharacter ==
  Accepted =>
    /\ EncodesAllowed(s, MaxFourByteForm)
    /\ checkPublishChars => \A i \in 1..Len(s) : s[i] \notin {HashByte, PlusByte}

(* Spec 4.1: accepted exactly when valid UTF-8 (at most U+10FFFF) of       *)
(* allowed code points.                                                    *)
Utf8Sound == Accepted => SpecValidUtf8(s, checkPublishChars)

=============================================================================
