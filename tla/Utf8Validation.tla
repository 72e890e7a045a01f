-------------------------- MODULE Utf8Validation --------------------------
(***************************************************************************)
(* isValidUtf8Generic(s, alsoCheckInvalidPublishChars) of src/utils.cpp:  *)
(* a one-pass UTF-8 decoder over the bytes of s, kept as a fold over the  *)
(* byte sequence whose accumulator holds the loop's locals                *)
(* multibyte_remain, cur_code_point and total_char_len, plus the verdict. *)
(* The bit masks on a byte x (0..255) are written as the ranges and       *)
(* remainders they select: x & 0b11100000 = 0b11000000 is 192 <= x < 224, *)
(* x & 0b00011111 is x % 32, << 6 is * 64, and so on.                     *)
(*                                                                         *)
(* Next to it, the reference: UTF-8 as RFC 3629 defines it (shortest      *)
(* form, code points up to U+10FFFF) restricted to the code points spec   *)
(* 4.1 and MQTT-1.5.3 allow.                                              *)
(***************************************************************************)
EXTENDS Integers, Sequences, SequencesExt

HashByte == 35   \* '#'
PlusByte == 43   \* '+'

\* The per-iteration state of the loop, with ok = FALSE once it returned false.
InitialDecoder ==
  [ok |-> TRUE, multibyte_remain |-> 0, cur_code_point |-> 0, total_char_len |-> 0]

(* Plausible fault: the check for the end of a code point reads the       *)
(* overlong limit for three-byte characters as 0x800 inclusive.           *)
CodePointAcceptedOverlongOffByOne(cp, len) ==
  /\ ~(len = 2 /\ cp < 128)
  /\ ~(len = 3 /\ cp <= 2048)
  /\ ~(len = 4 /\ cp < 65536)
  /\ ~(cp <= 31)
  /\ ~(cp >= 127 /\ cp <= 159)
  /\ len > 1 =>
       /\ ~(cp >= 55296 /\ cp <= 57343)
       /\ ~(cp >= 64976 /\ cp <= 65007)
       /\ ~(((cp \div 65536) % 32) <= 16 /\ (cp % 65536) \in {65534, 65535})

(* Plausible fault: the surrogate range test is left out.                 *)
CodePointAcceptedNoSurrogateTest(cp, len) ==
  /\ ~(len = 2 /\ cp < 128)
  /\ ~(len = 3 /\ cp < 2048)
  /\ ~(len = 4 /\ cp < 65536)
  /\ ~(cp <= 31)
  /\ ~(cp >= 127 /\ cp <= 159)
  /\ len > 1 =>
       /\ ~(cp >= 64976 /\ cp <= 65007)
       /\ ~(((cp \div 65536) % 32) <= 16 /\ (cp % 65536) \in {65534, 65535})

(* The checks made once a whole code point has been assembled: overlong   *)
(* forms, C0 and C1 controls and DEL, and for multi-byte characters the   *)
(* surrogates, U+FDD0..U+FDEF and the last two code points of planes      *)
(* 0..16 (plane = (cp & 0x1F0000) >> 16, last_16_bit = cp & 0xFFFF).      *)
CodePointAccepted(cp, len) ==
  LET plane == (cp \div 65536) % 32
      last16 == cp % 65536
  IN  /\ ~(len = 2 /\ cp < 128)
      /\ ~(len = 3 /\ cp < 2048)
      /\ ~(len = 4 /\ cp < 65536)
      /\ ~(cp <= 31)
      /\ ~(cp >= 127 /\ cp <= 159)
      /\ len > 1 =>
           /\ ~(cp >= 55296 /\ cp <= 57343)
           /\ ~(cp >= 64976 /\ cp <= 65007)
           /\ ~(plane <= 16 /\ last16 \in {65534, 65535})

(* One iteration of the loop body for byte x.                             *)
DecodeStep(st, x, alsoCheckInvalidPublishChars) ==
  LET lead ==      \* a byte that starts a character: remain, bits of cp
        CASE x < 128             -> [valid |-> TRUE,  remain |-> 0, cp |-> x % 128]
          [] x >= 192 /\ x < 224 -> [valid |-> TRUE,  remain |-> 1, cp |-> (x % 32) * 64]
          [] x >= 224 /\ x < 240 -> [valid |-> TRUE,  remain |-> 2, cp |-> (x % 16) * 4096]
          [] x >= 240 /\ x < 248 -> [valid |-> TRUE,  remain |-> 3, cp |-> (x % 8) * 262144]
          [] OTHER               -> [valid |-> FALSE, remain |-> 0, cp |-> 0]
      cont == st.multibyte_remain - 1
      next ==
        IF st.multibyte_remain = 0
        THEN [ok |-> lead.valid, multibyte_remain |-> lead.remain,
              cur_code_point |-> lead.cp, total_char_len |-> lead.remain + 1]
        ELSE [ok |-> x >= 128 /\ x < 192, multibyte_remain |-> cont,
              cur_code_point |-> st.cur_code_point + (x % 64) * (64 ^ cont),
              total_char_len |-> st.total_char_len]
  IN  IF ~st.ok \/ (alsoCheckInvalidPublishChars /\ x \in {HashByte, PlusByte})
      THEN [st EXCEPT !.ok = FALSE]
      ELSE IF ~next.ok \/ next.multibyte_remain # 0
      THEN next
      ELSE [next EXCEPT !.ok = CodePointAccepted(next.cur_code_point, next.total_char_len),
                        !.cur_code_point = 0]

(* isValidUtf8Generic: run the loop over every byte, then require that no *)
(* character is left unfinished.                                          *)
isValidUtf8Generic(s, alsoCheckInvalidPublishChars) ==
  LET final == FoldLeft(LAMBDA st, x : DecodeStep(st, x, alsoCheckInvalidPublishChars),
                        InitialDecoder, s)
  IN  final.ok /\ final.multibyte_remain = 0

-----------------------------------------------------------------------------
(* Reference.                                                             *)

\* The shortest UTF-8 encoding of a code point up to U+1FFFFF.
Encode(cp) ==
  CASE cp < 128   -> << cp >>
    [] cp < 2048  -> << 192 + cp \div 64, 128 + (cp % 64) >>
    [] cp < 65536 -> << 224 + cp \div 4096, 128 + ((cp \div 64) % 64), 128 + (cp % 64) >>
    [] OTHER      -> << 240 + cp \div 262144, 128 + ((cp \div 4096) % 64),
                       128 + ((cp \div 64) % 64), 128 + (cp % 64) >>

\* The code point a chunk of n bytes would carry, read as lead plus continuations.
Payload(chunk) ==
  LET n == Len(chunk)
      leadBits == CASE n = 1 -> chunk[1] [] n = 2 -> chunk[1] % 32
                    [] n = 3 -> chunk[1] % 16 [] OTHER -> chunk[1] % 8
  IN  FoldLeft(LAMBDA acc, b : acc * 64 + (b % 64), leadBits, Tail(chunk))

\* Code points MQTT-1.5.3 and spec 4.1 forbid.
Forbidden(cp) ==
  \/ cp <= 31
  \/ cp >= 127 /\ cp <= 159
  \/ cp >= 55296 /\ cp <= 57343
  \/ cp >= 64976 /\ cp <= 65007
  \/ cp <= 1114111 /\ (cp % 65536) \in {65534, 65535}

(* s splits into chunks, each the shortest encoding of an allowed code    *)
(* point no greater than limit.                                           *)
RECURSIVE EncodesAllowed(_, _)
EncodesAllowed(s, limit) ==
  \/ s = << >>
  \/ \E n \in 1..4 :
       /\ n <= Len(s)
       /\ LET chunk == SubSeq(s, 1, n)
              cp == Payload(chunk)
          IN  /\ cp <= limit
              /\ Encode(cp) = chunk
              /\ ~Forbidden(cp)
              /\ EncodesAllowed(SubSeq(s, n + 1, Len(s)), limit)

MaxUnicode == 1114111      \* U+10FFFF, the last code point (RFC 3629)
MaxFourByteForm == 2097151 \* U+1FFFFF, the largest a four-byte form holds

\* Spec 4.1: valid UTF-8 of allowed code points, and no '#'/'+' when asked.
SpecValidUtf8(s, alsoCheckInvalidPublishChars) ==
  /\ EncodesAllowed(s, MaxUnicode)
  /\ alsoCheckInvalidPublishChars => \A i \in 1..Len(s) : s[i] \notin {HashByte, PlusByte}

=============================================================================
