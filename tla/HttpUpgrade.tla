----------------------------- MODULE HttpUpgrade -----------------------------
(***************************************************************************)
(* The WebSocket upgrade handshake: parseHttpHeader (utils.cpp) and the    *)
(* connection that calls it each time bytes arrive.  The parser reads the  *)
(* whole buffer received so far, line by line, and returns FALSE while the *)
(* header is incomplete ("doubleEmptyLine ... meaning, the HTTP header is  *)
(* complete"), so the caller re-parses the growing buffer on every arrival *)
(* and the output parameters (key, version, subprotocol, X-Real-IP) are    *)
(* written again by each parse.                                            *)
(*                                                                         *)
(* Data abstraction: a line is the record std::getline and trim give:      *)
(*   [kind |-> "request", get |-> startsWith(line, "GET")]                 *)
(*   [kind |-> "header", name, colon, value]   (split at the first ':')    *)
(*   [kind |-> "empty"]                                                    *)
(* Strings are members of a small set; the string functions the parser     *)
(* calls are given by tables over that set (Lower, Containing, CommaParts, *)
(* StoiOf, Length) holding what those functions return on each string.    *)
(* The request arrives in segments: a segment ends after a whole line or   *)
(* inside one, and a cut line is what getline returns for it (a header cut *)
(* inside its name has no ':', one cut after the ':' has an empty value,   *)
(* one cut inside its value has a proper prefix of the value).             *)
(***************************************************************************)
EXTENDS Integers, SequencesExt

CONSTANTS
  Lower,           \* str_tolower of every string of the model
  Containing,      \* Containing[needle]: the lowered strings containing needle
  CommaParts,      \* splitToVector(value, ',') with every part trimmed
  StoiOf,          \* std::stoi of each version value, or InvalidArgument
  Length,          \* length of each X-Real-IP value
  KeepEmptyParts,  \* the default of split's keep_empty_parts (utils.h)
  CutPrefixes,     \* CutPrefixes[v]: the proper non-empty prefixes a cut may leave, shortest first
  CutKinds,        \* where inside a line a segment may end: "name", "colon", "value"
  Requests,        \* the handshakes clients send, as sequences of lines
  NoException, BadHttpRequest, InvalidArgument

VARIABLES
  request,   \* the handshake the client sent
  got,       \* number of its lines received whole
  tail,      \* << >>, or << the received start of line got+1 >>
  out,       \* websocket_key, websocket_version, subprotocol, xRealIp
  ex,        \* the exception the last parse threw
  status     \* "pending", "upgraded" or "rejected"

vars == << request, got, tail, out, ex, status >>

str_tolower(s) == Lower[s]

strContains(s, needle) == s \in Containing[needle]

(* The size of split(line, ':', 1): no ':' gives one field; a ':' at the  *)
(* end gives an empty second field, kept only when keep_empty_parts.       *)
SplitFieldCount(l) ==
  IF ~l.colon THEN 1
  ELSE IF l.value = "" /\ ~KeepEmptyParts THEN 1
  ELSE 2

(* The locals of parseHttpHeader, with the output parameters as they are   *)
(* on entry; stop records a break or a throw.                              *)
InitialParse(o) ==
  [out |-> o, firstLine |-> TRUE, stop |-> FALSE, ex |-> NoException,
   doubleEmptyLine |-> FALSE, upgradeHeaderSeen |-> FALSE,
   connectionHeaderSeen |-> FALSE, subprotocol_seen |-> FALSE]

(* A mutant of UpgradeHeader: the value compared before lowering.          *)
UpgradeHeaderCaseSensitive(l) ==
  str_tolower(l.name) = "upgrade" /\ l.value = "websocket"

(* "Upgrade: websocket", the header name and value in any case.            *)
UpgradeHeader(l) ==
  str_tolower(l.name) = "upgrade" /\ str_tolower(l.value) = "websocket"

(* A mutant of SetKey: the key kept once set, as a guard against a        *)
(* repeated header would do.                                               *)
SetKeyOnce(o, value) ==
  IF o.websocket_key = "" THEN [o EXCEPT !.websocket_key = value] ELSE o

SetKey(o, value) == [o EXCEPT !.websocket_key = value]

(* The if-else chain over one well-formed header line.                     *)
HeaderStep(st, l) ==
  LET name == str_tolower(l.name)
      value == l.value
      value_lower == str_tolower(value)
      mqtt == SelectSeq(CommaParts[value], LAMBDA p : strContains(str_tolower(p), "mqtt"))
  IN  IF UpgradeHeader(l)
      THEN [st EXCEPT !.upgradeHeaderSeen = TRUE]
      ELSE IF name = "connection" /\ strContains(value_lower, "upgrade")
      THEN [st EXCEPT !.connectionHeaderSeen = TRUE]
      ELSE IF name = "sec-websocket-key"
      THEN [st EXCEPT !.out = SetKey(@, value)]
      ELSE IF name = "sec-websocket-version"
      THEN IF StoiOf[value] = InvalidArgument
           THEN [st EXCEPT !.ex = InvalidArgument, !.stop = TRUE]
           ELSE [st EXCEPT !.out.websocket_version = StoiOf[value]]
      ELSE IF name = "sec-websocket-protocol" /\ strContains(value_lower, "mqtt")
      THEN IF mqtt = << >> THEN st
           ELSE [st EXCEPT !.out.subprotocol = Last(mqtt), !.subprotocol_seen = TRUE]
      ELSE IF name = "x-real-ip" /\ Length[value] < 64
      THEN [st EXCEPT !.out.xRealIp = value]
      ELSE st

(* A mutant of LineStep: the empty line ends the loop without recording   *)
(* that the header is complete (doubleEmptyLine = true dropped).           *)
LineStepNoComplete(st, l) ==
  IF st.stop THEN st
  ELSE IF st.firstLine
  THEN IF l.kind = "request" /\ l.get
       THEN [st EXCEPT !.firstLine = FALSE]
       ELSE [st EXCEPT !.ex = BadHttpRequest, !.stop = TRUE]
  ELSE IF l.kind = "empty"
  THEN [st EXCEPT !.stop = TRUE]
  ELSE IF SplitFieldCount(l) # 2
  THEN [st EXCEPT !.ex = BadHttpRequest, !.stop = TRUE]
  ELSE HeaderStep(st, l)

(* One turn of the getline loop.                                           *)
LineStep(st, l) ==
  IF st.stop THEN st
  ELSE IF st.firstLine
  THEN IF l.kind = "request" /\ l.get
       THEN [st EXCEPT !.firstLine = FALSE]
       ELSE [st EXCEPT !.ex = BadHttpRequest, !.stop = TRUE]
  ELSE IF l.kind = "empty"
  THEN [st EXCEPT !.doubleEmptyLine = TRUE, !.stop = TRUE]
  ELSE IF SplitFieldCount(l) # 2
  THEN [st EXCEPT !.ex = BadHttpRequest, !.stop = TRUE]
  ELSE HeaderStep(st, l)

(* parseHttpHeader(buf, ...): the loop over the buffer's lines, then the   *)
(* checks of a complete header.  Returns whether the header is complete,   *)
(* the exception thrown, and the output parameters as the call left them.  *)
parseHttpHeader(lines, o) ==
  LET st == FoldLeft(LineStep, InitialParse(o), lines)
      thrown == IF st.ex # NoException THEN st.ex
                ELSE IF st.doubleEmptyLine
                        /\ ~(st.connectionHeaderSeen /\ st.upgradeHeaderSeen
                             /\ st.subprotocol_seen)
                THEN BadHttpRequest
                ELSE NoException
  IN  [complete |-> st.doubleEmptyLine /\ thrown = NoException,
       ex |-> thrown, out |-> st.out]

-----------------------------------------------------------------------------
(* The connection.  Output parameters are members of the client, so they  *)
(* start once and carry over from one parse to the next.                   *)

NoOutputs == [websocket_key |-> "", websocket_version |-> 0,
              subprotocol |-> "", xRealIp |-> ""]

(* The ways line l can be cut by the end of a segment.                     *)
CutForms(l) ==
  IF l.kind = "request"
  THEN IF "name" \in CutKinds THEN {[l EXCEPT !.get = FALSE]} ELSE {}
  ELSE IF l.kind = "header"
  THEN (IF "name" \in CutKinds THEN {[l EXCEPT !.colon = FALSE, !.value = ""]} ELSE {})
       \cup (IF "colon" \in CutKinds THEN {[l EXCEPT !.value = ""]} ELSE {})
       \cup (IF "value" \in CutKinds THEN {[l EXCEPT !.value = p] : p \in Range(CutPrefixes[l.value])} ELSE {})
  ELSE {}

(* How far into line l the cut form f reaches.                             *)
CutDepth(f, l) ==
  IF f.kind = "request" \/ ~f.colon THEN 1
  ELSE IF f.value = "" THEN 2
  ELSE 2 + SelectInSeq(CutPrefixes[l.value], LAMBDA p : p = f.value)

(* How far into line l a received tail reaches; 0 when there is none.      *)
TailDepth(s, l) == IF s = << >> THEN 0 ELSE CutDepth(s[1], l)

Init ==
  /\ request \in Requests
  /\ got = 0
  /\ tail = << >>
  /\ out = NoOutputs
  /\ ex = NoException
  /\ status = "pending"

(* A segment arrives: the buffer grows to the first k lines and maybe the  *)
(* start of the next, and the whole buffer is parsed again.                *)
Arrive ==
  /\ status = "pending"
  /\ \E k \in got..Len(request) :
     \E t \in {<< >>} \cup {<< f >> : f \in IF k < Len(request) THEN CutForms(request[k + 1]) ELSE {}} :
       /\ \/ k > got
          \/ k = got /\ TailDepth(t, request[k + 1]) > TailDepth(tail, request[k + 1])
       /\ LET r == parseHttpHeader(SubSeq(request, 1, k) \o t, out)
          IN  /\ got' = k
              /\ tail' = t
              /\ out' = r.out
              /\ ex' = r.ex
              /\ status' = IF r.ex # NoException THEN "rejected"
                           ELSE IF r.complete THEN "upgraded" ELSE "pending"
  /\ UNCHANGED request

Next == Arrive

(* TCP delivers every byte the client sent.                                *)
Spec == Init /\ [][Next]_vars /\ WF_vars(Arrive)

-----------------------------------------------------------------------------
(* What a handshake asks for, read off the request's headers as a set.    *)

Headers(r) == {r[i] : i \in {j \in 1..Len(r) : r[j].kind = "header"}}

Named(r, n) == {h \in Headers(r) : str_tolower(h.name) = n}

(* The subprotocols the client offers that name MQTT.                      *)
Offered(r) ==
  UNION {{p \in Range(CommaParts[h.value]) : strContains(str_tolower(p), "mqtt")} :
           h \in {g \in Named(r, "sec-websocket-protocol") :
                     strContains(str_tolower(g.value), "mqtt")}}

ValidRequest(r) ==
  /\ r[1].kind = "request" /\ r[1].get
  /\ \E h \in Named(r, "upgrade") : str_tolower(h.value) = "websocket"
  /\ \E h \in Named(r, "connection") : strContains(str_tolower(h.value), "upgrade")
  /\ Offered(r) # {}

(* The value of the last header called n, or d when there is none.        *)
LastValue(r, n, d) ==
  LET is == {i \in 1..Len(r) : r[i].kind = "header" /\ str_tolower(r[i].name) = n}
  IN  IF is = {} THEN d ELSE r[Max(is)].value

(* When the handshake is decided, it is decided as the request asks: it is *)
(* upgraded exactly when the request is a valid MQTT WebSocket upgrade,    *)
(* and then the key and version answered are those the request sent (the  *)
(* last of each), and the subprotocol is one the client offered.  The     *)
(* outputs were also written by the parses of partial buffers before, so  *)
(* this is about what the final parse overwrites.                         *)
UpgradeAsRequested ==
  [][status = "pending" /\ status' # "pending" =>
       /\ (status' = "upgraded") = ValidRequest(request)
       /\ status' = "upgraded" =>
            /\ out'.websocket_key = LastValue(request, "sec-websocket-key", "")
            /\ out'.websocket_version =
                 IF Named(request, "sec-websocket-version") = {} THEN 0
                 ELSE StoiOf[LastValue(request, "sec-websocket-version", "")]
            /\ out'.subprotocol \in Offered(request)]_vars

(* A client that sends a valid upgrade request is eventually upgraded, as  *)
(* long as TCP delivers its bytes, in segments that end between lines or   *)
(* inside a header value (the cuts the segmentation run shows to be safe): *)
(* parseHttpHeader must report the header complete once the empty line is  *)
(* in, or the connection waits for ever.                                   *)
ValidRequestUpgraded == ValidRequest(request) ~> status = "upgraded"

(* The result of the handshake does not depend on how the request was     *)
(* segmented: once decided, the exception (or none) is the one parsing     *)
(* the whole request at once gives, and an upgraded connection has the     *)
(* outputs that parse gives.  parseHttpHeader is re-run on every partial   *)
(* buffer, so a cut line and outputs left by an earlier parse are what     *)
(* this is about.                                                          *)
SegmentationTransparent ==
  LET whole == parseHttpHeader(request, NoOutputs)
  IN  status # "pending" =>
        /\ ex = whole.ex
        /\ status = "upgraded" => out = whole.out

====
