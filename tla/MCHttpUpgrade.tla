---------------------------- MODULE MCHttpUpgrade ----------------------------
(***************************************************************************)
(* Six handshakes: three valid MQTT upgrades (one in mixed case, offering  *)
(* two subprotocols and an X-Real-IP over the 64-character limit; one with *)
(* a short X-Real-IP and no key; one repeating the key and the protocol    *)
(* header, the second without MQTT), and three invalid ones: without a     *)
(* Sec-WebSocket-Protocol, upgrading to h2c, and without "Connection:      *)
(* Upgrade".  The tables hold what str_tolower,                            *)
(* strContains, splitToVector + trim, std::stoi and length return on every *)
(* string the lines and their cuts contain.                                *)
(***************************************************************************)
EXTENDS HttpUpgrade

Key == "x3JJHMbDL1EzLkh9GBhXDw=="
Key2 == "dGhlIHNhbXBsZSBub25jZQ=="
LongIp == "2001:0db8:85a3:0000:0000:8a2e:0370:7334, 2001:0db8:85a3:0000:0000:8a2e:0370:7335"
LongIpCut == "2001:0db8:85a3:0000:0000:8a2e:0370:7334"

Get == [kind |-> "request", get |-> TRUE]
End == [kind |-> "empty"]
H(n, v) == [kind |-> "header", name |-> n, colon |-> TRUE, value |-> v]

MCRequests ==
  { << Get, H("Upgrade", "WebSocket"), H("Connection", "keep-alive, Upgrade"),
       H("Sec-WebSocket-Key", Key), H("Sec-WebSocket-Version", "13"),
       H("Sec-WebSocket-Protocol", "mqttv3.1, mqtt"), H("X-Real-IP", LongIp), End >>,
    << Get, H("Connection", "Upgrade"), H("Upgrade", "websocket"),
       H("Sec-WebSocket-Protocol", "mqtt"), H("X-Real-IP", "198.51.100.7"),
       H("Sec-WebSocket-Version", "13"), End >>,
    << Get, H("Upgrade", "websocket"), H("Connection", "Upgrade"),
       H("Sec-WebSocket-Key", Key), End >>,
    << Get, H("Upgrade", "h2c"), H("Connection", "Upgrade"),
       H("Sec-WebSocket-Protocol", "mqtt"), End >>,
    << Get, H("Sec-WebSocket-Key", Key2), H("Sec-WebSocket-Protocol", "mqtt"),
       H("Upgrade", "websocket"), H("Connection", "Upgrade"),
       H("Sec-WebSocket-Protocol", "chat"), H("Sec-WebSocket-Key", Key), End >>,
    << Get, H("Upgrade", "websocket"), H("Connection", "keep-alive"),
       H("Sec-WebSocket-Protocol", "mqtt"), End >> }

\* Where a segment may end inside each value.
MCCutPrefixes ==
  [v \in {"WebSocket", "websocket", "h2c", "keep-alive, Upgrade", "Upgrade", Key, "13",
          "mqttv3.1, mqtt", "mqtt", LongIp, "198.51.100.7", Key2, "chat", "keep-alive"} |->
     CASE v = "WebSocket" -> << "W", "WebSo" >>
       [] v = "websocket" -> << "w", "web", "websock" >>
       [] v = "h2c" -> << "h", "h2" >>
       [] v = "keep-alive, Upgrade" -> << "keep-alive, Up" >>
       [] v = "Upgrade" -> << "U", "Upgrad" >>
       [] v = Key -> << "x", "x3JJ", "x3JJHMbDL1Ez" >>
       [] v = "13" -> << "1" >>
       [] v = "mqttv3.1, mqtt" -> << "mqtt", "mqttv3.1, mq" >>
       [] v = "mqtt" -> << "m", "mq", "mqt" >>
       [] v = LongIp -> << "2001:0db8", LongIpCut >>
       [] v = "198.51.100.7" -> << "198.51" >>
       [] v = Key2 -> << "dGhl" >>
       [] v = "chat" -> << "ch" >>
       [] v = "keep-alive" -> << "keep" >>]

Names == {"Upgrade", "Connection", "Sec-WebSocket-Key", "Sec-WebSocket-Version",
          "Sec-WebSocket-Protocol", "X-Real-IP"}

Values == DOMAIN MCCutPrefixes \cup UNION {Range(MCCutPrefixes[v]) : v \in DOMAIN MCCutPrefixes} \cup {""}

MCLower ==
  [s \in Names \cup Values \cup {"mqttv3.1"} |->
     CASE s = "Upgrade" -> "upgrade"
       [] s = "Connection" -> "connection"
       [] s = "Sec-WebSocket-Key" -> "sec-websocket-key"
       [] s = "Sec-WebSocket-Version" -> "sec-websocket-version"
       [] s = "Sec-WebSocket-Protocol" -> "sec-websocket-protocol"
       [] s = "X-Real-IP" -> "x-real-ip"
       [] s = "WebSocket" -> "websocket"
       [] s = "W" -> "w"
       [] s = "WebSo" -> "webso"
       [] s = "keep-alive, Upgrade" -> "keep-alive, upgrade"
       [] s = "keep-alive, Up" -> "keep-alive, up"
       [] s = "U" -> "u"
       [] s = "Upgrad" -> "upgrad"
       [] s = Key -> "x3jjhmbdl1ezlkh9gbhxdw=="
       [] s = "x3JJ" -> "x3jj"
       [] s = "x3JJHMbDL1Ez" -> "x3jjhmbdl1ez"
       [] s = Key2 -> "dghlihnhbxbszsbub25jzq=="
       [] s = "dGhl" -> "dghl"
       [] OTHER -> s]

MCContaining ==
  [n \in {"upgrade", "mqtt"} |->
     IF n = "upgrade" THEN {"upgrade", "keep-alive, upgrade"}
     ELSE {"mqttv3.1, mqtt", "mqttv3.1, mq", "mqtt", "mqttv3.1"}]

MCCommaParts ==
  [v \in {"mqttv3.1, mqtt", "mqttv3.1, mq", "mqtt"} |->
     CASE v = "mqttv3.1, mqtt" -> << "mqttv3.1", "mqtt" >>
       [] v = "mqttv3.1, mq" -> << "mqttv3.1", "mq" >>
       [] v = "mqtt" -> << "mqtt" >>]

MCStoiOf == [v \in {"13", "1", ""} |-> IF v = "" THEN InvalidArgument ELSE IF v = "1" THEN 1 ELSE 13]

MCLength == [v \in {LongIp, LongIpCut, "2001:0db8", "198.51.100.7", "198.51", ""} |->
               CASE v = LongIp -> 80
                 [] v = "2001:0db8" -> 9
                 [] v = LongIpCut -> 39
                 [] v = "198.51.100.7" -> 12
                 [] v = "198.51" -> 6
                 [] v = "" -> 0]

====
