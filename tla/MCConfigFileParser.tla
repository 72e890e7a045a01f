------------------------- MODULE MCConfigFileParser -------------------------
(***************************************************************************)
(* A broker started with flashmq.conf, or with no config path.  The disk *)
(* holds the config file, a plugin, a matching certificate and key, a    *)
(* certificate over the 1 MiB limit and a directory.  The values are the *)
(* strings the lines below use, with what std::stoi and str_tolower make *)
(* of each.                                                               *)
(***************************************************************************)
EXTENDS ConfigFileParser, TLC

Reg(size, pem) ==
  [exists |-> TRUE, readable |-> TRUE, writable |-> TRUE, regular |-> TRUE,
   isdir |-> FALSE, pem |-> pem, size |-> size, dirname |-> "/etc"]

MCFileSystem ==
  [p \in {"flashmq.conf", "auth.so", "cert.pem", "key.pem", "big.pem", "/var/lib"} |->
     CASE p = "flashmq.conf" -> Reg(900, FALSE)
       [] p = "auth.so" -> Reg(40000, FALSE)
       [] p \in {"cert.pem", "key.pem"} -> Reg(1500, TRUE)
       [] p = "big.pem" -> Reg(2000000, TRUE)
       [] p = "/var/lib" -> [Reg(4096, FALSE) EXCEPT !.regular = FALSE, !.isdir = TRUE]]

\* std::stoi of each value: the leading integer, if any, and its range.
MCStoi ==
  [v \in {"yes", "Off", "64", "abc", "Drop", "mqtt", "auth.so", "cert.pem", "key.pem",
          "big.pem", "/var/lib", "10.0.0.0/8", "-5", "-2147483648", "99999999999"} |->
     CASE v = "64" -> 64
       [] v = "-5" -> -5
       [] v = "-2147483648" -> -2147483647 - 1
       [] v = "10.0.0.0/8" -> 10
       [] v = "99999999999" -> OutOfRange
       [] OTHER -> InvalidArgument]

MCLowerOf == [v \in DOMAIN MCStoi |-> CASE v = "Off" -> "off" [] v = "Drop" -> "drop"
                                      [] OTHER -> v]

\* rtrim(value, '/') of each value.
MCRTrimSlash == [v \in DOMAIN MCStoi |-> v]

MCNetworks == {"10.0.0.0/8"}
MCPluginOptKeys == {"plugin_opt_x"}
MCConfigPaths == {"", "flashmq.conf"}

KV(k, v) == [kind |-> "kv", key |-> k, value |-> v]
Mark(kind, name) == [kind |-> kind, key |-> name, value |-> "none"]

\* Edits at the root: every kind of line and every kind of root key.
MCRootLines ==
  { KV("quiet", "yes"), KV("max_qos_msg_pending_per_client", "64"),
    KV("max_qos_msg_pending_per_client", "abc"), KV("retained_messages_mode", "Drop"),
    KV("plugin", "auth.so"), KV("websocket_set_real_ip_from", "10.0.0.0/8"),
    KV("plugin_opt_x", "abc"), KV("bogus", "yes"),
    Mark("start", "listen"), Mark("end", "none"),
    Mark("comment", "none"), Mark("long", "none"), Mark("invalid", "none") }

\* Edits of listen blocks: blocks of either name, TLS files and ports.
MCListenLines ==
  { Mark("start", "listen"), Mark("start", "bridge"), Mark("end", "none"),
    KV("fullchain", "cert.pem"), KV("privkey", "key.pem"), KV("privkey", "auth.so"),
    KV("port", "64"), KV("protocol", "mqtt"), KV("quiet", "Off"), KV("plugin", "/var/lib") }
\* Single lines that loadFile's contract says it must reject with a
\* ConfigFileException: a directory as plugin, a number too large for int,
\* a negative expiry and INT_MIN as buffer size.
MCContractLines ==
  { KV("plugin", "/var/lib"), KV("thread_count", "99999999999"),
    KV("expire_sessions_after_seconds", "-5"),
    KV("client_initial_buffer_size", "-2147483648") }
=============================================================================
