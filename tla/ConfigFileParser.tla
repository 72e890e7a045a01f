-------------------------- MODULE ConfigFileParser --------------------------
(***************************************************************************)
(* ConfigFileParser::loadFile of src/configfileparser.cpp and the helpers *)
(* of src/utils.cpp it calls.  A configuration file is a sequence of      *)
(* lines, each abstracted to what the trimmed line is to the parser: a    *)
(* comment, an empty line, a line longer than 256 characters, a line     *)
(* matching key_value_regex (key and value), block_regex_start (its name) *)
(* or block_regex_end, or a line matching none of them.  Keys and values  *)
(* are strings; what std::stoi, str_tolower and rtrim(value, '/') make of *)
(* a value, and which paths exist on disk, are constants of the model.   *)
(*                                                                         *)
(* loadFile runs to completion on the main thread (at start-up, for       *)
(* --test-config and on a reload), so it is one step: the new settings,   *)
(* or an exception and the old settings.                                  *)
(***************************************************************************)
EXTENDS Integers, Sequences, SequencesExt, FiniteSets, Bitwise

CONSTANTS
  FileSystem,     \* path -> [exists, readable, writable, regular, isdir, pem :
                  \*          BOOLEAN, size : Nat, dirname : path]
  Stoi,           \* value -> what std::stoi returns, or InvalidArgument/OutOfRange
  LowerOf,        \* value -> str_tolower(value)
  RTrimSlash,     \* value -> rtrim(value, '/')
  Networks,       \* the values Network(value) accepts as a network
  PluginOptKeys,  \* the keys that start with "plugin_opt_"
  AbsoluteMaxPacketSize,
  Default,        \* a setting no line set: Settings' default is kept
  InvalidArgument, OutOfRange   \* the exceptions std::stoi throws

\* What a failed load throws: a ConfigFileException, or an exception of
\* another type that escaped the parser.
ConfigFileException == "ConfigFileException"
NoException == "none"


\* The line kinds; a line is [kind, key, value] (key is a block's name).
LineKinds == {"comment", "empty", "long", "kv", "start", "end", "invalid"}

(* ConfigFileParser::ConfigFileParser: the valid keys at the root and in  *)
(* a listen block.                                                        *)
ValidKeys ==
  {"plugin", "plugin_serialize_init", "plugin_serialize_auth_checks",
   "plugin_timer_period", "log_file", "quiet", "allow_unsafe_clientid_chars",
   "allow_unsafe_username_chars", "client_initial_buffer_size", "max_packet_size",
   "log_debug", "log_subscriptions", "mosquitto_password_file", "mosquitto_acl_file",
   "allow_anonymous", "rlimit_nofile", "expire_sessions_after_seconds",
   "thread_count", "storage_dir", "max_qos_msg_pending_per_client",
   "max_qos_bytes_pending_per_client", "wills_enabled", "retained_messages_mode",
   "expire_retained_messages_after_seconds",
   "expire_retained_messages_time_budget_ms", "websocket_set_real_ip_from",
   "shared_subscription_targeting", "max_incoming_topic_alias_value",
   "max_outgoing_topic_alias_value"}

ValidListenKeys ==
  {"port", "protocol", "fullchain", "privkey", "inet_protocol",
   "inet4_bind_address", "inet6_bind_address", "haproxy"}

\* The outcome of converting and checking one value: [ex, val].
Ok(v) == [ex |-> NoException, val |-> v]
Fail == [ex |-> ConfigFileException, val |-> Default]

\* The file-system entry of a path; a value never used as a path has none.
Entry(p) ==
  IF p \in DOMAIN FileSystem THEN FileSystem[p]
  ELSE [exists |-> FALSE, readable |-> FALSE, writable |-> FALSE, regular |-> FALSE,
        isdir |-> FALSE, pem |-> FALSE, size |-> 0, dirname |-> p]

(* isPowerOfTwo(int n): (n != 0) && (n & (n - 1)) == 0 on 32-bit two's  *)
(* complement.  For a negative n both n and n - 1 have the sign bit set, *)
(* except for INT_MIN, where n - 1 wraps to INT_MAX and the & is 0 (the   *)
(* popcount form GCC may compile this to gives the same answer).          *)
isPowerOfTwo(n) ==
  /\ n # 0
  /\ IF n > 0 THEN (n & (n - 1)) = 0 ELSE n = -2147483647 - 1

\* stringTruthiness: yes/true/on and no/false/off, in any case.
stringTruthiness(v) ==
  CASE LowerOf[v] \in {"yes", "true", "on"} -> Ok(TRUE)
    [] LowerOf[v] \in {"no", "false", "off"} -> Ok(FALSE)
    [] OTHER -> Fail

\* Mutant: the catch of std::invalid_argument is missing.
StoiCheckedNoCatch(v, Accepted) ==
  CASE Stoi[v] = InvalidArgument -> [ex |-> InvalidArgument, val |-> Default]
    [] Stoi[v] = OutOfRange -> [ex |-> OutOfRange, val |-> Default]
    [] Stoi[v] \in Accepted -> Ok(Stoi[v])
    [] OTHER -> Fail

(* std::stoi(value) followed by a range check (Accepted: the values the   *)
(* check lets through): invalid_argument is caught and rethrown as a      *)
(* ConfigFileException; out_of_range is not caught.                       *)
StoiChecked(v, Accepted) ==
  CASE Stoi[v] = InvalidArgument -> Fail
    [] Stoi[v] = OutOfRange -> [ex |-> OutOfRange, val |-> Default]
    [] Stoi[v] \in Accepted -> Ok(Stoi[v])
    [] OTHER -> Fail

(* uint32_t newVal = std::stoi(value): the int's bits read unsigned; the *)
(* checks below compare with constants under 2^31, where a negative int  *)
(* reads as 2^32 + n, above them all.  The stored value is n's bits.     *)
StoiUint32(v, Accepted) == StoiChecked(v, Accepted)

\* (uint32_t)n < c, for 0 < c <= 2^31.
Uint32Below(n, c) == n >= 0 /\ n < c

-----------------------------------------------------------------------------
(* The checks on paths.  TRUE means the check does not throw.             *)

(* checkFileExistsAndReadable(key, pathToCheck, max_size): access() tests *)
(* pathToCheck, but stat() is called on the parser's own path, the config *)
(* file, and the regular-file and size tests read that stat.              *)
checkFileExistsAndReadable(path, pathToCheck, max_size) ==
  /\ Entry(pathToCheck).readable
  /\ Entry(path).exists
  /\ Entry(path).regular
  /\ Entry(path).size <= max_size

\* checkFileOrItsDirWritable: the file is writable, or it is not there and
\* its directory (dirnameOf) is writable.
checkFileOrItsDirWritable(filepath) ==
  IF Entry(filepath).exists THEN Entry(filepath).writable
  ELSE Entry(Entry(filepath).dirname).writable

\* checkWritableDir<ConfigFileException>: an existing, writable directory.
checkWritableDir(p) == Entry(p).exists /\ Entry(p).isdir /\ Entry(p).writable

\* getFileSize: the size stat() reports, -1 when stat() fails.
getFileSize(p) == IF Entry(p).exists THEN Entry(p).size ELSE -1

(* testSsl: both files named, neither of size 0, and both load as PEM     *)
(* (a certificate and its matching key, abstracted to the pem flag).      *)
testSsl(fullchain, privkey) ==
  /\ fullchain # Default /\ privkey # Default
  /\ getFileSize(fullchain) # 0 /\ getFileSize(privkey) # 0
  /\ Entry(fullchain).pem /\ Entry(privkey).pem

\* Listener::isValid: a listener with a fullchain or privkey must pass testSsl.
ListenerIsValid(l) ==
  (l["fullchain"] # Default \/ l["privkey"] # Default) => testSsl(l["fullchain"], l["privkey"])

FileCheck(path, v, max_size) == IF checkFileExistsAndReadable(path, v, max_size) THEN Ok(v) ELSE Fail

OneOf(v, allowed) == IF v \in allowed THEN Ok(v) ELSE Fail

BoolKeys ==
  {"quiet", "allow_unsafe_clientid_chars", "allow_unsafe_username_chars",
   "plugin_serialize_init", "plugin_serialize_auth_checks", "log_debug",
   "log_subscriptions", "allow_anonymous", "wills_enabled"}

-----------------------------------------------------------------------------
(* The branches of the two key chains of loadFile: the value a key stores  *)
(* in tmpSettings or the listener, or the exception its checks throw.     *)

RootValue(path, key, v) ==
  CASE key = "plugin" -> FileCheck(path, v, 104857600)
    [] key = "log_file" -> IF checkFileOrItsDirWritable(v) THEN Ok(v) ELSE Fail
    [] key \in BoolKeys -> stringTruthiness(v)
    [] key = "client_initial_buffer_size" -> StoiChecked(v, {n \in Int : isPowerOfTwo(n)})
    [] key = "max_packet_size" -> StoiChecked(v, {n \in Int : n <= AbsoluteMaxPacketSize})
    [] key \in {"mosquitto_password_file", "mosquitto_acl_file"} -> FileCheck(path, v, 1073741824)
    [] key = "rlimit_nofile" -> StoiChecked(v, {n \in Int : n > 0})
    [] key = "expire_sessions_after_seconds" -> StoiUint32(v, {n \in Int : ~(n # 0 /\ Uint32Below(n, 60))})
    [] key \in {"plugin_timer_period", "thread_count"} -> StoiChecked(v, {n \in Int : n >= 0})
    [] key = "storage_dir" -> IF checkWritableDir(RTrimSlash[v]) THEN Ok(RTrimSlash[v]) ELSE Fail
    [] key = "max_qos_msg_pending_per_client" -> StoiChecked(v, {n \in Int : n >= 32 /\ n <= 65535})
    [] key = "max_qos_bytes_pending_per_client" -> StoiChecked(v, {n \in Int : n >= 4096})
    [] key \in {"max_incoming_topic_alias_value", "max_outgoing_topic_alias_value"} ->
         StoiChecked(v, {n \in Int : n >= 0 /\ n <= 65535})
    [] key = "retained_messages_mode" ->
         OneOf(LowerOf[v], {"enabled", "downgrade", "drop", "disconnect_with_error"})
    [] key = "expire_retained_messages_after_seconds" -> StoiUint32(v, {n \in Int : ~Uint32Below(n, 1)})
    [] key = "expire_retained_messages_time_budget_ms" -> StoiUint32(v, Int)
    [] key = "websocket_set_real_ip_from" -> OneOf(v, Networks)
    [] key = "shared_subscription_targeting" -> OneOf(LowerOf[v], {"round_robin", "sender_hash"})

\* In a listen block "protocol" stores websocket = (value == "websockets").
ListenValue(path, key, v) ==
  CASE key = "protocol" -> IF v \in {"mqtt", "websockets"} THEN Ok(v = "websockets") ELSE Fail
    [] key = "port" -> StoiChecked(v, Int)
    [] key \in {"fullchain", "privkey"} -> FileCheck(path, v, 1048576)
    [] key = "inet_protocol" -> OneOf(v, {"ip4", "ip6", "ip4_ip6"})
    [] key \in {"inet4_bind_address", "inet6_bind_address"} -> Ok(v)
    [] key = "haproxy" -> stringTruthiness(v)

\* A default-constructed Settings and Listener.
DefaultSettings ==
  [root |-> [k \in ValidKeys |-> IF k = "websocket_set_real_ip_from" THEN << >> ELSE Default],
   listeners |-> << >>,
   pluginOpts |-> [k \in PluginOptKeys |-> Default]]

DefaultListener == [k \in ValidListenKeys |-> Default]

-----------------------------------------------------------------------------
(* Plausible fault: the check for a block left open after the last line *)
(* is missing.                                                            *)
RECURSIVE PreScanNoUnclosedCheck(_, _, _)
PreScanNoUnclosedCheck(lines, inBlock, kept) ==
  IF lines = << >> THEN Ok(kept)
  ELSE LET l == Head(lines)
       IN  CASE l.kind \in {"comment", "empty"} -> PreScanNoUnclosedCheck(Tail(lines), inBlock, kept)
             [] l.kind = "long" -> Fail
             [] (l.kind = "start" /\ inBlock) \/ (l.kind = "end" /\ ~inBlock) -> Fail
             [] l.kind = "invalid" -> Fail
             [] OTHER -> PreScanNoUnclosedCheck(Tail(lines),
                                 IF l.kind = "kv" THEN inBlock ELSE l.kind = "start",
                                 Append(kept, l))

(* The first loop of loadFile: skip comments and empty lines, reject a    *)
(* long line, a block start inside a block, a block end outside one and a *)
(* line no regex matches, keep the rest; a block still open at the end is *)
(* an error.  The result is [ex, val], val the lines kept.                *)
RECURSIVE PreScan(_, _, _)
PreScan(lines, inBlock, kept) ==
  IF lines = << >>
  THEN IF inBlock THEN Fail ELSE Ok(kept)
  ELSE LET l == Head(lines)
       IN  CASE l.kind \in {"comment", "empty"} -> PreScan(Tail(lines), inBlock, kept)
             [] l.kind = "long" -> Fail
             [] (l.kind = "start" /\ inBlock) \/ (l.kind = "end" /\ ~inBlock) -> Fail
             [] l.kind = "invalid" -> Fail
             [] OTHER -> PreScan(Tail(lines),
                                 IF l.kind = "kv" THEN inBlock ELSE l.kind = "start",
                                 Append(kept, l))

(* Plausible fault: a listen block's closing line adds the listener but  *)
(* leaves curParseLevel at Listen.                                        *)
ProcessLineKeepsLevel(path, st, l) ==
  LET Throw(e) == [st EXCEPT !.ex = e]
  IN  CASE l.kind = "start" ->
             IF l.key = "listen"
             THEN [st EXCEPT !.level = "Listen", !.listener = DefaultListener]
             ELSE Throw(ConfigFileException)
        [] l.kind = "end" /\ st.level = "Listen" ->
             IF ListenerIsValid(st.listener)
             THEN [st EXCEPT !.tmp.listeners = Append(@, st.listener)]
             ELSE Throw(ConfigFileException)
        [] l.kind = "end" -> [st EXCEPT !.level = "Root"]
        [] st.level = "Listen" ->
             IF l.key \notin ValidListenKeys THEN Throw(ConfigFileException)
             ELSE LET r == ListenValue(path, l.key, l.value)
                  IN  IF r.ex # NoException THEN Throw(r.ex)
                      ELSE [st EXCEPT !.listener[l.key] = r.val]
        [] l.key \in PluginOptKeys -> [st EXCEPT !.tmp.pluginOpts[l.key] = l.value]
        [] l.key \notin ValidKeys -> Throw(ConfigFileException)
        [] OTHER ->
             LET r == RootValue(path, l.key, l.value)
             IN  IF r.ex # NoException THEN Throw(r.ex)
                 ELSE [st EXCEPT !.tmp.root[l.key] =
                         IF l.key = "websocket_set_real_ip_from" THEN Append(@, r.val)
                         ELSE r.val]

(* One iteration of the second loop.  st is [level, listener, tmp, ex]:  *)
(* curParseLevel, curListener, tmpSettings and the exception thrown.      *)
ProcessLine(path, st, l) ==
  LET Throw(e) == [st EXCEPT !.ex = e]
  IN  CASE l.kind = "start" ->
             IF l.key = "listen"
             THEN [st EXCEPT !.level = "Listen", !.listener = DefaultListener]
             ELSE Throw(ConfigFileException)
        [] l.kind = "end" /\ st.level = "Listen" ->
             IF ListenerIsValid(st.listener)
             THEN [st EXCEPT !.tmp.listeners = Append(@, st.listener), !.level = "Root"]
             ELSE Throw(ConfigFileException)
        [] l.kind = "end" -> [st EXCEPT !.level = "Root"]
        [] st.level = "Listen" ->
             IF l.key \notin ValidListenKeys THEN Throw(ConfigFileException)
             ELSE LET r == ListenValue(path, l.key, l.value)
                  IN  IF r.ex # NoException THEN Throw(r.ex)
                      ELSE [st EXCEPT !.listener[l.key] = r.val]
        [] l.key \in PluginOptKeys -> [st EXCEPT !.tmp.pluginOpts[l.key] = l.value]
        [] l.key \notin ValidKeys -> Throw(ConfigFileException)
        [] OTHER ->
             LET r == RootValue(path, l.key, l.value)
             IN  IF r.ex # NoException THEN Throw(r.ex)
                 ELSE [st EXCEPT !.tmp.root[l.key] =
                         IF l.key = "websocket_set_real_ip_from" THEN Append(@, r.val)
                         ELSE r.val]

\* The second loop: the kept lines in order, up to the first exception.
RECURSIVE Process(_, _, _)
Process(path, st, lines) ==
  IF lines = << >> \/ st.ex # NoException THEN st
  ELSE Process(path, ProcessLine(path, st, Head(lines)), Tail(lines))

(* loadFile, up to the assignment of the settings: the config file must  *)
(* pass checkFileExistsAndReadable (10 MiB), then the two loops.  The     *)
(* result is [ex, val], val the tmpSettings built.                         *)
LoadResult(path, lines) ==
  LET pre == PreScan(lines, FALSE, << >>)
      st == Process(path, [level |-> "Root", listener |-> DefaultListener,
                           tmp |-> DefaultSettings, ex |-> NoException], pre.val)
  IN  CASE ~checkFileExistsAndReadable(path, path, 10485760) -> Fail
        [] pre.ex # NoException -> pre
        [] OTHER -> [ex |-> st.ex, val |-> st.tmp]

-----------------------------------------------------------------------------
(* The parser of one configuration path, loaded again and again (start-up,*)
(* --test-config, reloads) while the file is edited between loads.        *)

CONSTANTS
  ConfigPaths,    \* the parser's path: a file, or "" when none was given
  Lines,          \* the lines an edit may add
  MaxLines        \* bound on the length of the file

NoLoad == [test |-> FALSE, ex |-> "no load"]

VARIABLES
  path,       \* ConfigFileParser::path, fixed by the constructor
  file,       \* the lines of the file on disk
  settings,   \* ConfigFileParser::settings, what getSettings() returns
  lastLoad    \* [test, ex] of the step that just loaded, NoLoad after an edit

vars == <<path, file, settings, lastLoad>>

Init ==
  /\ path \in ConfigPaths
  /\ file = << >>
  /\ settings = DefaultSettings
  /\ lastLoad = NoLoad

\* The file is edited: a line is added at the end, or the last one removed.
AppendLine(l) ==
  /\ Len(file) < MaxLines
  /\ file' = Append(file, l)
  /\ lastLoad' = NoLoad
  /\ UNCHANGED <<path, settings>>

RemoveLastLine ==
  /\ file # << >>
  /\ file' = Front(file)
  /\ lastLoad' = NoLoad
  /\ UNCHANGED <<path, settings>>

(* loadFile(test): an empty path returns at once; otherwise the settings  *)
(* are replaced by tmpSettings only if nothing threw and test is false.   *)
loadFile(test) ==
  /\ IF path = ""
     THEN /\ lastLoad' = [test |-> test, ex |-> NoException]
          /\ UNCHANGED settings
     ELSE LET r == LoadResult(path, file)
          IN  /\ lastLoad' = [test |-> test, ex |-> r.ex]
              /\ settings' = IF r.ex = NoException /\ ~test THEN r.val ELSE settings
  /\ UNCHANGED <<path, file>>

Next ==
  \/ \E l \in Lines : AppendLine(l)
  \/ RemoveLastLine
  \/ \E test \in BOOLEAN : loadFile(test)

Spec == Init /\ [][Next]_vars

TypeOK ==
  /\ path \in ConfigPaths
  /\ file \in Seq(Lines) /\ Len(file) <= MaxLines
  /\ DOMAIN settings.root = ValidKeys /\ DOMAIN settings.pluginOpts = PluginOptKeys
  /\ \A n \in 1..Len(settings.listeners) : DOMAIN settings.listeners[n] = ValidListenKeys
  /\ lastLoad \in {NoLoad} \cup [test : BOOLEAN, ex : {NoException, ConfigFileException, OutOfRange}]

-----------------------------------------------------------------------------
(* What a configuration file means, as spec 6 and the documented keys     *)
(* describe it, written over the whole file rather than line by line:     *)
(* comments and empty lines do not count; blocks are "listen { ... }",    *)
(* neither nested nor left open; the last line of a key (at the root or   *)
(* in a block) gives its value, except websocket_set_real_ip_from, whose  *)
(* values are all kept in order; a listener per block, in file order.     *)

Significant(lines) == SelectSeq(lines, LAMBDA l : l.kind \notin {"comment", "empty"})

\* The block a line of K belongs to: the index of its opening line, or 0.
Owner(K, i) ==
  LET S == {s \in 1..i - 1 : K[s].kind = "start" /\ \A j \in s + 1..i - 1 : K[j].kind # "end"}
  IN  IF S = {} THEN 0 ELSE Max(S)

KeyLines(K, owner, k) == {i \in 1..Len(K) : K[i].kind = "kv" /\ K[i].key = k /\ Owner(K, i) = owner}

SpecListener(cfg, K, s) ==
  [k \in ValidListenKeys |->
     IF KeyLines(K, s, k) = {} THEN Default
     ELSE ListenValue(cfg, k, K[Max(KeyLines(K, s, k))].value).val]

SpecSettings(cfg, lines) ==
  LET K == Significant(lines)
      Starts == SetToSortSeq({i \in 1..Len(K) : K[i].kind = "start"}, <)
      LastValue(k) == K[Max(KeyLines(K, 0, k))].value
      All(k) == SetToSortSeq(KeyLines(K, 0, k), <)
  IN  [root |-> [k \in ValidKeys |->
                   IF k = "websocket_set_real_ip_from"
                   THEN [n \in 1..Len(All(k)) |-> K[All(k)[n]].value]
                   ELSE IF KeyLines(K, 0, k) = {} THEN Default
                   ELSE RootValue(cfg, k, LastValue(k)).val],
       listeners |-> [n \in 1..Len(Starts) |-> SpecListener(cfg, K, Starts[n])],
       pluginOpts |-> [k \in PluginOptKeys |->
                         IF KeyLines(K, 0, k) = {} THEN Default ELSE LastValue(k)]]

SpecAccepts(cfg, lines) ==
  LET K == Significant(lines)
      Marks == SelectSeq(K, LAMBDA l : l.kind \in {"start", "end"})
  IN  /\ checkFileExistsAndReadable(cfg, cfg, 10485760)
      /\ \A i \in 1..Len(lines) : lines[i].kind \notin {"long", "invalid"}
      /\ Len(Marks) % 2 = 0
      /\ \A i \in 1..Len(Marks) : Marks[i].kind = IF i % 2 = 1 THEN "start" ELSE "end"
      /\ \A i \in 1..Len(K) :
           /\ K[i].kind = "start" =>
                K[i].key = "listen" /\ ListenerIsValid(SpecListener(cfg, K, i))
           /\ K[i].kind = "kv" /\ Owner(K, i) # 0 =>
                K[i].key \in ValidListenKeys
                /\ ListenValue(cfg, K[i].key, K[i].value).ex = NoException
           /\ K[i].kind = "kv" /\ Owner(K, i) = 0 =>
                \/ K[i].key \in PluginOptKeys
                \/ K[i].key \in ValidKeys
                   /\ RootValue(cfg, K[i].key, K[i].value).ex = NoException

LoadStep == lastLoad' # NoLoad

\* The outcome of the last step as the abstract specification sees it.
Outcome ==
  CASE lastLoad = NoLoad -> "none"
    [] lastLoad.ex = NoException -> "accepted"
    [] OTHER -> "rejected"

Abstract == INSTANCE ConfigReload
              WITH Paths <- ConfigPaths, Initial <- DefaultSettings,
                   Accepts <- SpecAccepts, Meaning <- SpecSettings,
                   outcome <- Outcome

(* loadFile implements ConfigReload: a load succeeds exactly when the     *)
(* whole file is valid, and then (unless it was a test) the settings      *)
(* become what the whole file says; a failed or test load leaves the      *)
(* previous settings.  This is about the two-pass loop of loadFile, the   *)
(* parse levels and curListener carried across lines, and the final       *)
(* "if (!test)".                                                          *)
ImplementsConfigReload == Abstract!Spec

\* A file that loadFile accepted for a key is readable, regular and within
\* the key's size limit (checkFileExistsAndReadable's max_size).
WithinLimit(p, max_size) == Entry(p).readable /\ Entry(p).regular /\ Entry(p).size <= max_size

\* The limits loadFile's error messages give for the file and numeric keys.
FileLimit == [plugin |-> 104857600, mosquitto_password_file |-> 1073741824,
              mosquitto_acl_file |-> 1073741824, fullchain |-> 1048576, privkey |-> 1048576]

Documented(key, n) ==
  CASE key = "client_initial_buffer_size" -> \E i \in 0..30 : n = 2^i
    [] key = "expire_sessions_after_seconds" -> n = 0 \/ n >= 60
    [] key = "expire_retained_messages_after_seconds" -> n >= 1
    [] key = "rlimit_nofile" -> n > 0
    [] OTHER -> TRUE

AsDocumented(l) ==
  /\ l.key \in DOMAIN FileLimit => WithinLimit(l.value, FileLimit[l.key])
  /\ Stoi[l.value] \notin {InvalidArgument, OutOfRange} => Documented(l.key, Stoi[l.value])

(* The contract of loadFile (spec 7, and the limits its error messages    *)
(* state): a load either throws a ConfigFileException, or succeeds and   *)
(* every file the file names passed the readable, regular-file and size  *)
(* checks, and every number is in its documented range.  It is about      *)
(* checkFileExistsAndReadable's stat, the catch around std::stoi, the     *)
(* uint32_t conversions and isPowerOfTwo.                                 *)
LoadContract ==
  [][LoadStep /\ path # "" =>
       /\ lastLoad'.ex \in {NoException, ConfigFileException}
       /\ lastLoad'.ex = NoException =>
            \A i \in 1..Len(file) : file[i].kind = "kv" => AsDocumented(file[i])]_vars

=============================================================================
