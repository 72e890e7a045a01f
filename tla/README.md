# TLA+ models of FlashMQ

This directory holds TLA+ models of the parts of FlashMQ whose source is in
`src/`, the TLC configurations that check them, and `PROJECT.json`. That file
records:
- the components;
- the runs and the mutants that show each property can fail;
- the map from every modelling definition to the source lines it translates;
- the findings;
- the hazards of the code.

## The system and its parts

FlashMQ is a multi-threaded MQTT broker. The source in `src/` has six parts.

| Part | Source | What it does | State |
|---|---|---|---|
| Topic matching and validation | `utils.cpp` 61-101, 206-257, 287-305, 787-808 | `topicsMatch`, `splitToVector`, `isValidPublishPath`, `isValidSubscribePath`, `isValidShareName`, `parseSubscriptionShare`. The subscription tree and every publish use them. | none (pure functions) |
| UTF-8 validation | `utils.cpp` 103-190 | `isValidUtf8Generic`, a byte-by-byte decoder. It checks topics, client ids and strings from clients. | none (pure) |
| QoS publish queue | `qospacketqueue.cpp` | A session's list of QoS 1/2 publishes waiting for an ack, with a byte counter. The caller compares the counter with `max_qos_bytes_pending_per_client`. | list of entries, `qosQueueBytes` |
| Retained messages file | `retainedmessagesdb.cpp` | Saves the retained messages to a versioned file (v4 format) and reads v1-v4 files back at start-up. Each message's age is rebuilt from the saved time and the wall clock. | the file on disk |
| Configuration parser | `configfileparser.cpp`, plus helpers in `utils.cpp` | `loadFile` reads the config file on start-up, on a test (`--test-config`) and on every reload. A first pass checks the block structure and the line syntax. A second pass parses every key into a new `Settings`. That object replaces the current settings only if nothing threw. | current `Settings`, listeners, plugin options |
| WebSocket upgrade handshake | `utils.cpp` 402-482, plus `split`, `str_tolower`, `strContains` | `parseHttpHeader` reads the bytes a WebSocket client has sent so far. It returns false while the header is incomplete, so its caller runs it again on the grown buffer after every read. It writes the key, version, subprotocol and X-Real-IP into output parameters that belong to the client. | the client's output fields, across calls |

`mainapp.h` declares the application object: worker threads, the
save-state thread and the reload entry points. `types.h` declares protocol
enumerations and plain structs. Neither has behaviour in `src/`.

How the parts interact:
- Topic validation runs before matching. `topicsMatch` assumes, without
  checking, that a `#` is the last level of the filter, so it depends on
  `isValidSubscribePath` to establish that.
- The config parser produces the limits the QoS queue's caller enforces
  (`max_qos_msg_pending_per_client`, `max_qos_bytes_pending_per_client`).
  It also produces `storage_dir` and `retained_messages_mode`, which decide
  whether and where the retained file is written.
- The retained file is written from a snapshot of the retained table and
  restored into it at start-up.
- The handshake parser runs before any MQTT packet of a WebSocket client. Its
  subprotocol and `X-Real-IP` results are used by the connection afterwards.

## Modules

| Module | Models | State and actions |
|---|---|---|
| `TopicMatcher` | the topic functions of `utils.cpp` | Operators over strings, as sequences of characters: `SplitToVector` (RECURSIVE) and `splitToVectorInto`, which appends to its output as the code does; `topicsMatch`, which takes the thread's `thread_local` scratch vectors (`subscribeParts`, `publishParts`), clears them (`ClearParts`), refills them and returns them with its result; `isValidPublishPath`, `isValidSubscribePath`, `isValidShareName`, `parseSubscriptionShare`. The reference definitions `Segments` and `SpecMatch` state spec section 3 declaratively. |
| `MCTopicMatcher` | harness | Holds a (filter, topic) pair. `MatchStep` adds or drops one character of either string, so every short input is reached; each such pair is the first call on a thread, with empty scratch vectors. `ThreadCall` is one thread making any sequence of calls over 7 filters and 4 topics. The `scratch` variable carries the vectors from one call to the next. |
| `Utf8Validation` | `isValidUtf8Generic` | `DecodeStep` is the loop body, and the function is `FoldLeft` of it over the bytes. `CodePointAccepted` is the check made at the end of each multi-byte character. The reference `SpecValidUtf8` is built from the shortest encodings of the allowed code points. |
| `MCUtf8Validation` | harness | Byte strings of up to 4 bytes drawn from 19 boundary bytes, with and without the publish-character check. |
| `QoSPublishQueue` | `QoSPublishQueue` | VARIABLES `queue` and `qosQueueBytes`. Actions: `QueuePublish` (the `Publish&&` overload), `QueuePublishFromFactory` (the factory overload), `EraseById` (`erase(packet_id)`, which erases the first entry with that id and clamps the counter at 0) and `EraseAt` (`erase(iterator)`). Queueing is guarded by `CallerMayQueue`, the session's count and byte limits. |
| `RetainedMessagesDB` | `retainedmessagesdb.cpp` | The file format as a sequence of typed fields. `openWrite` and `saveData` give the fields written. `openRead` decides the version from the magic string. `readData`, `ReadBatches` and `ReadMessages` (mutually RECURSIVE) translate `readData` and the two loops of `readDataV3V4`, including the `eofFound` early exits. `PersistenceStateAge` and `PubAge` rebuild the age as a `uint32_t`. |
| `RetainedPersistence` | a broker that saves and restarts | Composes `RetainedMessagesDB` (via `INSTANCE`) with the retained table, the wall clock, crashes, saves cut short (`TornSave`) and restarts (`Start`). At a start the wall clock may read any time, including one before the save. |
| `MCRetainedPersistence` | harness | 2 topics, 1 client, QoS 0/1, wall clock 0..3, 3 starts. The initial files are: none, v1, v2, a v3 file, a two-batch v4 file, and an unknown version. |
| `ConfigFileParser` | `ConfigFileParser` and the utils it calls | Line kinds (key/value, block start or end, comment, over-long, invalid) stand in for the regexes. `PreScan` is the first loop. `ProcessLine` is the body of the second loop, with every root key (`RootValue`) and listen key (`ListenValue`). `LoadResult` is `loadFile`. State: `path`, `file` (the lines on disk), `settings`, `lastLoad`. Actions: `AppendLine` and `RemoveLastLine` (the file is edited between loads) and `loadFile(test)`. `checkFileExistsAndReadable` keeps the code's `stat(path)`. `isPowerOfTwo` is evaluated on 32-bit `int`, with the sign bit handled as the build wraps it. |
| `ConfigReload` | the promise of a reload | An abstract specification without a parser. State: `path`, `file`, `settings`, `outcome`. `Edit` changes the file. `Load` is accepted and installs the file's meaning (unless it is a test load), or is rejected and keeps the settings. `ConfigFileParser` instantiates it with `Accepts <- SpecAccepts`, `Meaning <- SpecSettings`, and `outcome` mapped from `lastLoad` (`Outcome`). |
| `HttpUpgrade` | `parseHttpHeader` and its caller | `LineStep` is one turn of the `getline` loop: first line, empty line, and the `split(line, ':', 1)` field count. `HeaderStep` is the header if-else chain. `parseHttpHeader` is `FoldLeft` of `LineStep`, followed by the final checks. A line is a record of what `getline` plus `trim` yields. String functions are tables over a small set of strings. State: `request`, `got` (whole lines received), `tail` (the cut line, if any), `out` (the client's output fields), `ex` and `status`. `Arrive` receives the next segment and parses the whole buffer again. |
| `MCHttpUpgrade` | harness | Six handshakes (three valid, three invalid), with repeated headers, mixed case, two subprotocols and an over-long `X-Real-IP`. Cut points lie in every header value. `CutKinds` says whether segments may also end inside the request line, a header name, or right after a colon. |
| `MCConfigFileParser` | harness | A small file system (config, plugin, certificate, key, an oversized certificate, a directory). It gives what `std::stoi` returns for every value used: an integer, `InvalidArgument` or `OutOfRange`. It also gives line sets for root keys and for listen blocks. |

Every definition that translates code is listed in the `map` of
`PROJECT.json` with its lines. A definition marked `spec_modelled` models
collaborators whose code is not in `src/`:
- the retained table of `SubscriptionStore`;
- `Settings` and `Listener` defaults;
- `Listener::isValid`;
- `checkWritableDir`;
- the session's queue limits;
- the client that calls `parseHttpHeader` after each read.

## Runs

| Run | Expect | Checks | Shows |
|---|---|---|---|
| `topic_match` | pass | `MatchSound` | `topicsMatch` never delivers what spec 3 forbids, including `$` topics to non-`$` filters, for every filter `isValidSubscribePath` admits: a `#` it let through before the last level (`#/a`) would be matched as if it ended the filter. This holds also after earlier calls on the thread have left segments in the scratch vectors; without the `clear()` a stale `#` would match everything. |
| `topic_match_complete` | violation | `MatchComplete` | `a/#` does not match `a` (finding). |
| `utf8` | pass | `Utf8Complete`, `Utf8NoForbiddenCharacter` | Every valid string of allowed characters is accepted. No string with a control character, surrogate, noncharacter, overlong form or truncated character is accepted. |
| `utf8_sound` | violation | `Utf8Sound` | Four-byte forms beyond U+10FFFF are accepted; TLC's trace is `F5 80 80 80`, and `F4 90 80 80` is accepted too (finding). |
| `qos_queue` | pass | `TypeOK`, `ByteSizeNeverUnderReports` | Under every sequence of both queue overloads and both erases, with duplicate packet ids and erases of absent ids, the counter is never below the queued footprint. So the clamp to 0 in `erase(packet_id)` (`qospacketqueue.cpp:40`) never fires, which settles the open question in spec section 9: no accounting drift downward comes from the queue itself. The only drift is upward, through `erase(iterator)`. |
| `qos_queue_exact` | violation | `ByteSizeExact` | `erase(iterator)` leaves its bytes in the counter (finding). |
| `retained_restart` | pass | `TypeOK`, `LoadRestoresSaved`, `AgesReconstructed` | See below. |
| `config_root` | pass | `TypeOK`, `ImplementsConfigReload` | See below. |
| `config_listen` | pass | `ImplementsConfigReload` | As `config_root`, for listen blocks, TLS files and ports. |
| `config_contract` | violation | `LoadContract` | Single-line files break `loadFile`'s contract (findings). |
| `http_upgrade` | pass | `UpgradeAsRequested`, `ValidRequestUpgraded` | See below. |
| `http_segments` | violation | `SegmentationTransparent` | The handshake's outcome depends on where TCP segments end (findings). |

`retained_restart` covers saves at any clock reading, table changes between
saves, crashes, saves cut short at any field, and restarts with a wall clock
ahead of or behind the save. Under all of these, a start:
- restores exactly that save's messages when the save completed (nothing for
  v1, v2 and unknown files);
- gives each restored message its saved age plus the time since its batch was
  saved, or just the saved age when the clock is behind the save. v3 files
  carry no ages, so there the age is 0 (`AgesReconstructed`, a `savedAt`
  history variable records the wall clock of each save).

`config_root` and `config_listen` show that `ConfigFileParser` implements
`ConfigReload`. The property `ImplementsConfigReload` is `Abstract!Spec`,
with `Abstract == INSTANCE ConfigReload WITH ...`. Every step of the parser
is an `Edit` or a `Load` of the abstract specification under the mapping:
- a load of any file of up to 3 root lines (or up to 4 with listen blocks)
  is accepted exactly when the whole file is valid by `SpecAccepts`;
- an accepted non-test load installs `SpecSettings` of the file;
- a rejected or test load keeps the settings.

`SpecAccepts` and `SpecSettings` are a declarative reading of a config file
(per key the last line, per closed block one listener). So this checks the
two-pass parser against a one-line-at-a-time reading of spec 7.

`config_contract` checks `LoadContract`: a load either throws a
`ConfigFileException`, or succeeds with every named file readable, regular
and within its size limit, and every number in its documented range. Its
lines are `plugin /var/lib`, `thread_count 99999999999`,
`expire_sessions_after_seconds -5` and
`client_initial_buffer_size -2147483648`, each in a one-line file. TLC
reports the first (the directory accepted as a plugin). Each of the other
three lines, given alone, also violates the property.

`http_upgrade` delivers each handshake in segments that may end inside any
header value, at every cut point, one or several per line. Each arrival
re-parses the whole buffer into the same output fields. It checks two
things:
- `UpgradeAsRequested`: when the handshake is decided, it is upgraded
  exactly when the request is a valid MQTT WebSocket upgrade (read from the
  headers as a set). An upgraded connection has the last key and version
  the client sent and a subprotocol it offered, although cut values such as
  `x3JJ` or `1` were written by earlier parses.
- `ValidRequestUpgraded`: a valid request is eventually upgraded, when its
  segments end between lines or inside header values. Its mutant drops
  `doubleEmptyLine = true` at the empty line: no decision is then ever
  wrong, so `UpgradeAsRequested` holds, but the connection waits for ever.

`http_segments` lets segments also end inside the request line, inside a
header name and right after a colon. `SegmentationTransparent` asks that
the decided outcome, and an upgraded connection's outputs, be those of
parsing the whole request at once. TLC's trace is a first segment `GE`,
rejected because the line does not start with `GET`. A cut inside a header
name (rejected as "does not look like a HTTP request"), a cut after
`Sec-WebSocket-Version:` (`std::invalid_argument`) and a cut inside an
over-long `X-Real-IP` (a stale prefix kept) each violate it too.

Every property of a passing run has a mutant in `PROJECT.json`. The mutant
is a plausible bug in the mapped definition (a dropped test, an off-by-one,
a swapped order, a missing reset), and TLC finds the property violated
under the run's cfg.

## Bounds and why they suffice

- **Topics.** Filters of up to 4 characters from `a / + # $` and topics of up
  to 3 from `a b / $`. These give two wildcard levels, empty levels,
  trailing `/#` and the `$` prefix. The thread's call
  sequences use filters `a`, `#`, `+`, `a/#`, `+/+`, `/+`, `$/#` and topics
  `a`, `a/b`, `/`, `$a`. These take both early returns, which leave the
  vectors as they are, and the walk with one, two and three levels, so
  every later call meets vectors of a different length and content.
  Carrying the vectors through the full enumeration instead takes 143
  million states and half an hour.
- **UTF-8.** The 19 bytes are the boundaries of every range the decoder
  tests: each overlong limit, the surrogate block, U+FDD0-U+FDEF, U+xFFFE/F,
  C0/C1 controls, and the last valid and first invalid four-byte forms.
  Four bytes are needed only after a four-byte lead, so only those strings
  are that long.
- **QoS queue.** Two publishes of different footprint, two packet ids and
  room for three entries. That is enough for a duplicate id, an erase of the
  middle entry and an erase of an absent id.
- **Retained file.**
  - 2 topics, 3 starts and a 4-second clock. That is enough for a save, a
    change, a second save, a crash, and a start with the clock before the
    save.
  - The initial files include every version and a two-batch v4 file saved
    at different times, so a batch age is added to a nonzero message age.
  - Saves are cut at every field.
- **Handshake.** Six requests of 5 to 8 lines, with one to three cut
  points in each value. That is enough for repeated headers (last one wins),
  a second protocol header without MQTT, mixed case, two subprotocols in one
  value, a key cut twice, and an `X-Real-IP` on either side of the
  64-character limit. The cut kinds are exactly those `getline` and `split`
  treat differently: no `:` yet, an empty value, a proper prefix of the
  value, a whole line.
- **Config.** Lines for 7 root keys of different kinds (boolean, number,
  enumerated, file, network, plugin option, unknown key) and for block
  structure. Up to 3 root lines, and up to 4 lines with listen blocks,
  because a TLS listener needs start, fullchain, privkey and end. There are
  two config paths, one of them empty.

## Fairness

Only `http_upgrade` has a liveness property. `HttpUpgrade!Spec` assumes
`WF_vars(Arrive)`: while the handshake is pending and bytes of the request
are still in flight, a segment is eventually delivered. The client has sent
the whole request, and TCP delivers every byte sent on a live connection,
so this fairness is justified. Nothing else is assumed: the parser itself
is one atomic step per arrival. A decided handshake takes no further step,
so that run does not check deadlock.

The other properties are safety properties: invariants and action
properties of the form `[][A]_v`, plus the refinement `Abstract!Spec`. The
other liveness of the code (a save eventually happens, a reload eventually
applies) depends on the timers and threads of `mainapp.cpp`, which is not in
`src/`.

## Findings

- `qospacketqueue.cpp:56`: `erase(iterator)` does not subtract from
  `qosQueueBytes`.
- `utils.cpp:99`: a trailing `#` does not match the parent level
  (`a/#` vs `a`).
- `utils.cpp:131`: four-byte forms above U+10FFFF are accepted.
- `configfileparser.cpp:77`: `checkFileExistsAndReadable` stats the config
  file, not the checked file. A directory or an oversized file passes.
- `configfileparser.cpp:570`: only `std::invalid_argument` from `std::stoi`
  is caught.
- `configfileparser.cpp:437`: a negative `expire_sessions_after_seconds`
  wraps through `uint32_t` and is accepted.
- `utils.cpp:399`: `isPowerOfTwo(INT_MIN)` overflows and answers true.
- `utils.cpp:419`: a first segment shorter than `GET` gets a valid
  handshake rejected.
- `utils.cpp:433`: a segment ending inside a header name gets a valid
  handshake rejected.
- `utils.cpp:450`: a segment ending right after `Sec-WebSocket-Version:`
  makes `std::stoi("")` throw `std::invalid_argument` out of the parser.
- `utils.cpp:467`: a segment ending inside an `X-Real-IP` value of 64 or more
  characters leaves its prefix in `xRealIp`, and the final parse never
  clears it.

Also seen while modelling, but not made a run (the project keeps one run per
question): `isValidSubscribePath` accepts `$#` and `a#`, where spec 4.1
requires `#` to be the whole filter or to follow `/`. What `topicsMatch`
delivers for them is still right (the level is matched literally), so
`MatchSound` holds. `parseSubscriptionShare` leaves `$share/name`, with no
filter after the name, as an ordinary filter; spec 4.1 calls that a
protocol error.

## Not modelled

- **Other `utils.cpp` functions.** Base64, websocket answer strings,
  formatting, address conversion, random strings and signal masks are
  conversions or libc/OpenSSL calls with no broker state.
- **`mainapp.h`, `types.h`.** Declarations only.
- **`PersistenceFile`** (magic string I/O, `readCheck`, temporary-file
  handling) is not in `src/`. Its effects are modelled as the field
  sequence, with a failed `readCheck` aborting the load.
- **Concurrency between the save-state thread and the workers, and between
  two saves.** `mainapp.h` only declares `saveStateThread` and
  `saveStateMutex`. The copy of the table and the locking are in
  `mainapp.cpp` and `SubscriptionStore`, which are not in `src/`, so the
  model saves an atomic snapshot. One version split a save into a copy
  under `saveStateMutex` and a later write, made by two savers (the
  checkpoint thread and the shutdown save), and checked that no save
  writes a copy older than the file. It passed 30 million distinct states
  in 10 minutes without finishing, even with two starts instead of three:
  each held copy multiplies the states by every table it can hold. Making
  it fit would mean cutting the bounds the file properties need.
- **`parseSubscriptionShare` and `isValidShareName`** are translated and
  mapped but no run checks them. A property that follows the code cannot
  fail, and one that follows spec 4.1 fails on the two-segment case above,
  which needs a violation run of its own.
- **A save torn inside a field.** `TornSave` cuts only between fields, and a
  missing body aborts the load, as `readCheck` (in `PersistenceFile`)
  would. What the loader makes of bytes cut inside a field depends on
  `readCheck`, which is not in `src/`.
- **Which message an ack belongs to** when two queued publishes share a
  packet id. The ids are allocated by the session, which is not in `src/`.
- **The `uint32_t` wrap of a message's age** after about 136 years. TLC's
  integers are 32-bit signed, so 2^32 cannot be represented. A smaller
  modulus would change the code's width.
- **The `split` default `keep_empty_parts`.** It is declared in `utils.h`,
  which is not in `src/`. The handshake runs set it to `true`, as
  `splitToVector` keeps empty parts. With `false`, the cut after
  `Sec-WebSocket-Version:` throws `BadHttpRequest` instead, and the
  handshake is still rejected.

## Plan for later work

1. A composition of `ConfigFileParser` with `RetainedPersistence`:
   `retained_messages_mode` and `storage_dir` decide whether saving happens
   across a reload.
2. A refinement of `QoSPublishQueue` to an abstract multiset of pending
   packet ids.
3. The `split()` helper with a `max` and empty parts, as an operator checked
   against a reference.
