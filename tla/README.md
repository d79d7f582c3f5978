# TLA+ models of tcp-info

This directory holds TLA+ models of tcp-info's collection pipeline (`src/`) and the
TLC configurations that check them. The pipeline polls the kernel for `inet_diag`
records, parses them, filters out insignificant changes, and writes one compressed
JSONL stream per connection.

## 1. Inventory

### Components

| Component | Source | State | Operations |
|---|---|---|---|
| WireCodec | `src/inetdiag/inetdiag.go` 232-262, 402-503 | none (pure; modelled) | `Parse`, `splitInetDiagMsg`, `RawInetDiagMsg.Parse`, `ParseRouteAttr`, `netlinkRouteAttrAndValue`, `rtaAlignOf`, `LoadNext` |
| Socket id helpers | `inetdiag.go` 99-173, 391-393 | WireCodec (partly) | `ip`, `isIpv6`, `To4`, `isLocal` modelled; `Cookie` (little-endian), `SPort`/`DPort`/`Interface` (big-endian) not |
| Change classification | `inetdiag.go` 285-389 | none | `ParsedMessage.Compare` → `ChangeType` |
| Significance cache | `cache` package (not under `src/`; spec 4.B) | cookie → retained snapshot, touched set, cycle counter | `Update`, `EndCycle`, `CycleCount` |
| Saver | `src/saver/saver.go` 91-315 | `Connections` map (cookie → Inode, ID, StartTime, Sequence, Expiration, Writer), the cache | `MessageSaverLoop`, `swapAndQueue`, `queue`, `Rotate`, `writeHeader`, `endConn`, `Close` |
| Marshaller pool | `saver.go` 49-89 | N channels of capacity 100, one goroutine each | `runMarshaller`: write a snapshot, or close a writer |
| Collector | main program (not under `src/`; spec 4.C) | — | poll both families, filter local addresses, send one batch per cycle |
| Metrics | `src/metrics/metrics.go`, `src/unnamed/part_000` | Prometheus collectors | declarations and `SetupPrometheus` |

### Interaction

The collector sends a batch (one snapshot per socket) over a channel to the saver
goroutine. For each snapshot, the saver calls `cache.Update`. If the snapshot is new,
or if `pbtools.Compare` (a package outside this repository) against the previous snapshot reports a change, the saver calls
`queue`. `queue` finds or creates the Connection. It also rotates the Connection's file
when the file has expired. Rotation sends a *close task* for the old writer and opens
the new file directly in the saver goroutine. Finally, `queue` sends a *write task*.
All tasks for a cookie go to channel `cookie % N`. At the end of a batch,
`cache.EndCycle` returns the cookies that were not seen in the batch, and `endConn`
closes their writers and deletes their Connections. When the batch channel is
closed, `Close` ends every Connection. It then closes the channels and waits for the
marshallers.

### What is hard

- **Concurrency.** One saver and N marshallers share writers through tasks. Files
  are opened by the saver and closed by a marshaller. The channels are bounded, so
  the saver blocks when a channel is full (backpressure).
- **Ordering.** A write task must never be overtaken by the close task of its file.
  The pinning `cookie % N` is the only thing that prevents this.
- **Partial failure.** `Rotate` can fail after the cache has already absorbed the
  snapshot. Write and encode errors are ignored. A replay file can end in the middle
  of a message or hold a corrupt length.
- **Time.** Rotation depends on the wall clock and on an additive `Expiration`.
- **Parsing edges.** Attribute lengths, alignment and array indices in `Parse` and
  `Compare` come from kernel data.

### Properties that make each component correct

- **Saver/marshallers.** No queued write may land on a closed file
  (`TasksRespectFileLifecycle`). Connections must follow the cache's residuals
  (`ConnectionsFollowCache`). Every significant change absorbed by the cache must
  reach disk (`CacheReflectedOnDisk`), and after a failed Rotate the next changed
  snapshot is retried (`RetryAfterFailedRotate`). No line written to a file is ever lost
  (`FilesOnlyGrow`). A file is rotated only after the age limit
  (`RotationRespectsAge`). Shutdown drains (`ShutdownDrains`). Taken together, the
  files behave as the per-connection log of `SaverSpec` (`SaverImplementsSpec`).
- **WireCodec.** The attribute walk returns exactly the attributes that
  were encoded (a round trip against a reference encoder). It never slices past the
  buffer. Alignment equals the smallest multiple of 4 that is not below the length.
  A replay by `LoadNext` returns exactly the messages written whole
  (`ReplayReturnsWrittenMessages`), and ends in EOF only where the stream ends
  cleanly (`ReplayMatchesSpec`).
- **Compare.** It returns what the spec's rules 4.B give (`CompareMatchesSpec`).
  Differences only in `[lastDataSentOffset, pmtuOffset)` give `NoMajorChange`, and
  any other INFO difference gives `StateOrCounterChange`. It never indexes out of
  range (`CompareNeverPanics`). It never misses a change
  (`NoSignificantChangeMissed`).

## 2. Plan

1. **Saver** (done). This is the saver goroutine, the cache, the
   marshaller pool, and an environment made of the kernel, the collector and the
   clock. It is the most important behaviour of the system: concurrency, rotation
   and lifecycle.
2. **WireCodec** (done, `LoadNext` included). `rtaAlignOf` using
   `Bitwise`. `ParseRouteAttr` as a RECURSIVE operator, checked against a reference
   encoder over bounded attribute lists. The unpadded-last-attribute panic. The type
   clamp of `Parse`.
3. **Compare** (done; pure module). INFO values as short byte sequences with abstract
   offsets. The classification order. Index-bound hazards. The spec section 8
   properties about the ignored range.
4. **Abstract specification of the saver** (done). `SaverSpec` says what the
   pipeline promises per cookie: the sequence of significant snapshots, split into
   files. `Saver` is shown to implement it with `INSTANCE ... WITH` a refinement
   mapping (files ↦ abstract per-cookie log), checked as a PROPERTY.
5. **Saver environment options** (done). A dump may miss a live socket
   (`DumpMayMiss`; the cookie reappears and file names are reused). A marshaller's
   write may fail (`WriteMayFail`); the code discards the error, and shutdown is
   checked to drain all the same.
6. **Socket id helpers**: partly done. `ip`, `isIpv6` and `isLocal` are operators of WireCodec, checked through `Parse`'s local filter; `Cookie` and the ports are byte-order conversions no property needs.

## 3. Modules and runs

### `Saver.tla` / `MCSaver.tla`

| Code | Model |
|---|---|
| `svr.Connections` | `conns`: cookie → `[seq, exp, w]` (`Sequence`, `Expiration`, `Writer`; `NoWriter` = nil) |
| cache (spec 4.B) | `cache`, `touched`, `cycles` |
| `MarshalChans` | `queues` (bounded by `QueueCap`), `qopen`; `wdone` = `wg.Done` calls |
| files on disk | `files`: `<<cookie, Sequence>>` → `[open, opened, lines]` |
| saver goroutine position | `spc`, `batch` (rest of the batch), `resid` (cookies still to `endConn`) |
| kernel / collector / clock | `kern`, `chanClosed`, `now` |
| (history, not in the code) | `lastDrop`: cookies whose latest snapshot was dropped by a failed Rotate; set in `RotateThenSend`, cleared by any other outcome of that cookie's next snapshot |

Actions: `ReceiveBatch` (one poll plus the receive), `CloseChannel`, `SwapAndQueue`
(swapAndQueue plus `queue` up to its first send, via `QueueStart`), `SendClose`
(close task plus Rotate), `SendMsg`, `EndCycle`, `EndConnStep`/`EndConn`,
`EndConnsDone`, `CloseMarshalChan`, `WaitMarshallers`, `Marshal(i)`, and
`MarshallerExit(i)`. With `WriteMayFail`, the write in `Marshal` (`AppendLine`) may
fail and lose its line; the file stays open and keeps receiving tasks, as in the
code, where `json.Marshal`'s and `Write`'s errors are discarded. Each blocking channel send is its own step. That is why
`queue` is split at its sends.

Abstractions:
- A snapshot is its cookie, its TCP state (ESTABLISHED or FIN_WAIT1, numbered as in
  the kernel), an INFO counter standing for the significant INFO bytes, and its
  poll cycle.
- `Significant` is `Compare` restricted to those fields.
- The kernel changes only between dumps, in one combined step. The saver sees it
  only through dumps. With `DumpMayMiss`, a dump may leave out any live socket.
  A netlink dump is not atomic, so a socket can be skipped while the table
  changes.
- A file is named by `<<cookie, Sequence>>`. A writer is identified with the file
  it opened. This is exact as long as no name is reused. `FilesOnlyGrow` stops at
  the first reuse, before the two ever differ.
- Logging, the `stats` counters and `LogCacheStats` are left out, because they only feed log lines.
- `Significant` stands for `old == nil || pbtools.Compare(pm, old) > NoMajorChange` in `swapAndQueue`. `pbtools` is not in this repository. The model abstracts it to a changed TCP state or a changed significant INFO counter. `Compare.tla` checks `inetdiag.ParsedMessage.Compare`, which is a different function; the saver does not call it.

Runs (constants: cookies `{0,1,2}`, 2 marshallers, channel capacity 1, age limit 1):

| Run | cfg | Expect | Shows |
|---|---|---|---|
| saver_safety | `MCSaverSafety.cfg` (2 cycles, clock ≤ 2) | pass | `TasksRespectFileLifecycle`, `ConnectionsFollowCache`, `CacheReflectedOnDisk` hold when Rotate and writes succeed; and `Saver` refines `SaverSpec` (`SaverImplementsSpec`) |
| saver_shutdown | `MCSaverLive.cfg` (2 cycles, Rotate and writes may fail) | pass | `ShutdownDrains`: a failed write neither stops a marshaller nor keeps a file open |
| saver_file_name_reuse | `MCSaver_FilesOnlyGrow.cfg` (dump may miss) | violation | a cookie missing from one dump comes back with Sequence 0, and `Rotate` recreates `<uuid>.00000`, truncating its earlier lines |
| saver_rotate_failure_leak | `MCSaver_ConnectionsFollowCache.cfg` | violation | a failed Rotate leaks a Connection |
| saver_rotate_failure_lost_change | `MCSaver_RetryAfterFailedRotate.cfg` (Rotate may fail, 2 cycles) | violation | `RetryAfterFailedRotate`: a new connection's first snapshot is dropped by a failed Rotate. In the next cycle an identical snapshot is compared with the dropped one that the cache already holds, and is suppressed, so nothing is ever written for that state. A saver whose cache held only retained snapshots would queue it. |
| saver_rotation_age | `MCSaver_RotationRespectsAge.cfg` (clock ≤ 4) | violation | files rotated at age 0 after an idle gap |

Why the bounds are enough:
- Cookies 1 and 2 are pinned to channels 1 and 0. Cookie 0 maps to channel 0 but is
  rejected by `queue`, so it exercises the cookie-0 rejection and never shares a
  channel with a live connection. Two marshallers draining two channels give the
  cross-channel interleavings. A close sent to the wrong channel (the
  `EndConnWrongChannel` mutant) is caught.
- A capacity of 1 makes the saver block on full channels, both mid-batch and
  during `Close`.
- Two cycles allow a sequence of create, change, rotate, and residual for one
  cookie while others come and go, and then a shutdown with Connections still
  live. The invariants and the refinement share one run at this bound; at three
  cycles the refinement alone takes over three minutes.
- The violation runs use three cycles where their traces need them.
- A clock bound of 2 with an age limit of 1 makes expiry happen within the cycles.
  The rotation-age run needs a gap of more than two periods, so it uses a clock
  bound of 4.

#### Refinement

`SaverSpec.tla` is the abstract saver. Its variables are the cache (`retained`,
`touched`), the set of tracked connections, a log per cookie, and a `closing` flag.
It has four actions:
- `Observe(m)`: absorb `m` into the cache. Append `m` to the cookie's log if it is
  new or significant, its cookie is valid, and it is tracked or not yet closing.
- `EndCycle`.
- `Untrack(c)`: allowed once the cache has dropped the cookie, or at shutdown.
- `Close`.

`Saver` instantiates it as `ABS` with this mapping:
- `retained` ↦ `cache`
- `tracked` ↦ `DOMAIN conns`
- `closing` ↦ `chanClosed`
- `log[c]` ↦ the lines of `c`'s files in `Sequence` order, then its queued writes,
  then the snapshot that `queue()` is in the middle of sending.

`SwapAndQueue` is the `Observe` step. Channel sends, marshaller writes, rotations
and file closes are stuttering steps, because they move a snapshot along the
pipeline without changing the log. The refinement is checked in `saver_safety`,
over 2 cycles: creation, expiry with rotation, residuals and shutdown all occur.
With `RotateMayFail` (or `WriteMayFail`) the refinement fails, because a dropped snapshot is in the cache but not in the log. `saver_rotate_failure_lost_change` shows the consequence: the snapshot after it is suppressed.

Fairness: `WF` on the saver's steps and on each marshaller. The Go scheduler runs
every runnable goroutine eventually. The kernel, the clock and the collector get no
fairness, because nothing in the code forces a poll or a shutdown. This is why
liveness is stated from `chanClosed` onwards.

### `Compare.tla` / `MCCompare.tla`

`Compare(pm, previous)` follows `ParsedMessage.Compare` early return by early return:
- nil previous;
- `RawInetDiagMsg.Parse` of both headers (`RawIDMParse`);
- the TCP state;
- indexing `Attributes[INET_DIAG_INFO]`;
- nil INFO;
- the two INFO slices (`InfoChanged`);
- the loop over `previous.Attributes` (RECURSIVE `CompareAttrs`).

An index or slice out of range is the result `"panic"`. `SpecClassify` is the
reference, written from the spec's rules 4.B. It speaks of which attributes are
present and which bytes differ, and has no arrays.

The instance uses:
- a scaled-down tcp_info: `last_data_sent` at offset 1 and `pmtu` at offset 2;
- bytes 0 and 1;
- attribute values `<<>>`, `<<0>>` and `<<1>>`, so empty-versus-nil, length and
  content differences all occur;
- headers in state 1, 4 or too short.

| Run | cfg | Expect | Shows |
|---|---|---|---|
| compare_classify | `MCCompare.cfg` (arrays of length 4, INFO of 2–3 bytes) | pass | on all 390000 pairs, `Compare` = `SpecClassify` |
| compare_attr_index_panic | `MCCompare_CompareNeverPanics.cfg` (arrays of length 1, 3 or 4; INFO of 0–3 bytes) | violation | two snapshots with no attributes (the kernel sends none for TIME_WAIT sockets) make `Compare` index `Attributes[2]` of a length-1 array, which panics (the saver calls `pbtools.Compare`, not this method) |
| compare_missed_new_attribute | `MCCompare_NoSignificantChangeMissed.cfg` (arrays of length 3 or 4) | violation | an attribute whose type is above every type of the previous snapshot is never compared, so `Compare` returns `NoMajorChange` |

The same panic domain also contains INFO values shorter than `pmtu`, for which
`a[pmtuOffset:]` panics. A kernel always sends a `tcp_info` that reaches `pmtu`, so
such values come only from malformed or replayed input.

### `WireCodec.tla` / `MCWireCodec.tla`

This module is pure. Each definition is one function of `inetdiag.go`:

| Code | Model |
|---|---|
| `rtaAlignOf` | `RtaAlignOf`: `x & ^3` written as `x - (x & 3)` (Bitwise) |
| `netlinkRouteAttrAndValue` + `ParseRouteAttr` loop | RECURSIVE `ParseRouteAttr`: returns `ok` with a list, `EINVAL`, or `panic` (the `b[alen:]` slice past `len(b)`) |
| `splitInetDiagMsg` | `SplitInetDiagMsg` |
| `Parse` (type check, local skip, `maxAttrType` clamp, array fill) | `Parse`, `AttributeArray` |
| `ip`, `isIpv6`, `ipv4`/`ipv6`, `isLocal` (and `net.IP.To4`) | `Ip`, `IsIpv6`, `To4`, `IsLocal` |
| `LoadNext` (`binary.Read` of the header, `make`, `binary.Read` of the data) | `LoadNext`: the set of its outcomes on the bytes left in the reader; `ReadFull` (io.EOF when no byte is left, `ErrUnexpectedEOF` when too few), `PayloadLen` (the uint32 `Len - 16`, negative standing for a wrapped value), `AllocOutcomes` (a wrapped length asks for ~4 GiB twice: the runtime may die or go on) |

The model has no behaviour. `Init` picks either a frame and its parse result, or
a replay stream and one possible outcome of replaying it (`Replay`: `LoadNext`
called until it returns an error, as a replay tool does), and the properties are
invariants over every input. The two inputs are a union of initial states, not a
product: a frame state has the empty stream and a stream state the empty frame. Frames are built by a reference
encoder, which follows the kernel's `nla_put`: a length/type header, the value, and
zero padding to 4 bytes. The padding is computed independently of `RtaAlignOf`. A
frame can be whole, cut short at any byte, of the wrong type, or shorter than the
header. The empty frame is also built for every pair of socket addresses of the
same family. `Expected` skips a frame when an address is loopback, link-local,
multicast or unspecified, as read under its socket's family. The code instead
guesses the family from the bytes (`isIpv6`). `Expected` is the decoder that follows from how the frame was built.

| Run | cfg | Expect | Shows |
|---|---|---|---|
| codec_parse | `MCWireCodec.cfg` (cuts at multiples of 4) | pass | `Parse` equals the reference on all 6420 frames (`ParseMatchesReference`). Results are well formed, and the array never exceeds index 38 (`TypeOK`). |
| codec_unpadded_panic | `MCWireCodec_ParseNeverPanics.cfg` (cuts at any byte) | violation | A final attribute of length 5 with no padding passes the `Len` check but makes `b = b[alen:]` panic |
| codec_replay_spec | `MCWireCodec_ReplayMatchesSpec.cfg` | violation | A stream ending in a zeroed 16-byte header (Len 0) makes `Len - 16` wrap to ~4 GiB, and `io.ReadFull` with no byte left returns io.EOF: the corrupt tail reads as a clean end. A stream cut just after any header also replays to io.EOF. |

`codec_parse` also checks `ReplayReturnsWrittenMessages` on the 434 stream
inputs. Replay streams are spec 6's format: up to two saved messages, each a
16-byte little-endian `NlMsghdr` and `Len - 16` bytes of data, cut at every byte.
The messages are a SOCK_DIAG_BY_FAMILY message with no data (`Len` 16, so
`binary.Read` of an empty buffer), one with 4 bytes of data, and a zeroed header
(`Len` 0), the corrupt case. The real header size is kept: `LoadNext` reads it
whole, and the wrap depends on it.

The addresses are:
- IPv4: 10.0.0.1, 127.0.0.1, 169.254.1.1, 224.0.0.1 and 0.0.0.0;
- IPv6: 2001:db8::1, ::1, fe80::1, ::, ::ffff:127.0.0.1 and ::ffff:10.0.0.1.

The guess is right for all of them. The guess goes wrong only for an IPv6 address
whose last 12 bytes are zero (e.g. `fe80::`). Such addresses are subnet-router
anycast forms, and they are not TCP endpoints, so the model leaves them out.

Bounds: the header is 4 bytes rather than 72. The parser skips the header whole, so
its size does not matter. There are up to 3 attributes. The types are 1, 2 and 39:
39 lies above the clamp of 38, and repeating a type exercises last-wins. The
payloads have 0, 1 and 5 bytes, so the rtattr lengths are 4, 5 and 9. These lengths
need no padding or 3 bytes of padding, and cuts fall at every offset within a record.

## 4. Not modelled

- Metrics (declarations only).
- The HTTP exporter.
- The zstd codec: a file is its list of lines, and closing it flushes.
- UUID formatting.
- JSON encoding.
- `Cookie`, `SPort`, `DPort`, `Interface`, `String`: byte-order conversions and
  formatting with no control. The saver model uses cookies as numbers.
- `RawNlMsgHdr.Parse`: called nowhere in the code.
- Record framing. `runMarshaller` writes each JSON record without a trailing newline
  (`saver.go:79`), while `writeHeader` ends the header with one. A file is therefore
  the header line followed by concatenated JSON objects. The model's files are lists
  of snapshots, so this framing is outside it.
- What follows a write error. `runMarshaller` discards it, and nothing reports it
  to the saver or to `metrics.ErrorCount`. Spec 7 says a failed sink is counted,
  closed and cleared so the next snapshot rotates. The code has no such path, so
  no property can check it. The model loses the line (`WriteMayFail`) and checks
  that shutdown still drains.
- `NumMarshaller = 0`: assumed away by `ASSUME`. `queue` returns `ErrNoMarshallers`, but `endConn` (`saver.go:245`) takes `cookie % 0` with no check, so the first residual would panic. This is listed as a hazard with no property.
- `LogCacheStats`: its "same" count subtracts `localCount` from a `TotalCount` that never includes local connections (`saver.go:323`). `localCount` comes from the collector, which is not under `src/`.
- `Rotate` ignores its `FileAgeLimit` parameter and always adds 10 minutes. The
  model uses a single `AgeLimit`.
