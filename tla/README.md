# TLA+ models of the madbfs page cache

This directory holds TLA+ specifications of the page cache in
`src/source/data/cache.cpp` and `src/include/madbfs/data/cache.hpp` and of
the start-up option parsing in `src/include/madbfs/args.hpp` and
`src/source/args.hpp`, together with the TLC configurations that check them. `PROJECT.json` lists the
components, the runs, the mutants, the map from each definition to the source
lines it models, the findings and the hazards.

## 1. The system

madbfs is a FUSE filesystem that forwards file operations to an Android
device, over adb or its own RPC server. Between FUSE and the device sits
`madbfs::data::Cache`, a page cache.

### Parts

| Part | Source | State | Operations |
|---|---|---|---|
| Page | cache.cpp 6-52, cache.hpp 24-49 | buffer, 32-bit length with a dirty bit | `read`, `write`, `is_dirty`, `set_dirty` |
| Cache (callback version) | cache.cpp 55-280, cache.hpp 51-86 | `m_lru` (list, front = most recent), `m_table` (key → list iterator), `m_queue` (key → shared future of an in-flight fetch), `m_orphaned` (evicted dirty pages), `m_page_size`, `m_max_pages` | `read`, `write`, `flush`, `get_orphan_pages`, `invalidate`, `set_page_size`, `set_max_pages` |
| Cache (connection version) | unnamed/part_001 | as above, without `m_orphaned`, plus `m_path_map` (id → refcount and path) | the same, plus an awaited `evict` that flushes dirty victims itself |
| Options | include/madbfs/args.hpp (current), source/args.hpp (earlier) | fuse_args, the option struct, the chosen serial | `parse`: adb start, `fuse_opt_parse`, help, log level, `check_serial` / `get_serial` with a stdin prompt, page size = bit_ceil(max(p, 64)) KiB, cache size = bit_ceil(max(c, 128)) MiB |
| RPC server | unnamed/part_002, part_005 | one accepted socket at a time | one POSIX call per request; a read/write loop for copy_file_range |
| Build, CI, packaging | CMakeLists, part_000, part_003, part_004 | — | — |

### How they interact

A FUSE callback calls `Cache::read`, `write` or `flush` from a coroutine.
Every coroutine runs on one asio executor: single-threaded and cooperative.
Another task can run only at a `co_await`:

- `fut.async_wait()`: waiting for another task's fetch of the same page;
- `on_miss`: the fetch from the device;
- `on_flush`: the write to the device.

Eviction splices dirty victims into `m_orphaned`. The host drains them with
`get_orphan_pages` and writes them back. Reconfiguration clears `m_table`
and `m_lru` only.

### What is hard

- **Interleavings at the awaits.** A waiter resumes at `m_table.find`
  without re-checking `m_queue` (line 84). A write can allocate a page while
  that key's fetch is in flight, and the fetch's `m_table.emplace` (line 100)
  then keeps the writer's entry.
- **Clearing dirty too early.** `flush` clears the dirty bit before awaiting
  `on_flush` (line 231). A failure, or two concurrent flushes completing out
  of order, can then lose data.
- **Orphans outlive their key.** An orphan stays in `m_orphaned` after its key
  is resident again.
- **Reconfiguration leaves in-flight state.** It runs between awaits and
  leaves `m_queue` and `m_orphaned` as they are.
- **Numeric edges.** `m_max_pages = 0`, the zero-length request (line 66),
  the 28-bit dirty bit, and `Page::write` shrinking the length.

### Properties each part needs

- **Cache:**
  - single-flight per key;
  - every `m_queue` entry has a live fetcher;
  - no write lost through eviction, orphaning and flush;
  - capacity between calls;
  - read sees the latest write;
  - uniform page size;
  - no dangling iterator;
  - every call returns.
- **Page and the byte paths of Cache:** the length and dirty-bit
  arithmetic; read after write byte for byte; written bytes reach the device
  at a flush; no copy outside a buffer.
- **Options:** fuse_args freed or handed over on every path; sizes
  normalised; the prompt ends; the chosen serial is an online device.
- **Connection version:** the `m_path_map` entry of a path outlives every
  use of that path; `m_table` is within budget between calls; every call
  returns; the `m_table` iterator read holds across `co_await evict` stays
  valid.

## 2. Modules

### `Cache.tla`: the callback version

**Data abstraction.** Byte contents are replaced by freshness: whether a
copy holds the latest write of its key. Byte offsets become the page-index
range `start..last` that the code computes.

| Model | Code |
|---|---|
| `lru` (sequence of page records with a node id) | `m_lru` |
| `table` | `m_table` (key → node) |
| `queue` | `m_queue` (key → the task whose promise it holds) |
| `orphans` (sequence) | `m_orphaned` |
| `pageSize`, `maxPages` | `m_page_size`, `m_max_pages` |
| `running` | the task holding the executor |
| `task[t]` | the coroutine locals: pc, operation, key, loop bounds, awaited future, outcome, the freshness and size of its buffer |

**Ghost variables:**

- `devFresh`: the device holds the latest write;
- `host`: orphans taken but not yet written back;
- `dropped`: keys whose dirty data a reconfiguration discarded, by design;
- `staleRead`;
- `dangling`.

**Task actions.** Each action runs from one resume to the next `co_await`
(or return), so a task's whole step between awaits is atomic:

| Action | Code |
|---|---|
| `Start` | the call begins |
| `PageQueued` / `PageFree` | the `m_queue.find` at 75 |
| `ResumeOk` / `ResumeErr` | the `async_wait` result at 78-81 |
| `ReadHit` | 119-131 |
| `ReadMiss` | 84-92: the emplace keeps an existing entry; the buffer is sized with the current page size |
| `MissFail` | 93-97 |
| `MissOk` | 99-123: the emplaces, `set_value`, `m_queue.erase`, the eviction loop `EvictN`, the splice and copy |
| `WritePage` | 158-194 |
| `FlushSkip` | 218-226 |
| `FlushDirty` | 224-235: dirty cleared, then the await |
| `FlushOk` / `FlushFail` | 235-242 |

**Environment actions:** `GetOrphanPages`, `HostWriteBack`, `Invalidate`,
`SetPageSize`, `SetMaxPages`. `HostWriteBack` is the host's orphan drain. It
is not under src/ and is modelled from spec 4.8, in list order.

`MC_Cache.tla` gives the constant sets (page sizes, budgets), the state
constraint and the symmetry.

### `Page.tla`: `madbfs::data::Page`

Pure operators over a page record `[size, data]`: `size` is the raw u32
`m_size`, `data` the buffer. `Size`, `IsDirty`, `SetDirty` use `&` and `|`
from the community module `Bitwise`; `~dirty_bit` is the fixed-width mask
`Compl`. `ReadCount` is `min(size() - offset, out.size())` with usize
wrap-around, and `ReadBytes` yields `Garbage` for every byte past the buffer
(a heap over-read). `Write` copies and sets the length to `offset + |in|`,
keeping the dirty bit, as cache.cpp:31 does. Widths are constants: the code's
u32 / bit 28 / usize 64 become `WordBits` / `DirtyBitPos` / `SizeBits`, with
the dirty bit kept four places below the top of the word.

### `CacheIO.tla`: the byte paths of `Cache::read`, `write`, `flush`

One file, one caller, every page within budget (the concurrency and eviction
are `Cache.tla`'s business). A byte is named by where it belongs:
`<<"dev", q>>` is the device's original byte at q, `<<w, q>>` the byte write
`w` meant for q, `Zero` a byte of a fresh buffer. `Read`, `WriteCall`,
`Flush` and `Invalidate` are whole calls; their page loops are the recursive
operators `ReadLoop`, `WriteLoop`, `FlushLoop`, built from `Call` (start and
last as the code computes them), `LocalOffset` and `WriteSpan`. `Fetched`
(the transport's read behind `on_miss`) is not under src/ and is modelled
from spec 4.4. Ghosts: `dirtyRef` (the dirty flag of spec 4.5/4.7),
`lastWrite`, `written` (the tag last written at each position), `fileLen` (the
length the file's writers see), `rawOk`, `inBuffer`.

### `CacheConn.tla`: the connection-bound version (part_001)

Same task structure as `Cache.tla` (one `task` record per coroutine,
`running` for the executor, one action per stretch between co_awaits), with
page contents left out: a page is its list node, key and dirty bit.
`pathMap` is `m_path_map` as a function whose domain is the ids with an
entry; `Acquire` is the emplace-or-increment of read's miss and of every
page write, `Release` evict's decrement-and-erase. Evict is a loop the
calling task runs: `EvictPop` moves the back page out and erases its key
(suspending on `on_flush` if dirty), `EvictFlushed` resumes and releases the
count, `EvictDone` returns to read (which then dereferences the iterator it
holds, `entry`) or to write. `ReadEvictCount` and `WriteEvictCount` are
the two arguments, `m_table.size() - m_max_pages` and the bool
`m_table.size() > m_max_pages`. `Forget` records which held iterators an
erase invalidates; `dangling` is set when one is dereferenced.
`RefBound` caps the calls started on an id (the counts only grow: see the
hazards).

### `Args.tla`, `ArgsLegacy.tla`, `ParseContract.tla`: option parsing

`parse` runs once, on one coroutine, before anything else: its steps are
sequential. `pc` names the step and there is one action per step
(`StartConnection`, `OptParse`, `Help`, `LogLevel`, `GetSerial`,
`CheckGivenSerial`, `Prompt`, `Finish`). What the procedure reads from the
world (adb's start, libfuse's parse, the device listing, stdin, the size
options) is the record `in`, chosen in `Init` from small sets; those
functions are not under src/. The log level is the word `log_level` holds
after libfuse's parse ("warn" unless `--log-level` gave one); the
operator `ParseLevelStr` translates `parse_level_str` (a word to its
`spdlog` level, or none, as a set of at most one) and the level is carried
into the `ParsedOpt` record of the result. `Prompt` is one turn of the `while (true)
{ std::cin >> choice; ... }` loop: a number is taken modulo 2^32 (a negative
one wraps), a word stores 0 and leaves cin failed; at EOF, or once cin is
failed, the stream's sentry fails before any conversion and `choice` keeps
its value, so every later turn repeats unchanged. EOF on the first turn
therefore takes device 1 (`choice` starts at `1u`); after a word or an
out-of-range number the loop spins. `std::bit_ceil` above 2^63 is undefined; `BitCeilUB`
gives what the build yields (1 on x86, or an abort).

`ArgsLegacy.tla` is the earlier synchronous version: it reads the text of
`adb devices` (a header line, device lines, lines of fewer than two words),
`check_serial` and `get_serial` are the recursive operators
`CheckSerialLines` and `GetSerialLines`, the cache size is cast unchecked,
and the return code of adb is only asserted (`ExecFailure`).

`ParseContract.tla` is the abstract specification: one `Decide` step whose
outcome is allowed by the inputs (Exit 1 on adb or command-line failure,
Exit 0 for help, Exit 1 on a bad log level or no usable device, otherwise
options naming a device listed online, the given one if any, and the log
level the level word names). Both parse modules instantiate it with
`INSTANCE ParseContract WITH in <- ContractIn(in), outcome <- IF pc =
"done" THEN result ELSE Pending`: `ContractIn` replaces the level word by
the levels it names (ArgsLegacy also maps its text listing to the
contract's device list) and check `Contract!Spec` as a property.

### `RpcServer.tla`: the device-side RPC server (part_002, part_005)

`Server::run` accepts one connection at a time, handshakes, and hands each
request to `RequestHandler::handle_req` until the client goes; `stop()`
clears `m_running` and cancels the acceptor. The handlers run synchronously
on the one executor, so a request's handling is one action (`Handle`) whose
outcomes are the set `Handled` returns.

- **State.** `pc` (where `run` is), `running` (`m_running`), `acceptor`,
  `conns`/`served` (bounded by `ConnBound`/`ReqBound`), `buf` (the
  connection's `Vec<u8>`: a generation per allocation, `cap`, `size`, and a
  tag per byte), `req`/`args` (the received request and the `Str`/`Span`
  views it holds into `buf`), `resp`, `fs` (file contents), `stale` (a view
  read after its allocation was freed) and `result` of `run`.
- **Buffer.** `Reserve` grows as libc++ does (`max(2*cap, n)`) and starts a
  new generation; `Insert`, `Resize`, `Clear` and `View` follow the vector
  operations the handlers call. A view is `Valid` while its generation is
  live and its bytes still carry its tag.
- **Handlers.** The namespace calls (stat, mkdir, rename, ...) are one
  system call each, succeeding or failing with an errno; `Truncate`, `Read`,
  `Write` and `CopyFileRange` act on `fs`; `Listdir` runs the `readdir` loop
  (`ReadDir`), appending names into `buf`; `CopyLoop` is the read/write loop
  with short reads and (under `ShortIO`) short writes; `StatusFromErrno`
  maps an errno to `Status` (unknown ones to `EINVAL`). The `DEFER` close of
  each handler can fail too, and its logging reads the path (`Closed`).
- **Receive/Send.** `Receive` lays the request out in `buf` in the order of
  `part_005`'s request structs (`Layout`), reserving room first; `Send` sends
  the response and goes back to listening. The wire encoding (not under
  src/) is abstracted to that layout.

## 3. Runs

### Passing runs

**`sequential`**: one task; budget 1 or 2; fetch may fail; reliable flush;
no host write-back. It checks:

- `TypeOK`;
- `NoLostWrite`: the latest write of each key is on the device, or held
  dirty in `m_lru`, `m_orphaned`, by the host or by a flush in flight, or
  discarded by reconfiguration;
- `CapacityAtRest`.

It shows that, without concurrency, eviction, orphaning and flush keep the
data and the budget.

**`concurrent_liveness`**: two tasks, one page, budgets 0 and 1 (so the
one page is orphaned and written back by the host), failing fetch and
flush. It checks `InFlightEntryHasFetcher` (no future in `m_queue` is
orphaned, even across duplicate fetches) and `OpsComplete` under the
fairness below: every call returns.

**`conn_concurrent`** (`MC_CacheConn`): two tasks, one file of two pages,
budgets 1 and 2, failing fetches and flushes, `RefBound` 3. It checks
`TypeOK`, `PathEntryLive` (no `m_path_map` entry is erased while a call
awaits the connection with its path, or while a dirty page of its id is
cached) and `OpsComplete`. `CapacityAtRest` is not claimed here: with two
keys every pop while over budget hits an indexed key, and with three keys
`MC_CacheConn_capacity.cfg` finds it violated (below).

**`cacheio_bytes`** (`MC_CacheIO`): pages of 2 bytes, 2 pages, a 6-bit
u32 with the dirty bit at 2, any initial device length, every read, write
(sizes 1..4), flush and invalidate. It checks `TypeOK`, `ReadAfterWrite`
(spec 8.4: a read of the latest write's range returns its bytes).
`DirtyFlagFaithful` is not checked here: with lengths below the dirty bit
it would only restate that `is_dirty` and `set_dirty` share one mask; the
length that reaches the bit is `MC_CacheIO_dirty_bit_length.cfg`.

**`args_parse`** (`MC_Args`): two serials, five device listings, two stdin
answers, non-negative sizes. It checks `TypeOK`, `ArgsOwnership`,
`PromptAnswered` (a valid answer ahead on stdin ends the prompt) and
`ImplementsContract`. `SizesNormalised` is left to
`MC_Args_negative_size.cfg`: over non-negative sizes it would only restate
`bit_ceil(max(n, min))`.

**`legacy_parse`** (`MC_ArgsLegacy`): the same for the earlier version, NDEBUG
build: `TypeOK`, `ArgsOwnership`, `ImplementsContract`.

**`rpc_handlers`** (`MC_RpcServer`): two files, two directory listings,
nine requests (stat, listdir, reads that fit and that grow the buffer, a
write, a truncate, copies forward, backward and from a negative offset),
initial buffer capacities 0 and 2, one errno for every call, two
connections of up to two requests. It checks `TypeOK`,
`ResponseViewsValid` (every `Str`/`Span` of a response being sent points
into the live allocation and still holds the bytes it names),
`CopyFaithful` (a successful `copy_file_range` writes exactly the source
bytes from `in_offset` at `out_offset`, the rest of the disk untouched) and
`StopEndsRun` (after `stop()`, `run` returns).

### Violation runs

Each checks one property and TLC finds the counterexample. The findings in
`PROJECT.json` say what each shows.

| Run | Property | What happens |
|---|---|---|
| `single_flight` | `SingleFlight` | a resumed waiter refetches a page another task is already fetching, after `invalidate` or `set_*` removed it (the run's budget never evicts it) |
| `flush_error` | `NoLostWrite` | dirty data is lost when `on_flush` fails |
| `flush_truncated` | `WrittenBytesFlushed` | write 1 byte at offset 1, then at offset 0: the page length drops to 1, flush writes one byte and sets the page clean, the other is never written |
| `hole_overread` | `ReadInBuffer` | a write past the end leaves a hole; reading the hole fetches an empty page, `size() - offset` wraps and `copy_n` reads past the buffer |
| `conn_dangling` | `NoDanglingEntry` (CacheConn) | read fetches a page over budget and awaits evict's `on_flush` of a dirty victim; `invalidate` (or another task's evict) erases the fetched page's `m_table` element; read dereferences its iterator |

### Further configurations

These configurations are kept beside the runs. Each finds its property
violated in a few steps; `PROJECT.json`'s hazards point at them.

| Configuration | Property | What happens |
|---|---|---|
| `MC_Cache_ghost_pages.cfg` | `CapacityAtRest` | an unindexed duplicate page keeps `m_lru` over budget |
| `MC_Cache_orphan_stale_read.cfg` | `ReadSeesLatestWrite` | one task reads back a page whose newer data is in `m_orphaned` |
| `MC_Cache_orphan_writeback.cfg` | `NoLostWrite` | a stale orphan overwrites a newer flush |
| `MC_Cache_flush_reorder.cfg` | `NoLostWrite` | two flushes complete out of order on a reliable transport |
| `MC_Cache_page_size_change.cfg` | `UniformPageSize` | an in-flight miss installs an old-size page |
| `MC_Cache_zero_budget.cfg` | `NoDanglingEntry` | with `max_pages = 0`, read dereferences the page it just evicted |
| `MC_CacheIO_dirty_bit_length.cfg` | `DirtyFlagFaithful` | page size = `dirty_bit` (256 MiB in the code): a full fetched page is dirty and `size()` is 0 |
| `MC_CacheConn_capacity.cfg` | `CapacityAtRest` (CacheConn) | three pages, budget 1: a read waiting on another's fetch resumes after `invalidate`, fetches again and leaves an unindexed lru node; later `evict` pops hit it, erase nothing, and `m_table` stays at two pages with every task idle |
| `MC_Args_negative_size.cfg` | `SizesNormalised` | `--cache-size=-1` wraps above 2^63 and `bit_ceil` yields 1 (or aborts) |
| `MC_Args_prompt_hang.cfg` | `ParseTerminates` | two devices, stdin holding a word, or an out-of-range number then EOF: `get_serial` spins forever (EOF at once takes device 1) |
| `MC_RpcServer_stale_path.cfg` | `NoStalePathUse` | a Read larger than the buffer reallocates it; the read (or close) fails and its log reads `path` from the freed allocation |
| `MC_RpcServer_copy_size.cfg` | `CopyWithinSize` | `copy_file_range` ignores `size`: a 1-byte copy within one file copies 2 bytes (and keeps going until the disk is full) |
| `MC_RpcServer_short_write.cfg` | `CopyFaithful` | a short `write` in the copy loop drops the rest of the chunk; later bytes land at the wrong offset and the call succeeds |

### Mutants

Each property of a passing run has a mutant, defined just before the
definition it replaces. TLC finds each one:

| Mutant | Replaces | Bug | Caught by |
|---|---|---|---|
| `StartInclusive` | `Start` | the page loop runs to `num_pages` inclusive | `TypeOK` |
| `EvictDropsDirty` | `EvictN` | pops dirty victims instead of orphaning them | `NoLostWrite` |
| `AdmitShort` | `Admit` | evicts one page too few | `CapacityAtRest` |
| `MissFailKeepsEntry` | `MissFail` | keeps the `m_queue` entry | `InFlightEntryHasFetcher` |
| `MissFailSilent` | `MissFail` | returns without `set_value` | `OpsComplete` |
| `WriteSpanUncapped` | `WriteSpan` | slice not capped at the page end | `TypeOK` (cacheio_bytes) |
| `LocalOffsetEvery` | `LocalOffset` | first page's offset used for every page | `ReadAfterWrite` |
| `ExtractNoWrap` | `Extract` (Args, ArgsLegacy) | a negative answer stored unwrapped | `TypeOK` |
| `LogLevelLeaks` | `LogLevel` | invalid-level exit keeps the fuse_args | `ArgsOwnership` |
| `ChoiceBelow` | `ChoiceValid` | `choice < size` | `PromptAnswered` |
| `AllSerials` | `OnlineSerials` | status filter dropped | `ImplementsContract` |
| `HelpLeaks` (ArgsLegacy) | `Help` | `--full-help` exit keeps the fuse_args | `ArgsOwnership` |
| `GetSerialAny` (ArgsLegacy) | `GetSerialLines` | every listed serial taken | `ImplementsContract` |
| `AcquireFromZero` (CacheConn) | `Acquire` | a new entry emplaced with count 0 | `TypeOK` |
| `ReleaseErase` (CacheConn) | `Release` | the entry erased whatever its count | `PathEntryLive` |
| `MissFailSilent` (CacheConn) | `MissFail` | returns without `set_value` | `OpsComplete` |
| `StatusUnchecked` (RpcServer) | `StatusFromErrno` | the errno cast to `Status` without the switch | `TypeOK` |
| `ListdirEager` (RpcServer) | `Listdir` | entry names taken as views while the buffer still grows | `ResponseViewsValid` |
| `CopyUnseeked` (RpcServer) | `Copy` | the input file not seeked to `in_offset` | `CopyFaithful` |
| `StopNoCancel` (RpcServer) | `Stop` | `stop()` clears `m_running` without cancelling the acceptor | `StopEndsRun` |

### Bounds and why they are enough

- **Pages and budget.** One or two pages per file, and a budget of 1 or 2
  pages, are enough to evict, to orphan and to re-fetch.
- **Tasks.** Two tasks give every pairwise interleaving at the three awaits.
  Every violation above needs only two.
- **Nodes.** `NodeBound` list nodes bound the ghost pages.
- **`MCConstraint`.** It stops exploring at one orphan (with the host or in
  `m_orphaned`) and at a full node pool. A longer orphan list only repeats
  the one-orphan cases.
- **Symmetry.** It is used only for safety runs, over the task model values.
- **CacheConn.** Two pages of one file with a budget of 1 give a dirty
  victim under a freshly fetched page, and a second task that writes,
  fetches or invalidates during the victim's flush. `RefBound` 3 allows a
  write, a miss and a second write of one id in flight together. Two pages
  are not enough for the capacity question: a stale lru node only costs
  budget when a pop over budget hits it while another key is indexed,
  which takes a third page (`MC_CacheConn_capacity.cfg`, a safety run with
  symmetry; the liveness run cannot afford it).
- **CacheIO.** Two pages of two bytes give a write inside a page, a write
  across a page boundary, a read at an offset past a page's length, and a
  partial last page; one write tag suffices because every byte also carries
  its position. A 6-bit word with the dirty bit at 2 keeps lengths (at most
  2) below the bit as 128 KiB pages are below 2^28; a page size of 4 reaches
  it.
- **Args.** Two serials give the prompt (two online devices), a given serial
  that is offline or unauthorized, and a listing with a non-online device
  before an online one. Stdin answers include an out-of-range number and a
  wrapped negative one before a valid one. usize of 5 bits keeps 2^(5-1)
  above every non-negative size and puts a wrapped negative above it.
  The level words are a valid one and an invalid one ("error", whose
  spdlog name differs, and "verbose"; the earlier parse also the default
  "warn" and "off").
- **RpcServer.** Two files and two bytes of content are enough for a copy
  forward, backward, overlapping and past EOF. Capacities 0 and 2 with
  reads of 1 and 3 bytes give a request that fits the buffer and one that
  reallocates it. `Chunk` 1 with `DiskBytes` 4 keeps the passing run off
  a full disk; `MC_RpcServer_short_write.cfg` uses `Chunk` 2 and a
  three-byte file, the smallest case where a short write moves bytes.
  One errno ("EIO", mapped to `EINVAL`) makes every call's failure path
  happen; the stale-path configuration adds `ENOENT`. `MCConstraint` stops
  at six allocations.

### Fairness

Each task's steps are strongly fair (`SF_vars(TaskStep(t))`). The asio
executor runs every ready handler, and the transport answers every call.
A task's step needs the executor free, and other tasks may repeatedly take
it, so weak fairness would not do. New calls, reconfiguration and the host
are never forced. `CacheConn` uses the same fairness for the same reason.

`Args` and `ArgsLegacy` assume weak fairness of `Next`: parse is one
coroutine (one thread in the earlier version) that nothing else competes
with, so it keeps taking steps while it can. A failed cin turn changes no
state: a stuttering loop, which is how `MC_Args_prompt_hang.cfg` shows the hang.
`CacheIO` checks safety only.

`RpcServer` assumes weak fairness of the server's own steps (`ServerStep`:
run, the loop head, a cancelled accept, handshake, handling, sending and the
peer closing). The server is one coroutine on one executor, so it keeps
taking steps while it can. `PeerClose` is among them: `StopEndsRun` holds
only if the client eventually closes its connection, since `stop()` does
not end an active one. New connections, accept errors and `stop()` itself
are never forced.

## 4. Not modelled yet, and the plan

- **The zero-length request** (cache.cpp:66): `last` wraps and the loop spans
  about 2^64 / P indices, beyond any finite instance; `CacheIO` enumerates
  sizes of at least 1.
- **Page contents in CacheConn:** the lost write when evict's `on_flush`
  fails (part_001:309) and the stale read while a victim is being pushed
  (line 297) need freshness, which `Cache.tla` models and `CacheConn` leaves
  out to keep the path-map and iterator state small. The `m_path_map` leak
  (counts never fall to 0 for pages that were only read) is bounded by
  `RefBound` rather than stated.
- **An abstract cache specification** (a key → latest-data map with
  single-flight fetches) and a refinement mapping from `Cache`. This is
  planned once the divergences are settled, since `Cache` currently violates
  read-your-writes.
- **RPC details:** stat contents, timestamps (`Utimens`), symlink targets
  and the kernel's namespace rules are one success-or-errno outcome per
  call; the rpc wire encoding and `handshake` (not under src/) are the
  `Layout` of the request in the buffer and one step that may fail.
- **Not modelled:** the help text and messages of
  option parsing, `list_devices`, `start_connection`, `cmd::exec`,
  `StringSplitter` and libfuse (not under src/; they are inputs of the
  parse models), logging, build, CI and packaging. They are plain I/O or
  have no runtime behaviour.
