# TLA+ models of the eLua web server

These modules model the HTTP server of `src/src/webserver/` for the TLC
model checker. The server is uIP's httpd, extended with Lua scripts. It is
event driven: uIP calls `httpd_appcall()` once for each event (connect, data,
ack, poll, close) on each TCP connection. Each call advances that connection's
protothreads until they block on the network. There are no threads, so the
concurrency is the interleaving of events of different connections. They share
three things:

1. **`connection[WEB_MAX_CLIENT]`** (`httpd.c:92-95`) maps a peer IP address
   to the `lua_State` kept for that peer. `httpd_appcall()` looks it up at
   the start of each event (`httpd.c:364-381`) and writes it back at the end
   (`httpd.c:405-437`). A new peer takes the first free slot. When the table
   is full, it takes the slot after the connection structure's own
   `s->http_connection_nr`.
2. **The Lua heap.** `http_run_elua()` (`httpd.c:449-540`) calls `lua_open()`,
   which fails when memory is exhausted, and `lua_close()`.
3. **`file_fs.huge`** (`httpd-fs.c`). `FILE_CACHE_SIZE` is 0, so
   `httpd_fs_open()` reads every file into this one buffer
   (`httpd-fs.c:209-216`). Every connection's `s->file.data` points into it.

Each uIP connection slot also has per-slot state (`uip_conn->appstate`,
`struct httpd_state`). It survives from one TCP connection on the slot to the
next. `new_pht_page`, `http_connection_nr`, `http_params` and `filename` are
not reset on `uip_connected()`.

## Inventory

| Component | Source | State | Operations | Module |
|---|---|---|---|---|
| Connection engine | httpd.c 122-403 | protothread position, `file.data/len`, `timer`, `filename`, `http_params`, `new_pht_page` | connect, request line, ack of headers/chunk/script output/tag segment, retransmission, poll, close | `Httpd`, refining `Response` |
| Client table | httpd.c 92-95, 364-437 | `connection[]`, `s->http_connection_nr` | lookup, insert, evict, write back | `ClientTable` (operators), used by `Httpd` |
| Lua adapter | httpd.c 449-540 | live states, their owner and `HTTP_PARAMS` | reset for a .pht page, `lua_open`, out of memory, the `HTTP_PARAMS` decoding loop, run | `Httpd` (`RunElua`), `ParamDecode` |
| Content store | httpd-fs.c 60-222 | `file_fs.huge`, the cache entries, `s->file` | `httpd_fs_int`, `httpd_fs_open`, the 404 fallback | `FileStore`; `Httpd` keeps `huge` at file level |
| Tag scanner (bytes) | httpd.c 170-236 | `s->file.data/len` over `huge` | marker test, `?>` search, `<` cut, MSS split | `TagScanner`; segment level in `Httpd` |
| Content type | httpd.c 238-264, 281-294 | — (a function of `s->filename`) | header selection by the last `.`, generator selection by the first `.` | `ContentType` (operators); `MCHttpd` derives `Httpd`'s `Kind` from it |
| Script stdout | genstd.c 128-167 | `write_buffer`, `write_buffer_len` | `uip_write`, the buffer reset of `http_run_elua`, `http_output_elua` | `ScriptOutput` |
| Console stdio | genstd.c 1-123 | — | — | not built with `BUILD_WEB_SERVER` |
| Main loop | httpd-uip.c 18-116, platform.c 48-90, 730-767 | timers, `eth_timer_fired`, the MACB receive ring | tick, frame arrival, `httpd_uip_mainloop`, the DNS answer (`resolv_found`) | `NetLoop` (uIP itself is not under `src/`) |
| Network setup, platform | httpd-uip.c 177-end, platform.c | hardware | drivers, `http_uip_init`, DHCP | not modelled (hardware and configuration I/O) |

What makes this code hard to test:

- two connections interleave on the shared buffer and table;
- state carries over between TCP connections on the same uIP slot;
- a flag is cleared on only one path;
- a stale cursor chooses which slot to evict;
- the heap runs out of memory;
- a peer that trickles data keeps the idle timeout from firing.

`PROJECT.json` lists each hazard at its source line, with the property that
covers it.

## Modules

- **`ClientTable.tla`**: pure operators over the table.
  - `SlotOf` is the search loop, and `LookupL` is the value of `s->L` after
    it.
  - `FreeSlot` and `NextVictim` choose the slot for a new peer.
  - `Commit` is the whole write-back at the end of an event. It returns the
    new table and the new `http_connection_nr`.
- **`Httpd.tla`**: the whole server, one action per kind of uIP event on a
  connection `c`.
  - Each action runs the complete `httpd_appcall()`: lookup, event body,
    commit. Splitting them would be unfaithful, because uIP runs one event to
    completion.
  - The protothread position is `pc[c]`:
    - `req`: `handle_input` is blocked in `PSOCK_READTO`;
    - `hdr`: `send_headers` is waiting for its ack;
    - `file`: `send_file` is waiting;
    - `lua`: `http_output_elua` of a .lua page is waiting;
    - `tags`: `handle_elua_tags` is waiting;
    - `closing`: `PSOCK_CLOSE` is done.
  - The actions are:
    - `Connect`: the `uip_connected` branch;
    - `Request`: `handle_input` parses the request line, then `handle_output`
      opens the file and sends the headers;
    - `AckHeaders`: dispatch on the suffix (`HandleOutput`);
    - `AckFile`: one step of the `send_file` loop;
    - `AckLua`: the .lua output is acked, then `PSOCK_CLOSE`;
    - `AckTags`: one step of `handle_elua_tags`, through the recursive
      operator `TagsFrom`, because a failed script sends nothing and the scan
      continues within the same event;
    - `Rexmit`: `uip_rexmit()`; the segment in flight is sent again from
      `s->file.data`, i.e. from `huge` as it is now. For `send_part_of_file`
      (a tag page's literal) this is `PSOCK_SEND` of the pointer itself.
      For `send_file`'s chunks it rests on uIP's `PSOCK_GENERATOR_SEND`
      calling `generate_part_of_file` again on a retransmission, which is
      uIP behaviour outside `src/`;
    - `Poll`: `++timer`, and `uip_abort` at `MaxPolls`;
    - `Data`: new data that completes nothing (part of the request line, or
      the header lines): `timer = 0`, and no protothread moves;
    - `Close`: the `uip_closed/aborted/timedout` branch.
  - The body of an event edits a record (`Env`). `Finish` commits it and
    writes it back to the variables. This keeps the order of the code: run
    first, table write-back last.
  - Data is abstracted:
    - A file is a sequence of segments. `"lit"` is one send of literal bytes;
      `"lua"` is one `<?lua ?>` block, or the body of a .lua file.
    - A sent segment is recorded as `<<file the buffer held, index>>`.
    - Past the end of the buffered file, a send carries `Garbage`.
    - Lua states are model values. The allocator may return any free one.
    - Queries are model values.
  - History variables record facts about the current response for the
    properties: `out`, `served`, `ran`, `phtBroken`, `luaDropped` and
    `staleParams`. They are reset by each accepted request.
  - The refinement section maps `Httpd` onto `Response`: `AbsSt` is the
    protothread position read as the spec's connection state, `AbsRes` is
    `s->filename`, and `AbsBody` is the segment indices sent since the
    request was accepted. `ImplementsResponse` is `Response`'s `Spec` under
    this mapping.
- **`Response.tla`**: the abstract response, written from the spec. Per
  connection, `st` is idle, parsing, streaming or closing. `res` is the
  resource, and `body` is the indices of the segments streamed. The actions
  are:
  - `Open`;
  - `Reject` (a malformed request closes);
  - `Accept(f)`;
  - `Emit(j)`: the next segment, passing over script segments only;
  - `Finish`: allowed once every literal segment is out;
  - `Drop` (abort, close or timeout).

  Weak fairness of `Emit \/ Finish` says a body being streamed is finished
  or dropped.
- **`IdentityTable.tla`**: the spec's identity table as a map `map` of
  capacity `Capacity` from an address to a handle. An event may do one of:
  - `Touch`: change a present entry;
  - `Assign`: add an entry while there is room;
  - `Evict`: when the table is full, add an entry in place of exactly one
    other.

  `Httpd`'s `AbsMap` reads `connection[]` through the lookup loop.
  `ImplementsIdentityTable` is this `Spec` under that mapping. The spec's
  round-robin choice of the victim is not part of it, because the code's
  cursor is the per-slot `s->http_connection_nr`, not one cursor for the
  table (see the plan).
- **`TagScanner.tla`**: `handle_elua_tags` byte by byte.
  - `mem` is `huge` as `httpd_fs_open` leaves it: the page, the stale byte
    `huge[len]`, the NUL at `len + 1`, then earlier bytes.
  - `ScanScript` is the `<?lua` branch: the five-byte test, the six-byte
    skip and `strstr` for `?>` (`StrStrClose`).
  - `ScanLiteral` is the literal branch: `min(MSS, len)`, cut before the next
    `<` by `strchr` (`StrChr`), searched from the byte after a leading `<`.
  - `out` records literal bytes (adjacent sends merged) and script sources.
  - `Render` is the spec's scan, a recursive reference definition.
- **`ParamDecode.tla`**: the `HTTP_PARAMS` loop of `http_run_elua`, one
  iteration per step.
  - `buf` is `s->http_params` after `strcpy` of this query over an earlier
    one.
  - `str` is the local `str[20]`, and `stack` is the Lua stack above the base.
  - The actions are:
    - `Key`: `=` followed by a byte;
    - `End`: the NUL with a key pending; `lua_settable`, `break`, `lua_pop`;
    - `Amp`: `&` with a key pending;
    - `Copy`: any other byte, past the NUL too;
    - `Exhausted`: the loop reaches `sizeof`.
  - `SetTable` raises the unprotected error when index -3 is not the table.
  - `SpecDecode` is the spec's decoding (split on `&`, then on the first
    `=`, with `+` as a space).
- **`MCHttpd.tla`**: the model values and the stores for TLC, `TableView`
  (the state without the history variables) and `ConnSymmetry`.
- **`ScriptOutput.tla`**: one connection's `write_buffer`, byte by byte.
  - `RunStart` is the prologue of `http_run_elua` (`write_buffer_len = 0`).
  - `Write(fd, str)` is `uip_write`: descriptor checks, the capacity
    `assert` (a failed assert halts the program), and the copy loop as the
    recursive operator `CopyLoop`, with its `len--` on a newline.
  - `Fail` is a Lua error (from `luaL_loadbuffer` or `lua_pcall`): the run
    ends, and nothing it wrote is taken back.
  - `Flush` is `http_output_elua` sending `write_buffer[0..len-1]`; the
    callers ignore the result of `http_run_elua`, so it follows `Fail` too.
  - The buffer is never cleared, so a byte remembers the run that wrote it.
    The memory after the buffer is modelled, so an overflow would be visible.
- **`ContentType.tla`**: the two suffix decisions on `s->filename`, as
  operators over its bytes (a name is a sequence of one-character strings).
  - `StrRChr`, `StrChr`, `From` and `StrNEq` are `strrchr`, `strchr`, the
    pointer into the name and `strncmp(...) == 0` over C strings.
  - `HeaderType` is `send_headers`' chain of tests; `OutputKind` is the
    dispatch of `handle_output`.
  - `SpecType` and `SpecKind` are the specification's table: the exact text
    after the last `.`.
  - The suffix constants (`http_html`, `http_pht`, ...) are defined in
    `httpd-strings`, which the repository does not contain. The model uses
    `.html` (compared over 5 bytes) and `.pht`, `.lua`, `.css`, `.png`,
    `.gif`, `.jpg` (over 4), the values the `strncmp` lengths imply.
  - `MCContentType` enumerates request paths: an optional directory, with
    or without a `.`, a base name and a suffix of the table, a near miss
    (`.htm`, `.phtml`, `.txt`), a double suffix or none.
- **`FileStore.tla`**: `httpd-fs.c` at byte level.
  - `FsInt` is `httpd_fs_int`, returning every outcome of its mallocs
    (including the partial failure of a cache entry).
  - `FsOpen` is `httpd_fs_open`: the cache search, the missing file, the
    `fstat`/`fread` errors, the too-big file, the cache path and the `huge`
    path, with the terminator written at `len + 1`. It returns the set of
    outcomes; `Open` is `handle_output`'s open and its unchecked 404 open.
  - `StrcatOverflow` is the `strcat` of the name into `fullpath`
    (`"/mmc"` and `FILE_NAME_MAX_SIZE` bytes), and `NameCopyOverflow` the
    `strcpy` into a cache entry's name; `NameLen` gives each name's length,
    and the history variable `smashed` records a write past either array.
  - `Junk` is what malloc left in a cell, and `Other` the byte of an earlier
    file. The history variable `req` is the requested name.
- **`NetLoop.tla`**: `httpd_uip_mainloop` with the tick interrupt and the
  MACB receive path.
  - `Tick` sets `eth_timer_fired` and then, as the handler does with
    `BUILD_UIP`, runs `elua_uip_mainloop`, which is not in the repository: it
    may take the tick and the head frame (with the same size check) or not.
    `Elapsed` is
    `platform_eth_get_elapsed_time`; `PacketLen` is
    `platform_eth_get_packet_nb`; `MainLoop` takes one frame or runs the
    periodic and ARP timers.
  - A frame is its length and a tag, so two consecutive frames differ.
    `Arrive` is the network; the ring holds `RX_SLOTS` frames and drops more.
  - Timers saturate at their period, since the code only compares them with
    `>=` and resets them to 0.
  - `httpd_uip_mainloop`'s callers are outside `src/`; the model lets it
    run at any time.
  - `ResolvFound` is `resolv_found`, reached through
    `http_uip_udp_appcall`: a frame may carry the DNS answer (an address,
    or none for a failed name), and the periodic `uip_udp_periodic` calls may
    make the resolver give up (NULL). Either sets `elua_resolv_ip` and then
    `elua_resolv_req_done`; the resolver's own retry logic is in uIP and is
    a nondeterministic choice here.

## Runs

| Run | Expect | Bounds | What it shows |
|---|---|---|---|
| `single_conn` (`MCHttpd_single.cfg`) | pass | 1 connection slot, 2 peers, 2 Lua states, table of 1, a store with a two-script .pht page, a .lua page, a missing name, 1 query, 2 polls | `TypeOK`. `BodyFaithful`: a response sends its own file in order, and only failed scripts may be missing, including after retransmissions. `ResponseCompletes`: every accepted request is eventually closed or dropped. `ImplementsResponse`: the slot implements `Response`. |
| `client_table` (`MCHttpd_table.cfg`) | pass | 2 connection slots, 3 peers, table of 2, 2 Lua states, a two-file store, 1 poll; symmetry over connections, peers and states; a view without the history variables | `UniqueAddr`, `TableStatesLive`, `StateOwnedByPeer`: across evictions, resets and out-of-memory, the table holds one slot per peer, only live states, and each state is the peer's own. `TypeOK` of `Httpd` is checked once, in `single_conn`. `ImplementsIdentityTable`: each event changes at most one entry, or evicts one entry, and only when the table is full. |
| `crosstalk` | violation | 2 connections, 1 peer | `BodyFaithful` fails. c2's request reads its file into `huge` while c1 is still streaming, so c1 sends c2's bytes. |
| `pht_reset` (`MCHttpd_phtreset.cfg`) | violation | 1 connection, 1 peer, 2 Lua states | `PhtResetOnlyAtPageStart` fails. On a .pht page, with no state yet, the first block creates one. `new_pht_page` stays TRUE, so the second block closes it; the same flag makes a later .lua request close the state. |
| `state_leak` | violation | 2 peers, table of 1 | `NoLeakedState` fails. An eviction overwrites `connection[nr].L` without `lua_close`. |
| `stale_params` | violation | 1 connection, 1 query | `ScriptSeesRequestParams` fails. `HTTP_PARAMS` is set only at `lua_open`, so a reused state keeps the first request's query. |
| `script_output` (`MCScriptOutput_bounds.cfg`) | pass | buffer of 4, 2 characters and newline, every write of 1-2 characters, 2 run numbers, all 4 descriptors | `TypeOK`, `NoOverflow`: the assert keeps every write inside `write_buffer`, whatever the sequence of writes. |
| `newline_loss` (`MCScriptOutput_newline.cfg`) | violation | the same | `OutputFaithful` fails. A write of `"\ny"` loses `y` and sends in its place the byte the buffer held there before the write; in TLC's shortest trace that is the buffer's initial zero. |
| `tag_scan` (`MCTagScanner_closed.cfg`) | pass | MSS 2; every page of up to 4 tokens from `x`, `<`, `?`, `<?lua ` and `?>` in which every start marker is closed; 6 stale bytes; 2 tails after the NUL | `TypeOK`. `ScanMatchesRender`: the finished scan sent the page's literal text and ran its scripts, exactly as the spec's scan says, whatever the MSS cuts and the bytes after the page. `ScanTerminates`: the scan ends. |
| `param_decode` (`MCParamDecode_spec.cfg`) | violation | `http_params` of 5 bytes; every query of up to 4 bytes over `a = & +`, copied over every earlier such query | `DecodeMatchesSpec` fails. The shortest trace is `==&`: two keys are pushed, and `lua_settable(L, -3)` indexes a string, so Lua panics. |
| `content_type` (`MCContentType_spec.cfg`) | violation | 36 request paths: 3 directories (none, `/d`, `/d.x`) times 12 suffixes | `ContentTypeMatchesSpec` fails. `/d.x/a` gets text/plain where the table says binary; the same check fails for `.htm` (text/plain), `.phtml` (run as a tag page) and `/d.x/a.pht` (its Lua source sent as a static file). |
| `rx_wedge` (`MCNetLoop_rxwedge.cfg`) | violation | `uip_buf` of 1026 bytes, frames of 60 and 1514 bytes, a ring of 2 | `RxProgress` fails: a 1514-byte frame stays at the head of the ring for ever. With frames of at most 1026 bytes the property holds. |

The project keeps at most 12 runs. Other configurations are kept beside
the runs as reproducers:
- `MCTagScanner_unclosed.cfg` shows `ScanMatchesRender` failing for the
  pages of `tag_scan` followed by an unterminated `<?lua x`: the script is
  not run, and its source is sent as page text.
- `MCScriptOutput_error.cfg` shows `OutputFaithful` failing with strings
  that hold no newline: one write, then a Lua error, and the written
  character is sent.
- `MCFileStore_cache.cfg` passes `TypeOK` and `StreamsWholeFile` in the
  commented-out cache configuration.
- `MCFileStore_terminator.cfg` shows `FileTerminated` failing: a short file
  after a long one leaves a byte at `huge[len]`.
- `MCFileStore_ioerror.cfg` shows `StreamsWholeFile` failing after two read
  errors.
- `MCFileStore_namelen.cfg` shows `NoNameOverflow` failing: a request for
  `/index2.htm` (11 bytes) makes `strcat` write 16 bytes into the 15 of
  `fullpath`.

### Why these bounds are enough

- Every code path appears in the passing runs:
  - a found and a missing file;
  - .pht, .lua and plain pages;
  - two scripts on one page;
  - a peer change on the same slot;
  - a full table, and eviction;
  - an exhausted heap (2 states, 3 peers);
  - the idle abort.
- The hazards need at most two connections, three peers and two table slots.
  The violation runs find their traces at depth 6 to 12.
- Larger tables only repeat the eviction pattern.
- The segment abstraction keeps the number of MSS chunks small. The byte
  level is `TagScanner`'s.
- `TagScanner`: with MSS 2, a chunk is cut by the MSS and by a `<` alike.
  Pages of 4 tokens put a `<` or a `?` just before and after markers, and
  two scripts on one page. The stale byte and the tails put a `?>` or a `<`
  just past the page's end.
- `ParamDecode`: 5 bytes hold a query of 4 and its NUL. Queries over one
  letter and the three separators reach every branch of the loop: a pending
  key at the NUL and at `&`, an `=` at the end, a second `=`, and an earlier
  query's bytes past the NUL. `str[]` is at least as long as the buffer, so
  its overflow is out of reach (see the plan).
- `Response` adds no state space of its own. It is checked as a property of
  `single_conn`.
- `ScriptOutput`: a buffer of 4 with writes of up to 2 characters reaches the
  assert boundary from every fill level, and 2 run numbers tell an earlier
  run's byte from the current one's.
- `FileStore`: files of 0 to 5 bytes against a `huge` of 4 cover the empty
  file, a file that fits, one of `FILE_HUGE_SIZE - 1` and a too-big one; a
  cache of 2 entries is filled and then missed.
- `ContentType`: each suffix of the table, its near misses on both sides
  (`.htm` shorter than `.html`, `.phtml` longer than `.pht`), an unknown one,
  none, and a second `.` before the suffix in the name or in a directory:
  every branch of both `strncmp` chains and both results of each search.
- `NetLoop`: the real sizes are kept, because the bug is the comparison with
  `sizeof(uip_buf)`; the timers saturate, so the state space stays small.

### Fairness

`Fairness` is weak fairness on each connection's ack actions. TCP retransmits
an unacked segment until it is acked or the connection is torn down, so a
pending send cannot be ignored forever. No fairness is assumed for `Connect`,
`Request`, `Poll` or `Close`. The peer may stay silent, and uIP may abort at
any time. `ResponseCompletes` allows for this: an abort ends the response.

`NetLoop` assumes weak fairness of `Tick` (a hardware timer) and of
`MainLoop` (the Ethernet interrupt keeps being raised). `Arrive` has none: the
network may stop sending. `TagScanner` assumes weak fairness of its one step:
each send waits for an ack, which the fairness above guarantees. `Response`'s
fairness on `Emit \/ Finish` is implied by the fairness on acks, since every
ack sends the next segment or closes. `ScriptOutput`, `FileStore` and
`ParamDecode` check only safety.

## Findings

- **Crosstalk through `file_fs.huge`** (code bug). Two concurrent responses
  share one buffer.
- **`new_pht_page` cleared only on the close path** (`httpd.c:462`). This
  breaks the second script block of a page for a new peer, and it leaks into
  later .lua requests on the same uIP slot. Note the divergence from the
  specification's wording, which says full-page scripts reset the state and
  tag pages keep it. The code does the opposite: it resets per .pht page and
  keeps the state for .lua.
- **Eviction leaks the `lua_State`** (`httpd.c:428`). The specification says
  the evicted engine instance is released.
- **Query parameters installed only at `lua_open`** (`httpd.c:468-524`).
- **`uip_write` loses the character after a newline** (`genstd.c:161`).
  `len--` shortens the loop that walks the string, so the tail is dropped and
  a stale byte is sent instead.
- **Terminator one byte too far** (`httpd-fs.c:215`). `huge[len + 1] = 0`
  leaves `huge[len]` stale, and writes past the buffer for a file of
  `FILE_HUGE_SIZE - 1` bytes.
- **A long request path overflows the stack** (`httpd-fs.c:159`).
  `httpd_fs_open` appends the client's path to `"/mmc"` in a 15-byte array
  with `strcat`; a path of more than 10 bytes, whether the file exists or
  not, writes past it.
- **Unchecked 404 open** (`httpd.c:274`). After a read error, the response
  streams `len` bytes that were never read.
- **Suffix dispatch by the first `.`** (`httpd.c:283`). `handle_output`
  looks for `.pht` and `.lua` after the first `.` of the whole path, while
  `send_headers` looks after the last. A .pht page in a directory whose name
  has a `.` (`/d.x/a.pht`) is sent by `send_file`: the client receives its
  Lua source, labelled text/html. `/a.pht.x` runs as a tag page.
- **Suffixes compared as prefixes** (`httpd.c:249-261`). `strncmp` over the
  constant's length accepts `.phtml` as `.pht` and rejects `.htm`, which is
  sent as text/plain; unknown suffixes are text/plain, where the
  specification's table says html for htm and binary by default.
- **A failing script's output is still sent** (`httpd.c:165`, `192`). The
  callers ignore the error of `http_run_elua`, and `http_output_elua` sends
  what the script wrote before it. The spec says the failing region's output
  is absent.
- **Unterminated `<?lua` sent as text** (`httpd.c:202`). When no `?>`
  follows, the cursor moves six bytes on and the script's source is sent as
  literal text. The spec says the rest of the body is one script span.
- **A second `=` panics Lua** (`httpd.c:498`, `510`). Each `=` pushes a key.
  With two keys pending, `lua_settable(L, -3)` indexes a string, an
  unprotected error.
- **The decoder reads past the query's NUL** (`httpd.c:491`). With no key
  pending, the loop continues into what an earlier, longer query left. So
  `?a` over `?aa=a` sets `a = "a"`. An `&` with no key pending stays in the
  key.
- **Oversized frame wedges reception** (`platform.c:737`). The frame is never
  read or dropped.

## Not modelled, and plan

- The overflow of `str[20]` in the decoder needs `sizeof(s->http_params)`,
  which `httpd.h` sets. That file is not in the repository.
- The victim order. The spec has one round-robin cursor for the table. The
  code evicts the slot after `s->http_connection_nr` of the uIP slot that
  handles the event, and a lookup moves that value. Two uIP slots can
  therefore evict the same table slot twice in a row. This is a violation
  that waits for a free run.
- Poll starvation: periodic processing, and so the idle abort, runs only when
  no frame arrived (`httpd-uip.c:76`). Showing it needs `NetLoop` composed
  with `Httpd`'s poll events.
- Whether `elua_uip_mainloop`, which the tick handler runs right after
  setting `eth_timer_fired`, takes every tick from `httpd_uip_mainloop`
  depends on code that is not in the repository; `NetLoop` allows both.
- Stray stdout: `uip_write` serves every stdout write of the build, using
  `g_httpd_state`, which points at the connection of the last script run (or
  is NULL before the first). The `printf` of `httpd_fs_open` on an
  `httpd_fs_int` failure (`httpd-fs.c:149`) writes there. It needs the three
  models composed and a failed first malloc of `huge`; it is listed as a
  hazard.
- The Lua stack below the API: `lua_pop` after `lua_setfield`
  (`httpd.c:484`) pops from an empty stack. `ParamDecode` models the stack
  relative to the table `lua_getfield` pushes.
- Not modelled: network setup (`http_uip_init`, which reads the static
  configuration once before the timer interrupt is enabled, and
  `dhcpc_configured`, compiled only with `BUILD_DHCPC`, which the build does
  not define), uIP itself (not under `src/`) and
  the AVR32 drivers. These are hardware or configuration I/O with no state
  the server's properties depend on.
