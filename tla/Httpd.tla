------------------------------- MODULE Httpd -------------------------------
(***************************************************************************)
(* The connection engine of src/src/webserver/httpd.c: one uIP callback,   *)
(* httpd_appcall(), runs for every event of every TCP connection and       *)
(* drives that connection's protothreads (handle_input, handle_output,     *)
(* send_file, handle_elua_tags, handle_elua_scripts) one bounded step.     *)
(*                                                                         *)
(* Each uIP connection slot c has its own struct httpd_state (uip_conn->   *)
(* appstate), which survives from one TCP connection on the slot to the    *)
(* next.  Three things are shared by all slots:                            *)
(*   - the client table connection[] (module ClientTable), mapping a peer  *)
(*     address to the Lua state kept for it;                               *)
(*   - the set of Lua states alive on the heap (lua_open / lua_close);     *)
(*   - file_fs.huge of httpd-fs.c, the one buffer every httpd_fs_open()    *)
(*     reads a file into (FILE_CACHE_SIZE is 0, so the cache never holds a *)
(*     file and every open uses huge); s->file.data points into it.        *)
(*                                                                         *)
(* Data abstraction: a file is a sequence of segments, "lit" (one send of  *)
(* literal bytes, at most one MSS) or "lua" (one <?lua ... ?> script, or   *)
(* the whole body of a .lua file).  What a connection sends is recorded as *)
(* <<f, i>>: segment i as read from the buffer while it held file f.       *)
(* The two header lines are one send; a request line arrives in one data  *)
(* event.                                                                  *)
(***************************************************************************)
EXTENDS Naturals, Sequences, FiniteSets

CONSTANTS
    Conns,          \* uIP connection slots (uip_conns[])
    Addrs,          \* remote IP addresses of peers
    LuaIds,         \* the lua_State objects the heap has room for
    Content,        \* [file name -> Seq({"lit","lua"})]: the store (/mmc)
    Names,          \* resource names a request can carry, found or not
    Kind,           \* [Names -> {"pht","lua","other"}]: page kind by suffix
    IndexPage,      \* http_index_pht, served for "GET / "
    NotFoundPage,   \* http_404_html
    Queries,        \* query strings (the part after '?')
    NoQuery,        \* empty http_params
    NoFile,         \* nothing read into file_fs.huge yet
    Garbage,        \* bytes of the buffer beyond the file held in it
    BadReq,         \* a request that is not "GET /..."
    MaxPolls,       \* poll events before the idle abort (20 in the code)
    WEB_MAX_CLIENT, NoAddr, NULL

Store == DOMAIN Content

ASSUME /\ IndexPage \in Store /\ NotFoundPage \in Store /\ Store \subseteq Names
       /\ Kind[NotFoundPage] = "other"
       /\ \A f \in Store : Len(Content[f]) > 0
       /\ NULL \notin LuaIds /\ NoAddr \notin Addrs
       /\ MaxPolls \in Nat \ {0}

CT == INSTANCE ClientTable

VARIABLES
    pc,          \* [Conns -> protothread position], see PcValues
    peer,        \* s->ripaddr
    nr,          \* s->http_connection_nr
    newPht,      \* s->new_pht_page
    timer,       \* s->timer, consecutive poll events
    file,        \* s->filename (the effective resource)
    pos,         \* index of the segment in flight (s->file.data)
    params,      \* s->http_params
    table,       \* connection[]
    live,        \* lua_States open on the heap
    owner,       \* [LuaIds -> Addrs]: the peer each state was opened for
    qOf,         \* [LuaIds -> query]: the HTTP_PARAMS table set at lua_open
    huge,        \* the file whose bytes file_fs.huge holds
    \* history variables, reset for each request
    out,         \* what this response has sent, in order
    served,      \* the request line was accepted
    ran,         \* a script of this page has already run
    phtBroken,   \* a later script of a .pht page lost the page's Lua state
    luaDropped,  \* a .lua page closed the peer's Lua state
    staleParams  \* a script of this response ran with another request's HTTP_PARAMS

vars == <<pc, peer, nr, newPht, timer, file, pos, params, table, live, owner,
          qOf, huge, out, served, ran, phtBroken, luaDropped, staleParams>>

PcValues == {"free",     \* no TCP connection on the slot
             "req",      \* handle_input waiting for the request line
             "hdr",      \* send_headers waiting for the ack
             "file",     \* send_file waiting for the ack of segment pos
             "lua",      \* http_output_elua of a .lua page waiting
             "tags",     \* handle_elua_tags waiting on segment pos
             "closing"}  \* PSOCK_CLOSE done, waiting for uIP to close

Requests == ({[name |-> "/", q |-> NoQuery]}
              \cup [name : Names, q : Queries \cup {NoQuery}]) \cup {BadReq}

Item == (Store \cup {Garbage}) \X Nat

TypeOK ==
    /\ pc \in [Conns -> PcValues]
    /\ peer \in [Conns -> Addrs \cup {NoAddr}]
    /\ nr \in [Conns -> CT!Slots]
    /\ newPht \in [Conns -> BOOLEAN]
    /\ timer \in [Conns -> 0 .. MaxPolls]
    /\ file \in [Conns -> Store \cup {NoFile}]
    /\ pos \in [Conns -> Nat]
    /\ params \in [Conns -> Queries \cup {NoQuery}]
    /\ table \in [CT!Slots -> [addr : Addrs \cup {NoAddr}, L : LuaIds \cup {NULL}]]
    /\ live \subseteq LuaIds
    /\ owner \in [LuaIds -> Addrs \cup {NoAddr}]
    /\ qOf \in [LuaIds -> Queries \cup {NoQuery}]
    /\ huge \in Store \cup {NoFile}
    /\ out \in [Conns -> Seq(Item)]
    /\ served \in [Conns -> BOOLEAN]
    /\ ran \in [Conns -> BOOLEAN]
    /\ phtBroken \in [Conns -> BOOLEAN]
    /\ luaDropped \in [Conns -> BOOLEAN]
    /\ staleParams \in [Conns -> BOOLEAN]

\* uip_conns[] and connection[] are static, so zero-initialised.
Init ==
    /\ pc = [c \in Conns |-> "free"]
    /\ peer = [c \in Conns |-> NoAddr]
    /\ nr = [c \in Conns |-> 0]
    /\ newPht = [c \in Conns |-> FALSE]
    /\ timer = [c \in Conns |-> 0]
    /\ file = [c \in Conns |-> NoFile]
    /\ pos = [c \in Conns |-> 0]
    /\ params = [c \in Conns |-> NoQuery]
    /\ table = CT!EmptyTable
    /\ live = {}
    /\ owner = [l \in LuaIds |-> NoAddr]
    /\ qOf = [l \in LuaIds |-> NoQuery]
    /\ huge = NoFile
    /\ out = [c \in Conns |-> <<>>]
    /\ served = [c \in Conns |-> FALSE]
    /\ ran = [c \in Conns |-> FALSE]
    /\ phtBroken = [c \in Conns |-> FALSE]
    /\ luaDropped = [c \in Conns |-> FALSE]
    /\ staleParams = [c \in Conns |-> FALSE]

-----------------------------------------------------------------------------
(***************************************************************************)
(* The file buffer.  httpd_fs_open() finds no cached name (the cache of   *)
(* size 0 never holds one), so it fopen()s "/mmc<name>" and fread()s the   *)
(* whole file into file_fs.huge; a missing file makes handle_output open  *)
(* the 404 page, which again lands in huge.                                *)
(***************************************************************************)
FsFound(name) == name \in Store

\* The segment at index p as the buffer holds it now, and what sending it
\* puts on the wire; past the end of the buffered file is stale bytes.
InBuffer(p) == huge # NoFile /\ p <= Len(Content[huge])
SegAt(p) == IF InBuffer(p) THEN Content[huge][p] ELSE "lit"
ReadItem(p) == IF InBuffer(p) THEN <<huge, p>> ELSE <<Garbage, p>>

(***************************************************************************)
(* The per-event view of connection c: s->L as the lookup in the client   *)
(* table leaves it, the shared Lua heap, and c's own fields.  The body of  *)
(* an event transforms this record; Finish writes it back.                 *)
(***************************************************************************)
Env(c) == [L |-> CT!LookupL(table, peer[c]), live |-> live, owner |-> owner,
           qOf |-> qOf, newPht |-> newPht[c], ran |-> ran[c],
           phtB |-> phtBroken[c], luaD |-> luaDropped[c], sp |-> staleParams[c],
           out |-> out[c],
           pc |-> pc[c], pos |-> pos[c], ok |-> TRUE]

(***************************************************************************)
(* http_run_elua(): a new .pht page closes the peer's state first; with no *)
(* state, lua_open() makes one (NULL when the heap is full: return -1) and *)
(* fills HTTP_PARAMS from s->http_params; then the chunk runs.  The flag   *)
(* new_pht_page is cleared only on the path that closed a state.  Where    *)
(* the allocator puts the new state is not known, so the result is the    *)
(* set of outcomes, one per free heap slot.                                *)
(***************************************************************************)
RunElua(e, a, q, isPht) ==
    LET closes  == e.newPht /\ e.L # NULL
        e1      == IF closes
                   THEN [e EXCEPT !.live = @ \ {e.L}, !.L = NULL, !.newPht = FALSE]
                   ELSE e
        creates == e1.L = NULL
        oom     == creates /\ e1.live = LuaIds
        opened  == IF creates /\ ~oom
                   THEN {[e1 EXCEPT !.L = l, !.live = @ \cup {l},
                                    !.owner[l] = a, !.qOf[l] = q] : l \in LuaIds \ e1.live}
                   ELSE {e1}
    IN  {[e2 EXCEPT !.ok   = ~oom,
                    !.ran  = @ \/ ~oom,
                    !.phtB = @ \/ (isPht /\ e.ran /\ (closes \/ creates)),
                    !.luaD = @ \/ (~isPht /\ closes),
                    !.sp   = @ \/ (~oom /\ e2.qOf[e2.L] # q)] : e2 \in opened}

\* One PSOCK send of segment p, then the protothread waits at 'where'.
SendItem(e, p, where) ==
    [e EXCEPT !.out = Append(@, ReadItem(p)), !.pc = where, !.pos = p]

\* Mutant: the loop stops one chunk early (while (s->file.len > s->len)).
SendFileFromShort(e, c, p) ==
    IF p < Len(Content[file[c]]) THEN {SendItem(e, p, "file")}
    ELSE {[e EXCEPT !.pc = "closing"]}

\* send_file(): do { send one chunk } while (s->file.len > 0).
SendFileFrom(e, c, p) ==
    IF p <= Len(Content[file[c]]) THEN {SendItem(e, p, "file")}
    ELSE {[e EXCEPT !.pc = "closing"]}

(***************************************************************************)
(* handle_elua_tags() from segment p on: a literal is sent and waited on;  *)
(* a script runs and its output is sent and waited on, unless the run      *)
(* failed, whose empty write_buffer PSOCK_SEND skips without waiting.      *)
(* The loop is bounded by this connection's s->file.len, the segments are  *)
(* read from the buffer.                                                   *)
(***************************************************************************)
RECURSIVE TagsFrom(_, _, _)
TagsFrom(e, c, p) ==
    IF p > Len(Content[file[c]]) THEN {[e EXCEPT !.pc = "closing", !.pos = p]}
    ELSE IF SegAt(p) = "lua"
         THEN UNION {IF r.ok THEN {SendItem(r, p, "tags")} ELSE TagsFrom(r, c, p + 1) :
                        r \in RunElua(e, peer[c], params[c], TRUE)}
         ELSE {SendItem(e, p, "tags")}

\* handle_output() once the headers are acked: dispatch on the suffix.
HandleOutput(e, c) ==
    CASE Kind[file[c]] = "pht" -> TagsFrom([e EXCEPT !.newPht = TRUE], c, 1)
      [] Kind[file[c]] = "lua" ->
            {IF r.ok THEN SendItem(r, 1, "lua") ELSE [r EXCEPT !.pc = "closing"] :
                r \in RunElua(e, peer[c], params[c], FALSE)}
      [] OTHER -> SendFileFrom(e, c, 1)

(***************************************************************************)
(* The end of httpd_appcall(): the table walk with the final s->L, and the *)
(* write-back of c's fields.  Any event other than a poll zeroes s->timer. *)
(***************************************************************************)
Finish(c, e) ==
    LET t == CT!Commit(table, peer[c], nr[c], e.L)
    IN  /\ table' = t.table
        /\ nr' = [nr EXCEPT ![c] = t.nr]
        /\ pc' = [pc EXCEPT ![c] = e.pc]
        /\ pos' = [pos EXCEPT ![c] = e.pos]
        /\ out' = [out EXCEPT ![c] = e.out]
        /\ live' = e.live
        /\ owner' = e.owner
        /\ qOf' = e.qOf
        /\ newPht' = [newPht EXCEPT ![c] = e.newPht]
        /\ ran' = [ran EXCEPT ![c] = e.ran]
        /\ phtBroken' = [phtBroken EXCEPT ![c] = e.phtB]
        /\ luaDropped' = [luaDropped EXCEPT ![c] = e.luaD]
        /\ staleParams' = [staleParams EXCEPT ![c] = e.sp]
        /\ timer' = [timer EXCEPT ![c] = 0]
        /\ UNCHANGED <<peer, file, params, huge, served>>

\* The table walk of an event that leaves s->L as the lookup found it.
TableOnly(c, a) ==
    LET t == CT!Commit(table, a, nr[c], CT!LookupL(table, a))
    IN  /\ table' = t.table
        /\ nr' = [nr EXCEPT ![c] = t.nr]

-----------------------------------------------------------------------------
(* uip_connected(): PSOCK_INIT, state = STATE_WAITING, timer = 0;          *)
(* handle_input then blocks in PSOCK_READTO.                               *)
Connect(c, a) ==
    /\ pc[c] = "free"
    /\ pc' = [pc EXCEPT ![c] = "req"]
    /\ peer' = [peer EXCEPT ![c] = a]
    /\ timer' = [timer EXCEPT ![c] = 0]
    /\ served' = [served EXCEPT ![c] = FALSE]
    /\ TableOnly(c, a)
    /\ UNCHANGED <<newPht, file, pos, params, live, owner, qOf, huge, out,
                   ran, phtBroken, luaDropped, staleParams>>

(***************************************************************************)
(* uip_newdata() with the request line: handle_input() checks "GET " and a *)
(* leading '/', else closes; "/" alone maps to the index page and keeps    *)
(* the old http_params; a '?' splits the query off, else http_params is    *)
(* emptied.  handle_output() then opens the file (or the 404 page) into    *)
(* huge and sends the headers.                                             *)
(***************************************************************************)
Request(c, r) ==
    /\ pc[c] = "req"
    /\ timer' = [timer EXCEPT ![c] = 0]
    /\ TableOnly(c, peer[c])
    /\ IF r = BadReq
       THEN /\ pc' = [pc EXCEPT ![c] = "closing"]
            /\ UNCHANGED <<file, pos, params, huge, out, served, ran,
                           phtBroken, luaDropped, staleParams>>
       ELSE LET name == IF r.name = "/" THEN IndexPage ELSE r.name
                eff  == IF FsFound(name) THEN name ELSE NotFoundPage
            IN  /\ pc' = [pc EXCEPT ![c] = "hdr"]
                /\ params' = [params EXCEPT ![c] = IF r.name = "/" THEN @ ELSE r.q]
                /\ file' = [file EXCEPT ![c] = eff]
                /\ huge' = eff
                /\ pos' = [pos EXCEPT ![c] = 0]
                /\ out' = [out EXCEPT ![c] = <<>>]
                /\ served' = [served EXCEPT ![c] = TRUE]
                /\ ran' = [ran EXCEPT ![c] = FALSE]
                /\ phtBroken' = [phtBroken EXCEPT ![c] = FALSE]
                /\ luaDropped' = [luaDropped EXCEPT ![c] = FALSE]
                /\ staleParams' = [staleParams EXCEPT ![c] = FALSE]
    /\ UNCHANGED <<peer, newPht, live, owner, qOf>>

\* uip_acked() of the headers: handle_output() picks the body generator.
AckHeaders(c) ==
    /\ pc[c] = "hdr"
    /\ \E e \in HandleOutput(Env(c), c) : Finish(c, e)

\* Mutant: the chunk index advances by two, one chunk is never sent.
AckFileSkip(c) ==
    /\ pc[c] = "file"
    /\ \E e \in SendFileFrom(Env(c), c, pos[c] + 2) : Finish(c, e)

\* uip_acked() of a chunk of send_file(): advance, send the next or close.
AckFile(c) ==
    /\ pc[c] = "file"
    /\ \E e \in SendFileFrom(Env(c), c, pos[c] + 1) : Finish(c, e)

\* Mutant: handle_output() never reaches PSOCK_CLOSE after the output.
AckLuaNoClose(c) ==
    /\ pc[c] = "lua"
    /\ Finish(c, Env(c))

\* uip_acked() of a .lua page's output: handle_output() closes.
AckLua(c) ==
    /\ pc[c] = "lua"
    /\ Finish(c, [Env(c) EXCEPT !.pc = "closing"])

\* uip_acked() of a segment of handle_elua_tags(): scan on.
AckTags(c) ==
    /\ pc[c] = "tags"
    /\ \E e \in TagsFrom(Env(c), c, pos[c] + 1) : Finish(c, e)

\* Mutant: the idle check is dropped, a poll only counts.
PollNoAbort(c) ==
    /\ pc[c] \in {"req", "hdr", "file", "lua", "tags"}
    /\ timer' = [timer EXCEPT ![c] = timer[c] + 1]
    /\ UNCHANGED pc
    /\ TableOnly(c, peer[c])
    /\ UNCHANGED <<peer, newPht, file, pos, params, live, owner, qOf, huge,
                   out, served, ran, phtBroken, luaDropped, staleParams>>

(* uip_poll(): ++s->timer, uip_abort() at MaxPolls; no protothread moves.  *)
Poll(c) ==
    /\ pc[c] \in {"req", "hdr", "file", "lua", "tags"}
    /\ timer' = [timer EXCEPT ![c] = timer[c] + 1]
    /\ pc' = [pc EXCEPT ![c] = IF timer[c] + 1 >= MaxPolls THEN "free" ELSE @]
    /\ TableOnly(c, peer[c])
    /\ UNCHANGED <<peer, newPht, file, pos, params, live, owner, qOf, huge,
                   out, served, ran, phtBroken, luaDropped, staleParams>>

\* The last thing c sent was bytes of the buffer (a chunk or a literal),
\* not a header line or a script's write_buffer.
SentFromBuffer(c) ==
    /\ out[c] # <<>> /\ pc[c] \in {"file", "tags"}
    /\ LET it == out[c][Len(out[c])]
       IN  it[1] = Garbage \/ Content[it[1]][it[2]] = "lit"

(***************************************************************************)
(* uip_rexmit(): the segment in flight was lost.  The event is not a poll, *)
(* so s->timer = 0, and the protothread waiting on the send sends it       *)
(* again: generate_part_of_file() and send_part_of_file() copy from        *)
(* s->file.data, i.e. from the buffer as it is now, so the peer receives   *)
(* the regenerated bytes in place of the lost ones; a header line or a     *)
(* write_buffer is resent as it was.                                       *)
(***************************************************************************)
Rexmit(c) ==
    /\ pc[c] \in {"hdr", "file", "lua", "tags"}
    /\ timer' = [timer EXCEPT ![c] = 0]
    /\ out' = IF SentFromBuffer(c)
              THEN [out EXCEPT ![c][Len(out[c])] = ReadItem(pos[c])]
              ELSE out
    /\ TableOnly(c, peer[c])
    /\ UNCHANGED <<pc, peer, newPht, file, pos, params, live, owner, qOf, huge,
                   served, ran, phtBroken, luaDropped, staleParams>>

(***************************************************************************)
(* uip_newdata() that completes nothing: a part of the request line, or   *)
(* the header lines after it.  The event is not a poll, so s->timer = 0;   *)
(* handle_input() stays in its PSOCK_READTO (the header loop keeps         *)
(* nothing but cuts a Referer line short); handle_output() waits on its    *)
(* unacked send, which is neither acked nor a retransmission.              *)
(***************************************************************************)
Data(c) ==
    /\ pc[c] \in {"req", "hdr", "file", "lua", "tags"}
    /\ timer' = [timer EXCEPT ![c] = 0]
    /\ TableOnly(c, peer[c])
    /\ UNCHANGED <<pc, peer, newPht, file, pos, params, live, owner, qOf, huge,
                   out, served, ran, phtBroken, luaDropped, staleParams>>

(* uip_closed() / uip_aborted() / uip_timedout(): only the table walk.     *)
Close(c) ==
    /\ pc[c] # "free"
    /\ pc' = [pc EXCEPT ![c] = "free"]
    /\ TableOnly(c, peer[c])
    /\ UNCHANGED <<peer, newPht, timer, file, pos, params, live, owner, qOf,
                   huge, out, served, ran, phtBroken, luaDropped, staleParams>>

Next ==
    \E c \in Conns :
        \/ \E a \in Addrs : Connect(c, a)
        \/ \E r \in Requests : Request(c, r)
        \/ AckHeaders(c)
        \/ AckFile(c)
        \/ AckLua(c)
        \/ AckTags(c)
        \/ Rexmit(c)
        \/ Data(c)
        \/ Poll(c)
        \/ Close(c)

(* TCP retransmits until the peer acks or the connection is torn down, so  *)
(* a pending send is eventually acked; nothing forces the peer to connect, *)
(* send a request, or stay connected.                                      *)
Fairness == \A c \in Conns : WF_vars(AckHeaders(c) \/ AckFile(c) \/ AckLua(c) \/ AckTags(c))

Spec == Init /\ [][Next]_vars /\ Fairness

-----------------------------------------------------------------------------
(***************************************************************************)
(* Properties of the client table and the Lua heap.                        *)
(***************************************************************************)

(* Every peer address has at most one slot of connection[]: the lookup at *)
(* the start of httpd_appcall() must find the slot the commit at the end  *)
(* of an earlier event wrote, else a second slot (and Lua state) appears. *)
UniqueAddr ==
    \A i, j \in CT!Slots :
        (i # j /\ table[i].addr # NoAddr) => table[i].addr # table[j].addr

(* The table never hands out a closed lua_State: when http_run_elua()      *)
(* lua_close()s s->L for a new .pht page, the write-back at the end of     *)
(* httpd_appcall() must replace it in connection[] before another event    *)
(* looks it up.                                                            *)
TableStatesLive ==
    \A i \in CT!Slots : table[i].L # NULL => table[i].L \in live

(* A slot's Lua state was opened for the address the slot holds: one      *)
(* peer's interpreter (its globals, its HTTP_PARAMS) is never handed to    *)
(* another peer, through a reused slot, an eviction or two connections.    *)
StateOwnedByPeer ==
    \A i \in CT!Slots : table[i].L # NULL => owner[table[i].L] = table[i].addr

(* Every Lua state alive on the heap is reachable from connection[]; an   *)
(* unreachable one can never be closed and its memory is lost.  The spec   *)
(* says an evicted slot's engine instance is released.                     *)
NoLeakedState ==
    \A l \in live : \E i \in CT!Slots : table[i].L = l

(***************************************************************************)
(* Properties of one response.                                             *)
(***************************************************************************)

\* The segment indices of what c has sent.
SentIdx(c, k) == out[c][k][2]
PrevIdx(c, k) == IF k = 1 THEN 0 ELSE SentIdx(c, k - 1)

(* What a connection sends is the file it opened, in order, each segment   *)
(* once; only a script whose run failed may be missing; and a response    *)
(* that reaches PSOCK_CLOSE has sent every literal segment.  This is the   *)
(* spec's "the response body equals the store's bytes", read through the   *)
(* buffer the bytes are actually sent from.                                *)
BodyFaithful ==
    \A c \in Conns :
        /\ \A k \in 1 .. Len(out[c]) :
              /\ out[c][k][1] = file[c]
              /\ PrevIdx(c, k) < SentIdx(c, k)
              /\ SentIdx(c, k) <= Len(Content[file[c]])
              /\ \A j \in (PrevIdx(c, k) + 1) .. (SentIdx(c, k) - 1) :
                    Content[file[c]][j] = "lua"
        /\ (served[c] /\ pc[c] = "closing") =>
              \A j \in 1 .. Len(Content[file[c]]) :
                  Content[file[c]][j] = "lit" => \E k \in 1 .. Len(out[c]) : SentIdx(c, k) = j

(* http_run_elua() closes a peer's Lua state only for the first script of *)
(* a .pht page (new_pht_page): the later <?lua ?> blocks of the page see   *)
(* what earlier ones set, and a .lua page never closes the state.          *)
PhtResetOnlyAtPageStart == \A c \in Conns : ~phtBroken[c] /\ ~luaDropped[c]

(* A script runs with the query string of the request it answers: the    *)
(* spec has http_run_elua decode s->http_params into HTTP_PARAMS for the   *)
(* invocation.                                                             *)
ScriptSeesRequestParams == \A c \in Conns : ~staleParams[c]

(* Once a request is accepted, the response is eventually finished         *)
(* (PSOCK_CLOSE) or the connection dropped: the send loops of send_file    *)
(* and handle_elua_tags terminate.                                         *)
ResponseCompletes ==
    \A c \in Conns : (pc[c] = "hdr") ~> (pc[c] \in {"closing", "free"})

-----------------------------------------------------------------------------
(***************************************************************************)
(* Refinement: one connection slot implements the spec's response          *)
(* (module Response).  The slot's protothread position is the connection  *)
(* state, the resource is s->filename, and the body is the segment indices *)
(* sent since the request was accepted (nothing before).  The file buffer  *)
(* is shared by all slots, so this holds for one slot only (the crosstalk  *)
(* run shows why).                                                         *)
(***************************************************************************)
AbsSt == [c \in Conns |->
            CASE pc[c] = "free"    -> "idle"
              [] pc[c] = "req"     -> "parsing"
              [] pc[c] = "closing" -> "closing"
              [] OTHER             -> "streaming"]
AbsRes == [c \in Conns |-> IF file[c] = NoFile THEN NotFoundPage ELSE file[c]]
AbsBody == [c \in Conns |->
              IF served[c] THEN [k \in 1 .. Len(out[c]) |-> out[c][k][2]] ELSE <<>>]

Abstract == INSTANCE Response WITH st <- AbsSt, res <- AbsRes, body <- AbsBody

(* httpd_appcall() implements the spec's connection state machine and       *)
(* response: every event is an open, a reject, an accept, the send of the  *)
(* next segment (passing over only failed scripts), the close after the    *)
(* whole body, a drop, or changes nothing the spec sees; and once a body   *)
(* is being streamed it is finished or dropped.                            *)
ImplementsResponse == Abstract!Spec

(***************************************************************************)
(* Refinement: connection[] implements the spec's identity table (module   *)
(* IdentityTable).  An address maps to the L of the slot the lookup loop   *)
(* finds for it, an address no slot holds to Absent.                       *)
(***************************************************************************)
AbsMap == [a \in Addrs |-> IF CT!SlotOf(table, a) = CT!NoSlot THEN NoAddr
                           ELSE table[CT!SlotOf(table, a)].L]

Identity == INSTANCE IdentityTable WITH Handles <- LuaIds \cup {NULL},
                Capacity <- WEB_MAX_CLIENT, Absent <- NoAddr, map <- AbsMap

(* Every httpd_appcall() event changes connection[] as the spec's identity *)
(* table may: only the event's own peer's handle changes, an unseen peer   *)
(* is added only while a slot is free, and only a full table gives up one  *)
(* entry, to the unseen peer.  Another peer's Lua state is never replaced, *)
(* and a known peer never takes a second slot or someone else's slot.     *)
ImplementsIdentityTable == Identity!Spec
=============================================================================
