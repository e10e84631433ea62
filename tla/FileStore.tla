----------------------------- MODULE FileStore -----------------------------
(***************************************************************************)
(* The content store of src/src/webserver/httpd-fs.c and the way           *)
(* handle_output() (httpd.c) opens a resource with it.                     *)
(*                                                                         *)
(* file_fs holds one buffer 'huge' of FILE_HUGE_SIZE bytes and FILE_CACHE_NR*)
(* cache entries of FILE_CACHE_SIZE bytes, all malloc()ed on first use by  *)
(* httpd_fs_int().  httpd_fs_open() serves a cached name from its entry,   *)
(* else reads the file from the card: into a free cache entry if it is     *)
(* shorter than FILE_CACHE_SIZE, else into huge, and NUL-terminates it.    *)
(* The build sets FILE_CACHE_SIZE to 0, so every file goes to huge; the    *)
(* cache path is the configuration left commented out next to it.         *)
(*                                                                         *)
(* A byte of file f at offset k (1-based) is <<f, k>>; NUL, Junk (what     *)
(* malloc returns) and Other (the heap beyond an allocation) are model     *)
(* values.  Each buffer is modelled with two cells past its end, so that   *)
(* a write there is visible.  Card I/O and malloc may fail where the      *)
(* constants say so; which call fails is a nondeterministic choice.       *)
(***************************************************************************)
EXTENDS Naturals, Sequences

CONSTANTS
    FILE_HUGE_SIZE, FILE_CACHE_SIZE, FILE_CACHE_NR,
    FILE_NAME_MAX_SIZE,
    Files,          \* [name -> length]: the files on the card (/mmc)
    Names,          \* names a request can carry, present or not
    NameLen,        \* [Names -> Nat]: strlen() of each name
    NotFoundPage,   \* http_404_html
    NUL, Junk, Other, NULL, NoName,
    MallocMayFail,  \* malloc() may return NULL
    ReadMayFail     \* fstat() / fread() may fail on the card

ASSUME /\ FILE_HUGE_SIZE \in Nat \ {0} /\ FILE_CACHE_SIZE \in Nat
       /\ FILE_CACHE_NR \in Nat \ {0}
       /\ DOMAIN Files \subseteq Names /\ NotFoundPage \in DOMAIN Files
       /\ \A f \in DOMAIN Files : Files[f] \in Nat
       /\ MallocMayFail \in BOOLEAN /\ ReadMayFail \in BOOLEAN
       /\ FILE_NAME_MAX_SIZE \in Nat /\ NameLen \in [Names -> Nat]

\* FILE_NAME_PREFIX "/mmc" and the size of the fullpath array of
\* httpd_fs_open(): sizeof(FILE_NAME_PREFIX) + FILE_NAME_MAX_SIZE.
PrefixLen == 4
FullPathSize == PrefixLen + 1 + FILE_NAME_MAX_SIZE

Entries == 0 .. (FILE_CACHE_NR - 1)

\* s->file.data pointing at file_fs.huge (entries are 0 .. NR-1).
HugeBuf == FILE_CACHE_NR + 1

\* A fresh malloc(n): n bytes of junk, then memory that is not ours.
Fresh(n) == [j \in 0 .. (n + 1) |-> IF j < n THEN Junk ELSE Other]

VARIABLES
    huge,     \* file_fs.huge: NULL or its cells
    cache,    \* file_fs.cache[i]: [data, name, len]
    handle,   \* s->file: [len, at]; 'at' is HugeBuf, an entry, or NULL
    req,      \* history: the name the request asked for
    wild,     \* history: fread() wrote through a NULL buffer
    smashed   \* history: a strcat/strcpy of a name wrote past its array

vars == <<huge, cache, handle, req, wild, smashed>>

FileByte == {<<f, k>> : f \in DOMAIN Files, k \in 1 .. FILE_HUGE_SIZE + 2}
Cell == FileByte \cup {NUL, Junk, Other}

TypeOK ==
    /\ huge \in {NULL} \cup [0 .. (FILE_HUGE_SIZE + 1) -> Cell]
    /\ cache \in [Entries -> [data : {NULL} \cup [0 .. (FILE_CACHE_SIZE + 1) -> Cell],
                              name : Names \cup {NoName},
                              len : {0} \cup 0 .. (FILE_CACHE_SIZE - 1)]]
    /\ handle \in [len : Nat, at : {HugeBuf, NULL} \cup Entries]
    /\ req \in Names \cup {NoName}
    /\ wild \in BOOLEAN
    /\ smashed \in BOOLEAN

\* file_fs and uip_conns[] are static: all zero.
Init ==
    /\ huge = NULL
    /\ cache = [i \in Entries |-> [data |-> NULL, name |-> NoName, len |-> 0]]
    /\ handle = [len |-> 0, at |-> NULL]
    /\ req = NoName
    /\ wild = FALSE
    /\ smashed = FALSE

-----------------------------------------------------------------------------
(***************************************************************************)
(* httpd_fs_int(): with huge allocated it returns 0 at once; else it       *)
(* mallocs huge (NULL: return 1), then each entry's data, clearing name    *)
(* and len; the first NULL returns 1, leaving later entries untouched.     *)
(* Outcomes: [h, c, ret]; k is the entry whose malloc fails (NR: none).    *)
(***************************************************************************)
FsInt(h, c) ==
    IF h # NULL THEN {[h |-> h, c |-> c, ret |-> 0]}
    ELSE LET after(k) ==
                [i \in Entries |->
                    IF i < k THEN [data |-> Fresh(FILE_CACHE_SIZE), name |-> NoName, len |-> 0]
                    ELSE IF i = k THEN [c[i] EXCEPT !.data = NULL]
                    ELSE c[i]]
             fails == IF MallocMayFail THEN Entries ELSE {}
         IN  {[h |-> Fresh(FILE_HUGE_SIZE), c |-> after(k), ret |-> IF k = FILE_CACHE_NR THEN 0 ELSE 1]
                 : k \in fails \cup {FILE_CACHE_NR}}
             \cup (IF MallocMayFail THEN {[h |-> NULL, c |-> c, ret |-> 1]} ELSE {})

\* httpd_fs_search_name(): the first entry holding name, else FILE_CACHE_NR.
SearchName(c, name) ==
    IF \E i \in Entries : c[i].name = name
    THEN CHOOSE i \in Entries : c[i].name = name /\ \A j \in 0 .. (i - 1) : c[j].name # name
    ELSE FILE_CACHE_NR

\* httpd_fs_get_free_index(): the first entry with len 0, else FILE_CACHE_NR.
FreeIndex(c) ==
    IF \E i \in Entries : c[i].len = 0
    THEN CHOOSE i \in Entries : c[i].len = 0 /\ \A j \in 0 .. (i - 1) : c[j].len # 0
    ELSE FILE_CACHE_NR

\* Mutant: a file of exactly FILE_CACHE_SIZE bytes is cached too.
CacheableAtSize(len, k) == len <= FILE_CACHE_SIZE /\ k < FILE_CACHE_NR

\* The file goes to cache entry k: shorter than an entry and k is free.
Cacheable(len, k) == len < FILE_CACHE_SIZE /\ k < FILE_CACHE_NR

\* Mutant: the terminator is written over the file's last byte.
FreadTermLast(buf, f) ==
    LET len == Files[f]
        ns  == IF ReadMayFail THEN 0 .. len ELSE {len}
        got(n) == [j \in DOMAIN buf |-> IF j < n THEN <<f, j + 1>> ELSE buf[j]]
    IN  {[buf |-> IF n = len THEN [got(n) EXCEPT ![len - 1] = NUL] ELSE got(n),
          ok  |-> n = len] : n \in ns}

(***************************************************************************)
(* fread(buf, 1, len, fd) of file f: the bytes read land at 0 .. n-1; a    *)
(* short read (n < len) is possible only when the card may fail.  Then     *)
(* buf[len + 1] = 0 on success.  Outcomes: [buf, ok].                      *)
(***************************************************************************)
Fread(buf, f) ==
    LET len == Files[f]
        ns  == IF ReadMayFail THEN 0 .. len ELSE {len}
        got(n) == [j \in DOMAIN buf |-> IF j < n THEN <<f, j + 1>> ELSE buf[j]]
    IN  {[buf |-> IF n = len THEN [got(n) EXCEPT ![len + 1] = NUL] ELSE got(n),
          ok  |-> n = len] : n \in ns}

(***************************************************************************)
(* strcat(fullpath, name), reached when httpd_fs_int() succeeded and the   *)
(* name is not cached: the prefix, the name and its NUL must fit the       *)
(* FullPathSize bytes of fullpath; nothing checks that they do.            *)
(***************************************************************************)
StrcatOverflow(io, name) ==
    /\ io.ret = 0
    /\ SearchName(io.c, name) >= FILE_CACHE_NR
    /\ PrefixLen + NameLen[name] + 1 > FullPathSize

\* strcpy(file_fs.cache[index].name, name) into FILE_NAME_MAX_SIZE bytes.
NameCopyOverflow(name) == NameLen[name] + 1 > FILE_NAME_MAX_SIZE

(***************************************************************************)
(* httpd_fs_open(name, file): the outcomes [h, c, file, ret, wild, smash].*)
(* file->len is zeroed first, set to the size after fstat() and left so on *)
(* the later failures; file->data is written only on success.  fread()    *)
(* into an entry whose malloc failed writes through NULL: the write is    *)
(* recorded in wild and the call goes on as if it had worked.             *)
(***************************************************************************)
FsOpen(h0, c0, file0, name) ==
    LET f0 == [file0 EXCEPT !.len = 0]
        fail(io, f) == [h |-> io.h, c |-> io.c, file |-> f, ret |-> 0, wild |-> FALSE,
                        smash |-> StrcatOverflow(io, name)]
    IN UNION {
      IF io.ret # 0 THEN {fail(io, f0)}
      ELSE IF SearchName(io.c, name) < FILE_CACHE_NR
      THEN LET i == SearchName(io.c, name)
           IN {[h |-> io.h, c |-> io.c, file |-> [len |-> io.c[i].len, at |-> i],
                ret |-> 1, wild |-> FALSE, smash |-> FALSE]}
      ELSE IF name \notin DOMAIN Files THEN {fail(io, f0)}
      ELSE LET len   == Files[name]
               fsz   == [f0 EXCEPT !.len = len]
               k     == FreeIndex(io.c)
               fstat == IF ReadMayFail THEN {fail(io, f0)} ELSE {}
           IN fstat \cup
              IF len > FILE_HUGE_SIZE THEN {fail(io, fsz)}
              ELSE IF Cacheable(len, k)
              THEN IF io.c[k].data = NULL
                   THEN {[h |-> io.h, file |-> [len |-> len, at |-> k], ret |-> 1, wild |-> TRUE,
                          smash |-> StrcatOverflow(io, name) \/ NameCopyOverflow(name),
                          c |-> [io.c EXCEPT ![k] = [data |-> NULL, name |-> name, len |-> len]]]}
                   ELSE {IF r.ok
                         THEN [h |-> io.h, file |-> [len |-> len, at |-> k], ret |-> 1,
                               wild |-> FALSE,
                               smash |-> StrcatOverflow(io, name) \/ NameCopyOverflow(name),
                               c |-> [io.c EXCEPT ![k] = [data |-> r.buf, name |-> name, len |-> len]]]
                         ELSE fail([io EXCEPT !.c[k].data = r.buf], fsz)
                         : r \in Fread(io.c[k].data, name)}
              ELSE {IF r.ok
                    THEN [h |-> r.buf, c |-> io.c, file |-> [len |-> len, at |-> HugeBuf],
                          ret |-> 1, wild |-> FALSE, smash |-> StrcatOverflow(io, name)]
                    ELSE fail([io EXCEPT !.h = r.buf], fsz)
                    : r \in Fread(io.h, name)}
      : io \in FsInt(h0, c0)}

(***************************************************************************)
(* handle_output(): if httpd_fs_open(s->filename, &s->file) fails, it      *)
(* opens http_404_html into the same s->file and goes on to send it,      *)
(* whatever that second open returned.                                     *)
(***************************************************************************)
Open(name) ==
    /\ \E o1 \in FsOpen(huge, cache, handle, name) :
          \/ /\ o1.ret = 1
             /\ huge' = o1.h /\ cache' = o1.c /\ handle' = o1.file
             /\ wild' = (wild \/ o1.wild)
             /\ smashed' = (smashed \/ o1.smash)
          \/ /\ o1.ret = 0
             /\ \E o2 \in FsOpen(o1.h, o1.c, o1.file, NotFoundPage) :
                   /\ huge' = o2.h /\ cache' = o2.c /\ handle' = o2.file
                   /\ wild' = (wild \/ o1.wild \/ o2.wild)
                   /\ smashed' = (smashed \/ o1.smash \/ o2.smash)
    /\ req' = name

Next == \E name \in Names : Open(name)

Spec == Init /\ [][Next]_vars

-----------------------------------------------------------------------------
\* The cell j of the buffer s->file.data points to; a NULL or too short
\* buffer reads memory that is not the file's.
CellAt(j) ==
    LET buf == IF handle.at = HugeBuf THEN huge
               ELSE IF handle.at = NULL THEN NULL ELSE cache[handle.at].data
    IN  IF buf # NULL /\ j \in DOMAIN buf THEN buf[j] ELSE Other

\* s->file holds the whole of file f.
HoldsFile(f) ==
    /\ f \in DOMAIN Files
    /\ handle.len = Files[f]
    /\ \A k \in 1 .. handle.len : CellAt(k - 1) = <<f, k>>

(* What the response streams (s->file.len bytes from s->file.data) is     *)
(* either nothing, or the whole requested file, or the whole 404 page:     *)
(* the file the request named, or the fallback handle_output() opened,     *)
(* never a torn mix or another file's bytes.                               *)
StreamsWholeFile ==
    req # NoName => handle.len = 0 \/ HoldsFile(req) \/ HoldsFile(NotFoundPage)

(* A file in its buffer is followed by NUL: handle_elua_tags() runs strstr *)
(* and strchr over s->file.data, which must stop at the end of the file.  *)
FileTerminated ==
    \A f \in {req, NotFoundPage} : HoldsFile(f) => CellAt(handle.len) = NUL

(* No request name is written past the array it is copied into: the      *)
(* strcat of httpd_fs_open() into its fullpath of "/mmc" plus             *)
(* FILE_NAME_MAX_SIZE bytes, and the strcpy into a cache entry's name,    *)
(* stay inside their stack and heap arrays.  handle_output() passes       *)
(* s->filename as the client sent it, however long.                        *)
NoNameOverflow == ~smashed
=============================================================================
