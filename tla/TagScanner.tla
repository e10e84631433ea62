----------------------------- MODULE TagScanner -----------------------------
(***************************************************************************)
(* handle_elua_tags() of src/src/webserver/httpd.c at byte level: the loop *)
(* that splits a .pht page into literal chunks, sent with                  *)
(* send_part_of_file(), and <?lua ... ?> blocks, run with http_run_elua()  *)
(* and answered with http_output_elua().                                   *)
(*                                                                         *)
(* The page lies in file_fs.huge as httpd_fs_open() left it: its len       *)
(* bytes, then huge[len], which the open does not write (it holds a byte   *)
(* of an earlier file or of malloc), then the NUL written at len + 1, then *)
(* what earlier files left after it.  strstr() and strchr() run over this  *)
(* memory, not over the page, so they see those bytes.  Offsets are        *)
(* 0-based, as in the C code.  A sent item is <<"lit", bytes>> or          *)
(* <<"lua", script source>>; the script's output is ScriptOutput's         *)
(* concern.  Each send completes before the next step, as PT_WAIT_THREAD   *)
(* waits for it; aborts and acks are Httpd's concern.                      *)
(***************************************************************************)
EXTENDS Integers, Sequences, FiniteSets

CONSTANTS
    MSS,        \* uip_mss()
    Pages,      \* the .pht pages a request may open
    Stale,      \* the bytes huge[len] may hold
    Tails,      \* what may follow the terminator: byte sequences ending in NUL
    NUL

ASSUME /\ MSS \in Nat \ {0}
       /\ \A t \in Tails : Len(t) > 0 /\ t[Len(t)] = NUL

VARIABLES
    mem,    \* file_fs.huge from offset 0 on
    data,   \* s->file.data, as an offset into huge
    len,    \* s->file.len
    page,   \* history: the page the scan started with
    out     \* history: what was sent, adjacent literal chunks merged

vars == <<mem, data, len, page, out>>

\* The byte at offset j; past the modelled memory lies a NUL.
Byte(j) == IF j \in DOMAIN mem THEN mem[j] ELSE NUL

\* The n bytes from offset j on.
Bytes(j, n) == [k \in 1 .. n |-> Byte(j + k - 1)]

\* No NUL in from .. q - 1: a C string search from 'from' reaches q.
Reaches(from, q) == \A j \in from .. q - 1 : Byte(j) # NUL

\* The least of a set of offsets, -1 (NULL) for none.
First(hits) == IF hits = {} THEN -1 ELSE CHOOSE q \in hits : \A r \in hits : q <= r

\* Offsets a search from 'from' can meet: up to the end of the memory.
Span(from) == from .. from + Cardinality(DOMAIN mem)

\* strchr(from, c).
StrChr(from, c) == First({q \in Span(from) : Byte(q) = c /\ Reaches(from, q)})

\* strstr(from, "?>"): the offset of the '?'.
StrStrClose(from) ==
    First({q \in Span(from) : Byte(q) = "?" /\ Byte(q + 1) = ">" /\ Reaches(from, q)})

\* Sending an item; a literal chunk after a literal chunk extends it.
Emit(o, kind, bytes) ==
    IF kind = "lit" /\ o # <<>> /\ o[Len(o)][1] = "lit"
    THEN [o EXCEPT ![Len(o)] = <<"lit", o[Len(o)][2] \o bytes>>]
    ELSE Append(o, <<kind, bytes>>)

\* The cursor never leaves the page.
TypeOK ==
    /\ data \in 0 .. Len(page) /\ len \in Int
    /\ page \in Pages
    /\ \A k \in 1 .. Len(out) : out[k][1] \in {"lit", "lua"}

(***************************************************************************)
(* handle_output() of a .pht page: httpd_fs_open() has read the page into  *)
(* huge (huge[len + 1] = 0) and set s->file; PT_INIT(&s->scriptpt).        *)
(***************************************************************************)
Init ==
    \E p \in Pages, st \in Stale, tl \in Tails :
        LET m == p \o <<st, NUL>> \o tl
        IN  /\ mem = [j \in 0 .. Len(m) - 1 |-> m[j + 1]]
            /\ data = 0 /\ len = Len(p)
            /\ page = p /\ out = <<>>

\* The start test: the five bytes of "<?lua" at s->file.data.
IsMarker(d) ==
    /\ Byte(d) = "<" /\ Byte(d + 1) = "?" /\ Byte(d + 2) = "l"
    /\ Byte(d + 3) = "u" /\ Byte(d + 4) = "a"

\* Mutant: the two bytes of "?>" are not taken off the remaining length.
ScanScriptKeepClose ==
    /\ len > 0 /\ IsMarker(data)
    /\ LET sp == data + 6
           p  == StrStrClose(sp)
       IN  IF p # -1
           THEN /\ data' = p + 2 /\ len' = len - 6 - (p - sp)
                /\ out' = Emit(out, "lua", Bytes(sp, p - sp))
           ELSE /\ data' = sp /\ len' = len - 6 /\ UNCHANGED out
    /\ UNCHANGED <<mem, page>>

(***************************************************************************)
(* The script branch: skip six bytes, strstr() for "?>" from there; if it *)
(* is found run the bytes before it, continue after it and send the       *)
(* output; if not, continue at the skipped-to byte, running nothing.       *)
(***************************************************************************)
ScanScript ==
    /\ len > 0 /\ IsMarker(data)
    /\ LET sp == data + 6
           sl == len - 6
           p  == StrStrClose(sp)
       IN  IF p # -1
           THEN /\ data' = p + 2
                /\ len' = sl - (p + 2 - sp)
                /\ out' = Emit(out, "lua", Bytes(sp, p - sp))
           ELSE /\ data' = sp /\ len' = sl
                /\ UNCHANGED out
    /\ UNCHANGED <<mem, page>>

\* Mutant: the chunk is not cut before the next '<'.
ScanLiteralNoCut ==
    /\ len > 0 /\ ~IsMarker(data)
    /\ LET n == IF len > MSS THEN MSS ELSE len
       IN  /\ out' = Emit(out, "lit", Bytes(data, n))
           /\ data' = data + n /\ len' = len - n
    /\ UNCHANGED <<mem, page>>

\* Mutant: strchr() from the cursor even when it is on a '<', and no check
\* that the '<' found is not the cursor's own.
ScanLiteralFromCursor ==
    /\ len > 0 /\ ~IsMarker(data)
    /\ LET ptr == StrChr(data, "<")
           n   == IF ptr # -1
                  THEN IF ptr - data >= MSS THEN MSS ELSE ptr - data
                  ELSE IF len > MSS THEN MSS ELSE len
       IN  /\ out' = Emit(out, "lit", Bytes(data, n))
           /\ data' = data + n /\ len' = len - n
    /\ UNCHANGED <<mem, page>>

(***************************************************************************)
(* The literal branch: at most MSS bytes, cut before the next '<' (searched*)
(* from the byte after a leading '<'); send them and advance.              *)
(***************************************************************************)
ScanLiteral ==
    /\ len > 0 /\ ~IsMarker(data)
    /\ LET n0  == IF len > MSS THEN MSS ELSE len
           ptr == IF Byte(data) = "<" THEN StrChr(data + 1, "<") ELSE StrChr(data, "<")
           n   == IF ptr # -1 /\ ptr # data
                  THEN IF ptr - data >= MSS THEN MSS ELSE ptr - data
                  ELSE n0
       IN  /\ out' = Emit(out, "lit", Bytes(data, n))
           /\ data' = data + n /\ len' = len - n
    /\ UNCHANGED <<mem, page>>

Next == ScanScript \/ ScanLiteral

(* A send blocks until the peer acks it, and TCP retransmits until it      *)
(* does (Httpd's fairness on acks), so an enabled step is taken.           *)
Spec == Init /\ [][Next]_vars /\ WF_vars(Next)

-----------------------------------------------------------------------------
(***************************************************************************)
(* The reference: the spec's scan of a tag page.  The start marker is      *)
(* "<?lua" and the byte that separates it from the script, the end marker *)
(* "?>"; bytes outside markers are literal; a start marker with no end     *)
(* marker makes the rest of the page one script.                           *)
(***************************************************************************)
OpenTag == <<"<", "?", "l", "u", "a", " ">>
CloseTag == <<"?", ">">>

\* The first 1-based index of t in s, 0 if none.
IndexOf(s, t) ==
    LET at == {i \in 1 .. Len(s) - Len(t) + 1 : SubSeq(s, i, i + Len(t) - 1) = t}
    IN  IF at = {} THEN 0 ELSE CHOOSE i \in at : \A j \in at : i <= j

RECURSIVE Render(_)
Render(s) ==
    LET i == IndexOf(s, OpenTag)
        lit(b) == IF b = <<>> THEN <<>> ELSE <<<<"lit", b>>>>
    IN  IF i = 0 THEN lit(s)
        ELSE LET rest == SubSeq(s, i + Len(OpenTag), Len(s))
                 j    == IndexOf(rest, CloseTag)
             IN  lit(SubSeq(s, 1, i - 1)) \o
                 IF j = 0 THEN <<<<"lua", rest>>>>
                 ELSE <<<<"lua", SubSeq(rest, 1, j - 1)>>>>
                        \o Render(SubSeq(rest, j + Len(CloseTag), Len(rest)))

(* When handle_elua_tags() is done, it has sent exactly the page's literal *)
(* text, in order and without gaps, and run exactly the page's scripts, in *)
(* order, each once with its own source: what the spec's scan of the page  *)
(* gives, whatever MSS cuts and whatever bytes lie after the page.         *)
ScanMatchesRender == len <= 0 => out = Render(page)

(* The scan of a page always ends: every step of handle_elua_tags()        *)
(* shortens s->file.len, so the response reaches PSOCK_CLOSE.              *)
ScanTerminates == <>(len <= 0)
=============================================================================
