----------------------------- MODULE ParamDecode -----------------------------
(***************************************************************************)
(* The query-string decoder of http_run_elua() (src/src/webserver/httpd.c) *)
(* that fills the HTTP_PARAMS table of a freshly opened Lua state from     *)
(* s->http_params, one loop iteration per step.                           *)
(*                                                                         *)
(* s->http_params holds what handle_input() strcpy()'d into it: the query  *)
(* and its NUL, then whatever an earlier, longer query left behind.  The   *)
(* loop runs over the whole sizeof(s->http_params), copying bytes into the *)
(* local str[] (a '+' as a space), pushing a key at '=' (when a byte       *)
(* follows), and calling lua_settable(L, -3) at '&' and at the NUL when a  *)
(* key is pending.  The Lua stack is modelled as a sequence whose first    *)
(* element is the HTTP_PARAMS table; lua_settable() on an index that does  *)
(* not hold a table raises a Lua error outside any protected call, which  *)
(* ends in the panic handler.                                              *)
(***************************************************************************)
EXTENDS Naturals, Sequences, FiniteSets

CONSTANTS
    Size,       \* sizeof(s->http_params)
    StrSize,    \* sizeof(str), 20 in the code
    Chars,      \* the bytes a query is made of, besides '=', '&' and '+'
    Queries,    \* what a request may strcpy() into http_params
    NUL

Bytes == Chars \cup {"=", "&", "+", " "}

ASSUME /\ \A q \in Queries : Len(q) < Size /\ \A k \in 1 .. Len(q) : q[k] \in Bytes \ {" "}
       /\ NUL \notin Bytes
       \* c never exceeds i, so str[] cannot overflow while the buffer is
       \* no longer than str[]; sizeof(http_params) is set in httpd.h.
       /\ StrSize >= Size

VARIABLES
    buf,    \* s->http_params, 0-based
    i, c,   \* the loop's i and c
    str,    \* the local char str[StrSize], 0-based
    pair,   \* a key has been pushed and waits for its value
    stack,  \* the Lua stack above the base: HTTP_PARAMS, then strings
    tbl,    \* the HTTP_PARAMS table: a set of <<key, value>>
    pc,     \* "loop", "done", "panic" or "overflow"
    query   \* history: the query of this request

vars == <<buf, i, c, str, pair, stack, tbl, pc, query>>

\* strcpy(dst, q): the query and its NUL over the buffer, the rest untouched.
StrCpy(b, q) == [k \in 0 .. Size - 1 |-> IF k < Len(q) THEN q[k + 1]
                                         ELSE IF k = Len(q) THEN NUL ELSE b[k]]

\* The C string at str: its bytes up to the first NUL.
CString(s) ==
    LET n == CHOOSE k \in 0 .. StrSize : (k = StrSize \/ s[k] = NUL)
                                        /\ \A j \in 0 .. k - 1 : s[j] # NUL
    IN  [k \in 1 .. n |-> s[k - 1]]

\* A Lua stack slot: <<"table", <<>>>> for HTTP_PARAMS, <<"string", s>>.
TableSlot == <<"table", <<>>>>

\* lua_settable(L, -3) on stack st and table t: t[k] = v for the table at
\* -3, popping k and v; a non-table at -3 raises an unprotected error.
SetTable(st, t) ==
    LET n == Len(st)
    IN  IF st[n - 2] = TableSlot
        THEN [ok |-> TRUE, stack |-> SubSeq(st, 1, n - 2),
              tbl |-> {p \in t : p[1] # st[n - 1][2]} \cup {<<st[n - 1][2], st[n][2]>>}]
        ELSE [ok |-> FALSE, stack |-> st, tbl |-> t]

TypeOK ==
    /\ buf \in [0 .. Size - 1 -> Bytes \cup {NUL}]
    /\ i \in 0 .. Size /\ c \in 0 .. Size /\ pair \in BOOLEAN
    /\ pc \in {"loop", "done", "panic", "overflow"}
    /\ stack[1] = TableSlot

(***************************************************************************)
(* lua_open() of a new state for a request whose query was strcpy()'d over *)
(* what an earlier request left (the appstate is static, so zero at boot). *)
(* A request without '?' zeroes http_params[0], and the decoder is skipped.*)
(***************************************************************************)
Init ==
    \E p, q \in Queries :
        /\ buf = StrCpy(StrCpy([k \in 0 .. Size - 1 |-> NUL], p), q)
        /\ query = q
        /\ i = 0 /\ c = 0 /\ pair = FALSE
        /\ str = [k \in 0 .. StrSize - 1 |-> NUL]
        /\ stack = <<TableSlot>> /\ tbl = {}
        /\ pc = IF q = <<>> THEN "done" ELSE "loop"

\* http_params[i + 1]: at the last i this reads the byte after the array,
\* another field of the struct, of any value.
Next1(b) == IF i + 1 < Size THEN buf[i + 1] = b ELSE TRUE

\* The byte as copied into str[c].
Copied(b) == IF b = "+" THEN " " ELSE b

\* The byte at i, as this iteration first copies it into str[c].
Ch == buf[i]
StrC == [str EXCEPT ![c] = IF Ch = "+" THEN " " ELSE Ch]

\* lua_pushstring(L, str) after str[c] = 0.
Pushed == Append(stack, <<"string", CString([StrC EXCEPT ![c] = NUL])>>)

\* '=' followed by a byte: end the key, push it, a value follows.
Key ==
    /\ pc = "loop" /\ i < Size /\ Ch = "="
    /\ \E b \in Bytes : Next1(b)
    /\ stack' = Pushed /\ str' = [StrC EXCEPT ![c] = NUL]
    /\ c' = 0 /\ pair' = TRUE /\ i' = i + 1
    /\ UNCHANGED <<buf, tbl, pc, query>>

\* The NUL with a key pending: push the value, lua_settable(), break, then
\* lua_pop(L, 1).
End ==
    /\ pc = "loop" /\ i < Size /\ Ch = NUL /\ pair
    /\ LET r == SetTable(Pushed, tbl)
       IN  /\ pc' = IF r.ok THEN "done" ELSE "panic"
           /\ tbl' = r.tbl
           /\ stack' = IF r.ok THEN SubSeq(r.stack, 1, Len(r.stack) - 1) ELSE r.stack
    /\ str' = StrC
    /\ UNCHANGED <<buf, i, c, pair, query>>

\* '&' with a key pending: push the value, lua_settable(), a key follows.
Amp ==
    /\ pc = "loop" /\ i < Size /\ Ch = "&" /\ pair
    /\ LET r == SetTable(Pushed, tbl)
       IN  /\ pc' = IF r.ok THEN "loop" ELSE "panic"
           /\ tbl' = r.tbl /\ stack' = r.stack
    /\ str' = [StrC EXCEPT ![c] = NUL]
    /\ c' = 0 /\ pair' = FALSE /\ i' = i + 1
    /\ UNCHANGED <<buf, query>>

\* Any other byte, and '=' before a NUL, '&' or NUL with no key pending:
\* it stays in str and the loop goes on, past the NUL too.
Copy ==
    /\ pc = "loop" /\ i < Size
    /\ ~(Ch = "=" /\ \E b \in Bytes : Next1(b))
    /\ ~(Ch \in {NUL, "&"} /\ pair)
    /\ str' = StrC /\ c' = c + 1 /\ i' = i + 1
    /\ UNCHANGED <<buf, pair, stack, tbl, pc, query>>

\* The loop ran to sizeof(s->http_params): lua_pop(L, 1).
Exhausted ==
    /\ pc = "loop" /\ i = Size
    /\ pc' = "done" /\ stack' = SubSeq(stack, 1, Len(stack) - 1)
    /\ UNCHANGED <<buf, i, c, str, pair, tbl, query>>

Next == Key \/ End \/ Amp \/ Copy \/ Exhausted

Spec == Init /\ [][Next]_vars

-----------------------------------------------------------------------------
(***************************************************************************)
(* The spec's decoding: split the query on '&', each piece into key and    *)
(* value at its first '=', '+' as a space; a later key overwrites.         *)
(***************************************************************************)
Space(s) == [k \in 1 .. Len(s) |-> IF s[k] = "+" THEN " " ELSE s[k]]

\* The first index of byte b in s, 0 if none.
Find(s, b) == IF \E k \in 1 .. Len(s) : s[k] = b
              THEN CHOOSE k \in 1 .. Len(s) : s[k] = b /\ \A j \in 1 .. k - 1 : s[j] # b
              ELSE 0

RECURSIVE Pieces(_)
Pieces(s) == IF Find(s, "&") = 0 THEN <<s>>
             ELSE <<SubSeq(s, 1, Find(s, "&") - 1)>> \o Pieces(SubSeq(s, Find(s, "&") + 1, Len(s)))

RECURSIVE Decode(_, _)
Decode(ps, t) ==
    IF ps = <<>> THEN t
    ELSE LET p == Head(ps)
             e == Find(p, "=")
             k == Space(SubSeq(p, 1, e - 1))
             v == Space(SubSeq(p, e + 1, Len(p)))
         IN  Decode(Tail(ps), IF e = 0 THEN t ELSE {x \in t : x[1] # k} \cup {<<k, v>>})

SpecDecode(q) == Decode(Pieces(q), {})

(* When the decoder is done, HTTP_PARAMS holds exactly the pairs of this   *)
(* request's query string as the spec decodes it: no pair of an earlier    *)
(* query read past the NUL, no '&' kept in a key, and no Lua panic on the  *)
(* way (a second '=' leaves a string where lua_settable() needs the table).*)
DecodeMatchesSpec == pc # "loop" => pc = "done" /\ tbl = SpecDecode(query)
=============================================================================
