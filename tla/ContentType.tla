---------------------------- MODULE ContentType ----------------------------
(***************************************************************************)
(* The two suffix decisions httpd.c makes on s->filename:                  *)
(*   - send_headers() picks the Content-Type line from the text after the  *)
(*     LAST '.' (strrchr), compared with strncmp over the length of the    *)
(*     suffix constant (5 bytes for ".html", 4 for the others);            *)
(*   - handle_output() picks the body generator from the text after the    *)
(*     FIRST '.' (strchr), compared with ".pht" and ".lua" over 4 bytes.   *)
(* A file name is a sequence of one-character strings; the C string ends   *)
(* after it (the NUL).  The suffix constants live in httpd-strings, which  *)
(* the repository does not contain: the values below are the ones the      *)
(* strncmp lengths and the uIP originals imply.                            *)
(***************************************************************************)
EXTENDS Naturals, Sequences

NUL == "NUL"

\* http_html, http_pht, http_lua, http_css, http_png, http_gif, http_jpg.
http_html == <<".", "h", "t", "m", "l">>
http_pht  == <<".", "p", "h", "t">>
http_lua  == <<".", "l", "u", "a">>
http_css  == <<".", "c", "s", "s">>
http_png  == <<".", "p", "n", "g">>
http_gif  == <<".", "g", "i", "f">>
http_jpg  == <<".", "j", "p", "g">>

\* The byte at index k of the C string s (1-based), NUL past its end.
CharAt(s, k) == IF k <= Len(s) THEN s[k] ELSE NUL

\* strrchr(s, ch) and strchr(s, ch): the index of the last / first ch, 0
\* for NULL.
StrRChr(s, ch) == LET ks == {k \in 1 .. Len(s) : s[k] = ch}
                  IN  IF ks = {} THEN 0 ELSE CHOOSE k \in ks : \A j \in ks : j <= k
StrChr(s, ch)  == LET ks == {k \in 1 .. Len(s) : s[k] = ch}
                  IN  IF ks = {} THEN 0 ELSE CHOOSE k \in ks : \A j \in ks : k <= j

\* ptr = s + k - 1: the C string from index k on.
From(s, k) == SubSeq(s, k, Len(s))

\* strncmp(a, b, n) == 0: the strings agree on their first n bytes, or up
\* to a NUL both have at the same place.
StrNEq(a, b, n) == \A k \in 1 .. n : CharAt(a, k) = CharAt(b, k)

(***************************************************************************)
(* send_headers(): no '.' gives application/octet-stream; ".html", ".pht"  *)
(* and ".lua" give text/html; then css, png, gif, jpg; anything else       *)
(* text/plain.  The result names the header line sent.                     *)
(***************************************************************************)
HeaderType(name) ==
    LET k == StrRChr(name, ".")
        ptr == From(name, k)
    IN  CASE k = 0 -> "binary"
          [] StrNEq(http_html, ptr, 5) \/ StrNEq(http_pht, ptr, 4)
               \/ StrNEq(http_lua, ptr, 4) -> "html"
          [] StrNEq(http_css, ptr, 4) -> "css"
          [] StrNEq(http_png, ptr, 4) -> "png"
          [] StrNEq(http_gif, ptr, 4) -> "gif"
          [] StrNEq(http_jpg, ptr, 4) -> "jpg"
          [] OTHER -> "plain"

\* handle_output() after the 200 header: handle_elua_tags() for ".pht",
\* handle_elua_scripts() for ".lua", send_file() otherwise.
OutputKind(name) ==
    LET k == StrChr(name, ".")
        ptr == From(name, k)
    IN  CASE k # 0 /\ StrNEq(ptr, http_pht, 4) -> "pht"
          [] k # 0 /\ StrNEq(ptr, http_lua, 4) -> "lua"
          [] OTHER -> "other"

-----------------------------------------------------------------------------
(***************************************************************************)
(* The suffix table of the specification: the exact, case-sensitive text   *)
(* after the last '.' of the resource name selects the type and the body   *)
(* generator; an unrecognised suffix is binary.                            *)
(***************************************************************************)
Suffix(name) == LET k == StrRChr(name, ".")
                IN  IF k = 0 THEN <<>> ELSE From(name, k)

SpecType(name) ==
    LET x == Suffix(name)
    IN  CASE x \in {http_html, SubSeq(http_html, 1, 4), http_pht, http_lua} -> "html"
          [] x = http_css -> "css"
          [] x = http_png -> "png"
          [] x = http_gif -> "gif"
          [] x = http_jpg -> "jpg"
          [] OTHER -> "binary"

SpecKind(name) ==
    CASE Suffix(name) = http_pht -> "pht"
      [] Suffix(name) = http_lua -> "lua"
      [] OTHER -> "other"
=============================================================================
