--------------------------- MODULE MCContentType ---------------------------
(***************************************************************************)
(* The suffix decisions of httpd.c over a bounded set of request paths:    *)
(* an optional directory (with or without a '.' in its name), a base name, *)
(* and one of the suffixes the table knows, a longer or shorter variant of *)
(* one, a second suffix, or none.                                          *)
(***************************************************************************)
EXTENDS ContentType

VARIABLE name   \* s->filename of the request being answered

Dirs     == {<<>>, <<"/", "d">>, <<"/", "d", ".", "x">>}
Suffixes == {<<>>, http_html, http_pht, http_lua, http_css, http_png, http_gif,
             http_jpg, <<".", "h", "t", "m">>, <<".", "p", "h", "t", "m", "l">>,
             <<".", "t", "x", "t">>, http_pht \o <<".", "x">>}
Names    == {d \o <<"/", "a">> \o x : d \in Dirs, x \in Suffixes}

\* A request for any of the names; the decision does not change the name.
Init == name \in Names
Next == UNCHANGED name
Spec == Init /\ [][Next]_name

(* The Content-Type line send_headers() sends and the generator            *)
(* handle_output() runs are both the ones the suffix table of the          *)
(* specification gives for the text after the last '.': a script page is  *)
(* run and labelled text/html, a static page is sent as it is stored.      *)
ContentTypeMatchesSpec ==
    /\ HeaderType(name) = SpecType(name)
    /\ OutputKind(name) = SpecKind(name)
=============================================================================
