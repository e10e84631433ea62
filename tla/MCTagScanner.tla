---------------------------- MODULE MCTagScanner ----------------------------
EXTENDS TagScanner

\* Pages are made of whole tokens: an opening tag, a closing tag, text, and
\* the bytes '<' and '?' that start a marker without being one.
Tokens == {<<"x">>, <<"<">>, <<"?">>, OpenTag, CloseTag}

RECURSIVE Concat(_)
Concat(ts) == IF ts = <<>> THEN <<>> ELSE Head(ts) \o Concat(Tail(ts))

\* Every page of at most MaxTokens tokens.
MaxTokens == 4
AllPages == {Concat(ts) : ts \in UNION {[1 .. k -> Tokens] : k \in 0 .. MaxTokens}}

\* A page whose every opening tag has a closing tag after it.
Closed(p) ==
    \A i \in 1 .. Len(p) - Len(OpenTag) + 1 :
        SubSeq(p, i, i + Len(OpenTag) - 1) = OpenTag
            => IndexOf(SubSeq(p, i + Len(OpenTag), Len(p)), CloseTag) # 0
ClosedPages == {p \in AllPages : Closed(p)}

\* A closed page followed by an opening tag and script text with no
\* closing tag.
UnclosedPages == {p \o OpenTag \o <<"x">> : p \in ClosedPages}

\* The bytes an earlier, longer file or malloc may have left at huge[len]
\* and after the terminator.
StaleBytes == {"x", "<", "?", ">", "a", NUL}
TailsSmall == {<<NUL>>, <<"?", ">", NUL>>}
=============================================================================
