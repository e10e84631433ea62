--------------------------- MODULE MCScriptOutput ---------------------------
EXTENDS ScriptOutput

CONSTANTS x, y

\* Every string of one or two characters over {x, y, '\n'}.
StrsSmall == {<<a>> : a \in {x, y, NL}} \cup {<<a, b>> : a, b \in {x, y, NL}}
\* The same strings without a newline, so that uip_write() copies faithfully.
StrsNoNL == {str \in StrsSmall : \A k \in 1 .. Len(str) : str[k] # NL}
=============================================================================
