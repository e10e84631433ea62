------------------------------ MODULE MCHttpd ------------------------------
(***************************************************************************)
(* Model values and small stores for checking Httpd with TLC.              *)
(***************************************************************************)
EXTENDS Httpd, TLC

CONSTANTS c1, c2, a1, a2, a3, q1, l1, l2

\* A static page of two MSS chunks, a .pht page with two script blocks
\* around a literal, a .lua page, and the 404 page.
StoreTwoScripts ==
    [f \in {"a.htm", "i.pht", "x.lua", "404.htm"} |->
        CASE f = "a.htm" -> <<"lit", "lit">>
          [] f = "i.pht" -> <<"lua", "lit", "lua">>
          [] f = "x.lua" -> <<"lua">>
          [] OTHER       -> <<"lit">>]

\* A .pht page and a one-chunk page that is also the 404 page, to keep the
\* multi-connection runs small.
StoreSmall ==
    [f \in {"a.htm", "i.pht"} |->
        IF f = "i.pht" THEN <<"lua", "lit">> ELSE <<"lit">>]

CTy == INSTANCE ContentType

\* The bytes of s->filename for each resource name.
Spelling == [n \in {"a.htm", "i.pht", "x.lua", "404.htm", "m.htm"} |->
                CASE n = "a.htm"   -> <<"/", "a", ".", "h", "t", "m">>
                  [] n = "i.pht"   -> <<"/", "i", ".", "p", "h", "t">>
                  [] n = "x.lua"   -> <<"/", "x", ".", "l", "u", "a">>
                  [] n = "404.htm" -> <<"/", "4", ".", "h", "t", "m">>
                  [] OTHER         -> <<"/", "m", ".", "h", "t", "m">>]

\* Suffix dispatch of handle_output(), computed from the spelling.
KindOf == [n \in DOMAIN Spelling |-> CTy!OutputKind(Spelling[n])]

NamesAll   == {"a.htm", "i.pht", "x.lua", "404.htm", "m.htm"}
NamesSmall == {"a.htm", "i.pht"}
KindSmall  == [n \in NamesSmall |-> KindOf[n]]


\* The history variables (out, served, ran, phtBroken, luaDropped) never
\* feed a guard; runs that check only table properties identify states
\* that differ in them alone.
TableView == <<pc, peer, nr, newPht, timer, file, pos, params, table, live,
               owner, qOf, huge>>

ConnSymmetry == Permutations({c1, c2}) \cup Permutations({a1, a2, a3})
                \cup Permutations({l1, l2})
=============================================================================
