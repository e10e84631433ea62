---------------------------- MODULE MCFileStore ----------------------------
EXTENDS FileStore

\* The card: the 404 page, pages of 0, 1, 2 and 3 bytes (3 is
\* FILE_HUGE_SIZE - 1 in the runs) and one too big for huge.
FilesSmall == [n \in {"404.htm", "s.htm", "e.htm", "c.css", "b.pht", "t.htm"} |->
                 CASE n = "404.htm" -> 1 [] n = "s.htm" -> 1 [] n = "c.css" -> 2
                   [] n = "e.htm" -> 0 [] n = "b.pht" -> 3 [] n = "t.htm" -> 5]
NamesSmall == DOMAIN FilesSmall \cup {"m.htm"}
\* s->filename is the request path: '/' and the name.
PathLen(n) == 1 + Len(n)
NameLenSmall == [n \in NamesSmall |-> PathLen(n)]

\* A request for a page whose path is longer than FILE_NAME_MAX_SIZE.
NamesLong == NamesSmall \cup {"index2.htm"}
NameLenLong == [n \in NamesLong |-> PathLen(n)]
=============================================================================
