\* http_params of 5 bytes: a query of up to four bytes and its NUL, over
\* what an earlier such query left.
SPECIFICATION Spec
CONSTANTS
    Size = 5
    StrSize = 5
    Chars = {"a"}
    Queries <- QueriesSmall
    NUL = NUL
\* The decoder stops when the loop ends or Lua panics.
CHECK_DEADLOCK FALSE
INVARIANTS
    DecodeMatchesSpec
