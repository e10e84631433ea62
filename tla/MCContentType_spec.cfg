\* Every request path of Names: with and without a dotted directory, every
\* suffix of the table and its near misses.  A request changes nothing, so
\* there is no deadlock to look for.
SPECIFICATION Spec
CHECK_DEADLOCK FALSE
INVARIANTS
    ContentTypeMatchesSpec
