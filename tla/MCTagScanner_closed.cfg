\* Pages of up to four tokens whose tags are all closed, chunks of two
\* bytes, any byte at huge[len] and after the terminator.
\* The scan ends when the page is sent: handle_elua_tags() returns and the
\* connection closes, so a final state is no deadlock.
SPECIFICATION Spec
CHECK_DEADLOCK FALSE
CONSTANTS
    MSS = 2
    Pages <- ClosedPages
    Stale <- StaleBytes
    Tails <- TailsSmall
    NUL = NUL
INVARIANTS
    TypeOK
    ScanMatchesRender
PROPERTIES
    ScanTerminates
