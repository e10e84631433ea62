\* A four-byte buffer, two-character writes, runs numbered 1..2: writes
\* that fit, writes that fill the buffer exactly and writes that trip the
\* assert all happen.  After the assert the program has stopped, so the
\* halted state has no successor.
SPECIFICATION Spec
CONSTANTS
    WRITE_BUFFER_SIZE = 4
    Chars = {x, y}
    NL = NL
    Zero = Zero
    Strs <- StrsSmall
    MaxRuns = 2
    x = x
    y = y
CHECK_DEADLOCK FALSE
INVARIANTS
    TypeOK
    NoOverflow
