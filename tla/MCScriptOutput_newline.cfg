\* The same bounds: one write of a string holding a newline before its last
\* character ("\ny", "x\ny") is enough.  The assert halts the program.
SPECIFICATION Spec
CONSTANTS
    WRITE_BUFFER_SIZE = 4
    Chars = {x, y}
    NL = NL
    Zero = Zero
    Strs <- StrsSmall
    MaxRuns = 2
    x = x
    y = y
CHECK_DEADLOCK FALSE
INVARIANTS
    OutputFaithful
