\* Strings without a newline: a one-character write, then a Lua error, and
\* http_output_elua() sends the character.  The assert halts the program.
SPECIFICATION Spec
CONSTANTS
    WRITE_BUFFER_SIZE = 4
    Chars = {x, y}
    NL = NL
    Zero = Zero
    Strs <- StrsNoNL
    MaxRuns = 2
    x = x
    y = y
CHECK_DEADLOCK FALSE
INVARIANTS
    OutputFaithful
