---------------------------- MODULE ScriptOutput ----------------------------
(***************************************************************************)
(* The capture of a script's stdout into the connection's write buffer:    *)
(*   - http_run_elua() (httpd.c) empties s->write_buffer and routes stdout *)
(*     to s through set_httpd_state_struct();                              *)
(*   - every write of the script to a file descriptor goes to uip_write()  *)
(*     (src/src/newlib/genstd.c), which asserts room in the buffer, drops  *)
(*     '\n' characters and appends the rest;                               *)
(*   - http_output_elua() sends write_buffer[0 .. write_buffer_len-1].     *)
(* One connection's buffer is modelled; its bytes outlive a run, so what  *)
(* an earlier script (of this or an earlier peer on the same uIP slot)    *)
(* wrote is still there.  A character is a model value; Zero is the byte   *)
(* of the zero-initialised buffer.  A byte is recorded with the number of  *)
(* the run that wrote it.                                                  *)
(***************************************************************************)
EXTENDS Naturals, Sequences

CONSTANTS
    WRITE_BUFFER_SIZE,  \* capacity of s->write_buffer
    Chars,              \* printable characters a script writes
    NL,                 \* '\n'
    Zero,               \* the initial byte of the static buffer
    Strs,               \* the strings a script passes to one write()
    MaxRuns             \* runs are numbered 1..MaxRuns, cyclically

\* DM_STDIN_NUM, DM_STDOUT_NUM, DM_STDERR_NUM and a descriptor past them.
DM_STDIN_NUM == 0
DM_STDOUT_NUM == 1
DM_STDERR_NUM == 2
Fds == {DM_STDIN_NUM, DM_STDOUT_NUM, DM_STDERR_NUM, 3}

ASSUME /\ WRITE_BUFFER_SIZE \in Nat \ {0}
       /\ NL \notin Chars /\ Zero \notin Chars \cup {NL}
       /\ Strs \subseteq Seq(Chars \cup {NL}) /\ MaxRuns \in Nat \ {0}

\* The longest write, and the memory the model keeps beyond the buffer so
\* that a write past its end is visible.
MaxLen == LET lens == {Len(s) : s \in Strs} IN CHOOSE m \in lens : \A n \in lens : n <= m
Mem == 0 .. (WRITE_BUFFER_SIZE + MaxLen)

VARIABLES
    wbuf,     \* [Mem -> <<byte, run>>]: s->write_buffer and what follows it
    wlen,     \* s->write_buffer_len
    run,      \* number of the current (or last) http_run_elua() call
    phase,    \* "idle" | "running": a script is executing
    halted,   \* the assert in uip_write() failed: the program stopped
    written,  \* history: the non-newline characters this run wrote, in order
    failed,   \* history: this run's luaL_loadbuffer or lua_pcall reported an error
    sent      \* history: the bytes the last http_output_elua() sent

vars == <<wbuf, wlen, run, phase, halted, written, failed, sent>>

Byte == (Chars \cup {Zero}) \X (0 .. MaxRuns)

TypeOK ==
    /\ wbuf \in [Mem -> Byte]
    /\ wlen \in 0 .. (WRITE_BUFFER_SIZE - 1)
    /\ run \in 0 .. MaxRuns
    /\ phase \in {"idle", "running"}
    /\ halted \in BOOLEAN
    /\ written \in Seq(Chars)
    /\ failed \in BOOLEAN
    /\ sent \in Seq(Byte)

\* uip_conns[] is static: the buffer starts zeroed.
Init ==
    /\ wbuf = [i \in Mem |-> <<Zero, 0>>]
    /\ wlen = 0
    /\ run = 0
    /\ phase = "idle"
    /\ halted = FALSE
    /\ written = <<>>
    /\ failed = FALSE
    /\ sent = <<>>

\* The prologue of http_run_elua(): write_buffer_len = 0 and the global
\* state pointer set to s; the script then starts.
RunStart ==
    /\ ~halted /\ phase = "idle"
    /\ wlen' = 0
    /\ run' = IF run = MaxRuns THEN 1 ELSE run + 1
    /\ phase' = "running"
    /\ written' = <<>>
    /\ failed' = FALSE
    /\ UNCHANGED <<wbuf, halted, sent>>

(***************************************************************************)
(* The copy loop of uip_write():                                           *)
(*   for (i = 0; i < len; i++)                                             *)
(*     if (ptr[i] != '\n') write_buffer[write_buffer_len + i] = ptr[i];    *)
(*     else len--;                                                         *)
(* Result: the buffer and the final len, which is what gets added to      *)
(* write_buffer_len and returned.                                          *)
(***************************************************************************)
RECURSIVE CopyLoop(_, _, _, _)
CopyLoop(buf, str, i, len) ==
    IF i >= len THEN <<buf, len>>
    ELSE IF str[i + 1] # NL
         THEN CopyLoop([buf EXCEPT ![wlen + i] = <<str[i + 1], run>>], str, i + 1, len)
         ELSE CopyLoop(buf, str, i + 1, len - 1)

\* Mutant: the assert is compiled out (NDEBUG).
WriteNoAssert(fd, str) ==
    /\ ~halted /\ phase = "running" /\ ~failed
    /\ fd = DM_STDOUT_NUM
    /\ LET r == CopyLoop(wbuf, str, 0, Len(str))
       IN  /\ wbuf' = r[1]
           /\ wlen' = wlen + r[2]
    /\ written' = written \o SelectSeq(str, LAMBDA ch : ch # NL)
    /\ UNCHANGED <<run, phase, halted, failed, sent>>

(***************************************************************************)
(* uip_write(fd, str): a bad descriptor (EBADF) or stdin (EINVAL) returns  *)
(* -1; stderr goes to the UART; stdout asserts                             *)
(* write_buffer_len + len < WRITE_BUFFER_SIZE, then copies.                *)
(***************************************************************************)
Write(fd, str) ==
    /\ ~halted /\ phase = "running" /\ ~failed
    /\ IF fd # DM_STDOUT_NUM
       THEN UNCHANGED vars
       ELSE IF ~(wlen + Len(str) < WRITE_BUFFER_SIZE)
       THEN /\ halted' = TRUE
            /\ UNCHANGED <<wbuf, wlen, run, phase, written, failed, sent>>
       ELSE LET r == CopyLoop(wbuf, str, 0, Len(str))
            IN  /\ wbuf' = r[1]
                /\ wlen' = wlen + r[2]
                /\ written' = written \o SelectSeq(str, LAMBDA ch : ch # NL)
                /\ UNCHANGED <<run, phase, halted, failed, sent>>

(***************************************************************************)
(* The chunk does not compile, or raises a Lua error after the writes it   *)
(* has made: http_run_elua() logs the message to stderr, pops it and       *)
(* returns the error.  Nothing is undone: write_buffer_len keeps what the  *)
(* script wrote before the error, and no write of this run follows.        *)
(***************************************************************************)
Fail ==
    /\ ~halted /\ phase = "running" /\ ~failed
    /\ failed' = TRUE
    /\ UNCHANGED <<wbuf, wlen, run, phase, halted, written, sent>>

\* The script has returned, with or without an error: handle_elua_scripts()
\* and handle_elua_tags() ignore the result of http_run_elua() and
\* http_output_elua() PSOCK_SENDs the buffer.
Flush ==
    /\ ~halted /\ phase = "running"
    /\ sent' = [k \in 1 .. wlen |-> wbuf[k - 1]]
    /\ phase' = "idle"
    /\ UNCHANGED <<wbuf, wlen, run, halted, written, failed>>

Next ==
    \/ RunStart
    \/ \E fd \in Fds, str \in Strs : Write(fd, str)
    \/ Fail
    \/ Flush

Spec == Init /\ [][Next]_vars

-----------------------------------------------------------------------------
(* No write lands outside s->write_buffer: the assert of uip_write() keeps *)
(* write_buffer_len + i below WRITE_BUFFER_SIZE, so the httpd_state fields *)
(* after the buffer are never overwritten by a script's output.            *)
NoOverflow ==
    \A i \in Mem : i >= WRITE_BUFFER_SIZE => wbuf[i] = <<Zero, 0>>

(* What http_output_elua() sends is exactly what the script wrote to       *)
(* stdout in this run, newlines removed, in order: no character is lost    *)
(* and no byte of an earlier run's output is sent; and a run that ended in *)
(* a Lua error sends nothing, the failing region's output being absent.    *)
OutputFaithful ==
    (phase = "idle" /\ run > 0) =>
        sent = IF failed THEN <<>>
               ELSE [k \in 1 .. Len(written) |-> <<written[k], run>>]
=============================================================================
