------------------------------ MODULE Response ------------------------------
(***************************************************************************)
(* What the server promises one connection, in the spec's terms: the       *)
(* connection state machine CONNECTED -> PARSING -> STREAMING -> CLOSING,  *)
(* with an abort, close or timeout back to no connection from any state;  *)
(* a malformed request closes without a response; an accepted request     *)
(* streams one resource (the page or the not-found page) front to back,    *)
(* each segment once; a script whose run failed produces nothing, a       *)
(* literal segment is never left out; CLOSING follows the whole body.      *)
(* A resource is a sequence of segments, "lit" or "lua", as in Httpd.      *)
(***************************************************************************)
EXTENDS Naturals, Sequences

CONSTANTS
    Conns,      \* connections
    Content     \* [resource -> Seq({"lit", "lua"})]

Store == DOMAIN Content

VARIABLES
    st,         \* [Conns -> {"idle", "parsing", "streaming", "closing"}]
    res,        \* [Conns -> resource]: the one being streamed
    body        \* [Conns -> Seq(segment index)]: what has been streamed

vars == <<st, res, body>>

\* The last segment streamed, 0 before the first.
Last(c) == IF body[c] = <<>> THEN 0 ELSE body[c][Len(body[c])]

\* Every literal segment of the resource has been streamed.
Whole(c) ==
    \A j \in 1 .. Len(Content[res[c]]) :
        Content[res[c]][j] = "lit" => \E k \in 1 .. Len(body[c]) : body[c][k] = j

Init ==
    /\ st = [c \in Conns |-> "idle"]
    /\ res \in [Conns -> Store]
    /\ body = [c \in Conns |-> <<>>]

\* A TCP connection is established.
Open(c) ==
    /\ st[c] = "idle"
    /\ st' = [st EXCEPT ![c] = "parsing"]
    /\ body' = [body EXCEPT ![c] = <<>>]
    /\ UNCHANGED res

\* A malformed request: close without a response.
Reject(c) ==
    /\ st[c] = "parsing"
    /\ st' = [st EXCEPT ![c] = "closing"]
    /\ UNCHANGED <<res, body>>

\* A request is accepted and resource f chosen for it.
Accept(c, f) ==
    /\ st[c] = "parsing"
    /\ st' = [st EXCEPT ![c] = "streaming"]
    /\ res' = [res EXCEPT ![c] = f]
    /\ body' = [body EXCEPT ![c] = <<>>]

\* The next segment j is streamed; only scripts may be passed over.
Emit(c, j) ==
    /\ st[c] = "streaming"
    /\ j \in Last(c) + 1 .. Len(Content[res[c]])
    /\ \A i \in Last(c) + 1 .. j - 1 : Content[res[c]][i] = "lua"
    /\ body' = [body EXCEPT ![c] = Append(@, j)]
    /\ UNCHANGED <<st, res>>

\* The body is complete; the send side closes.
Finish(c) ==
    /\ st[c] = "streaming" /\ Whole(c)
    /\ st' = [st EXCEPT ![c] = "closing"]
    /\ UNCHANGED <<res, body>>

\* Abort, close or timeout.
Drop(c) ==
    /\ st[c] # "idle"
    /\ st' = [st EXCEPT ![c] = "idle"]
    /\ UNCHANGED <<res, body>>

Next ==
    \E c \in Conns :
        \/ Open(c) \/ Reject(c) \/ \E f \in Store : Accept(c, f)
        \/ \E j \in 1 .. Len(Content[res[c]]) : Emit(c, j)
        \/ Finish(c) \/ Drop(c)

(* A response being streamed goes on until it is finished or dropped.     *)
Spec == Init /\ [][Next]_vars
        /\ \A c \in Conns : WF_vars(Finish(c) \/ \E j \in 1 .. Len(Content[res[c]]) : Emit(c, j))
=============================================================================
