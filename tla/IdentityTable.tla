---------------------------- MODULE IdentityTable ----------------------------
(***************************************************************************)
(* The spec's Connection Identity Table (section 4.2): a map of fixed      *)
(* capacity from a peer address to the engine handle kept for it.  An     *)
(* event of a peer may look its entry up and change its handle, or, for an *)
(* unseen peer, add an entry: into a free place, or, when the table is     *)
(* full, in place of exactly one other peer's entry.  No other entry ever  *)
(* changes: a peer's engine state survives everything but its own          *)
(* requests and its eviction.                                              *)
(***************************************************************************)
EXTENDS Naturals, FiniteSets

CONSTANTS
    Addrs,      \* peer addresses
    Handles,    \* engine handles, the null handle included
    Capacity,   \* WEB_MAX_CLIENT
    Absent      \* no entry for the address

VARIABLE map    \* [Addrs -> Handles \cup {Absent}]

Init == map = [a \in Addrs |-> Absent]

(***************************************************************************)
(* The actions relate the table m before an event to the table n after     *)
(* it; P is the set of addresses m holds.                                  *)
(***************************************************************************)
Present(m) == {a \in Addrs : m[a] # Absent}

\* Only the entries of the addresses in S change.
OnlyChanges(m, n, S) == \A x \in Addrs \ S : n[x] = m[x]

\* A known peer's event leaves its handle as the engine adapter left it.
Touch(m, n, P, a) ==
    /\ a \in P
    /\ OnlyChanges(m, n, {a}) /\ n[a] \in Handles

\* An unseen peer takes a free place.
Assign(m, n, P, a) ==
    /\ a \notin P /\ Cardinality(P) < Capacity
    /\ OnlyChanges(m, n, {a}) /\ n[a] \in Handles

\* An unseen peer, the table full: one entry gives way.
Evict(m, n, P, a, b) ==
    /\ a \notin P /\ Cardinality(P) = Capacity /\ b \in P
    /\ OnlyChanges(m, n, {a, b}) /\ n[a] \in Handles /\ n[b] = Absent

Next ==
    LET m == map
        n == map'
        P == Present(m)
    IN  \E a \in Addrs :
            \/ Touch(m, n, P, a) \/ Assign(m, n, P, a)
            \/ \E b \in Addrs : Evict(m, n, P, a, b)

Spec == Init /\ [][Next]_map
=============================================================================
