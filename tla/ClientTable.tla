---------------------------- MODULE ClientTable ----------------------------
(***************************************************************************)
(* The process-wide client table of src/src/webserver/httpd.c:            *)
(*                                                                         *)
(*   static struct { lua_State *L; u16_t ripaddr[2]; }                     *)
(*          connection[WEB_MAX_CLIENT];                                    *)
(*                                                                         *)
(* It maps a remote IP address to the Lua interpreter state kept for that  *)
(* peer.  httpd_appcall() reads it at the start of every uIP event         *)
(* (lookup) and writes it back at the end of the same event (commit); the  *)
(* two halves run inside one event, so they are operators here and the     *)
(* event actions of module Httpd use them.  A free slot holds the address  *)
(* 0.0.0.0, modelled by NoAddr.                                            *)
(***************************************************************************)
EXTENDS Integers

CONSTANTS
    WEB_MAX_CLIENT, \* number of slots of connection[]
    NoAddr,         \* the all-zero ip address of a slot never written
    NULL            \* the NULL lua_State pointer

ASSUME WEB_MAX_CLIENT \in Nat \ {0}

Slots == 0 .. (WEB_MAX_CLIENT - 1)

\* "not found": no slot index is -1
NoSlot == -1

\* Mutant: the search loop stops one slot short (i < WEB_MAX_CLIENT - 1).
SlotOfSkipLast(tbl, a) ==
    IF \E i \in 0 .. (WEB_MAX_CLIENT - 2) : tbl[i].addr = a
    THEN CHOOSE i \in 0 .. (WEB_MAX_CLIENT - 2) :
            tbl[i].addr = a /\ \A j \in 0 .. (i - 1) : tbl[j].addr # a
    ELSE -1

\* The first slot whose address is a (the loop breaks at the first match).
SlotOf(tbl, a) ==
    IF \E i \in Slots : tbl[i].addr = a
    THEN CHOOSE i \in Slots : tbl[i].addr = a /\ \A j \in 0 .. (i - 1) : tbl[j].addr # a
    ELSE NoSlot

\* s->L as the lookup leaves it: the peer's state, or NULL for a new peer.
LookupL(tbl, a) ==
    IF SlotOf(tbl, a) = NoSlot THEN NULL ELSE tbl[SlotOf(tbl, a)].L

\* The first slot still holding 0.0.0.0, or NoSlot.
FreeSlot(tbl) == SlotOf(tbl, NoAddr)

\* The slot a new address takes when the table is full: the slot after
\* s->http_connection_nr, the index this connection structure last used.
NextVictim(nr) == IF nr < WEB_MAX_CLIENT - 1 THEN nr + 1 ELSE 0

\* Mutant: a known peer's changed s->L is not written back.
CommitNoWriteBack(tbl, a, nr, L) ==
    LET found == SlotOf(tbl, a)
        k     == IF found # NoSlot THEN found
                 ELSE IF FreeSlot(tbl) # NoSlot THEN FreeSlot(tbl)
                 ELSE NextVictim(nr)
    IN  [table |-> IF found # NoSlot THEN tbl
                   ELSE [tbl EXCEPT ![k] = [addr |-> a, L |-> L]],
         nr    |-> k]

\* Mutant: an eviction copies the new address but keeps the victim's L.
CommitEvictKeepsL(tbl, a, nr, L) ==
    LET found == SlotOf(tbl, a)
        k     == IF found # NoSlot THEN found
                 ELSE IF FreeSlot(tbl) # NoSlot THEN FreeSlot(tbl)
                 ELSE NextVictim(nr)
    IN  [table |-> IF found # NoSlot THEN [tbl EXCEPT ![k].L = L]
                   ELSE IF FreeSlot(tbl) # NoSlot
                   THEN [tbl EXCEPT ![k] = [addr |-> a, L |-> L]]
                   ELSE [tbl EXCEPT ![k].addr = a],
         nr    |-> k]

\* Mutant: a new peer always takes the slot after nr, free slots or not
\* (the insertion loop over free slots is missing).
CommitNoFreeSearch(tbl, a, nr, L) ==
    LET found == SlotOf(tbl, a)
        k     == IF found # NoSlot THEN found ELSE NextVictim(nr)
    IN  [table |-> IF found # NoSlot
                   THEN [tbl EXCEPT ![k].L = L]
                   ELSE [tbl EXCEPT ![k] = [addr |-> a, L |-> L]],
         nr    |-> k]

(***************************************************************************)
(* The whole table walk of one httpd_appcall() event for peer address a,   *)
(* where nr is s->http_connection_nr on entry and L is s->L on exit.       *)
(* Result: the new table and the new s->http_connection_nr.                *)
(*  - known peer: slot found by the lookup, its L written back if changed; *)
(*  - new peer, free slot: the first free slot gets <<a, L>>;              *)
(*  - new peer, table full: the slot after nr is overwritten (the lua      *)
(*    state it held is neither closed nor kept anywhere).                  *)
(***************************************************************************)
Commit(tbl, a, nr, L) ==
    LET found == SlotOf(tbl, a)
        k     == IF found # NoSlot THEN found
                 ELSE IF FreeSlot(tbl) # NoSlot THEN FreeSlot(tbl)
                 ELSE NextVictim(nr)
    IN  [table |-> IF found # NoSlot
                   THEN [tbl EXCEPT ![k].L = L]
                   ELSE [tbl EXCEPT ![k] = [addr |-> a, L |-> L]],
         nr    |-> k]

\* The zero-initialised static array.
EmptyTable == [i \in Slots |-> [addr |-> NoAddr, L |-> NULL]]
=============================================================================
