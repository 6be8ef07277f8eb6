----------------------------- MODULE Admission -----------------------------
(***************************************************************************)
(* What config.MaxConnections promises, with no counter and no goroutine:  *)
(* a room with MaxConnections places.  A client that enters finds a place  *)
(* free, keeps it until it leaves, and does not come back (a client that   *)
(* reconnects is a new client).                                            *)
(***************************************************************************)
EXTENDS Integers, FiniteSets

CONSTANTS Clients, MaxConnections

VARIABLES inside, left

Init == inside = {} /\ left = {}

Enter(c) ==
    /\ c \notin inside \cup left
    /\ Cardinality(inside) < MaxConnections
    /\ inside' = inside \cup {c}
    /\ UNCHANGED left

Leave(c) ==
    /\ c \in inside
    /\ inside' = inside \ {c}
    /\ left' = left \cup {c}

Next == \E c \in Clients : Enter(c) \/ Leave(c)

Spec == Init /\ [][Next]_<<inside, left>>

=============================================================================
