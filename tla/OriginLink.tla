----------------------------- MODULE OriginLink -----------------------------
(***************************************************************************)
(* What switching promises of the connections to origins, with no          *)
(* goroutine and no channel: pftp holds at most one; it dials only when it *)
(* holds none, and each dial makes a connection that never was before.     *)
(***************************************************************************)
EXTENDS Naturals

VARIABLES
    link,       \* the connections pftp holds
    last        \* the last one it has dialled

Init == link = {0} /\ last = 0

Close ==
    /\ link # {}
    /\ link' = {}
    /\ UNCHANGED last

Dial ==
    /\ link = {}
    /\ last' = last + 1
    /\ link' = {last'}

Next == Close \/ Dial

Spec == Init /\ [][Next]_<<link, last>>

=============================================================================
