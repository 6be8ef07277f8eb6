----------------------------- MODULE MCDeadlines ----------------------------
(* Timeouts of a few ticks, in the orders that tell them apart: the idle   *)
(* timeout may be shorter or longer than the others, or absent.            *)
EXTENDS Deadlines

Setup(i, p, t) == [idle |-> i, proxy |-> p, transfer |-> t]

MCSetups == {Setup(1, 2, 2), Setup(2, 1, 1), Setup(2, 2, 2), Setup(0, 0, 2)}

=============================================================================
