------------------------------ MODULE MCOutbox ------------------------------
(***************************************************************************)
(* Small instances of Outbox: two workers with references of their own and *)
(* two events that write to one target identity.                           *)
(***************************************************************************)
EXTENDS Outbox

CONSTANTS w1, w2, e1, e2, i1

MCWorkers == {w1, w2}
MCEvents == {e1, e2}
MCRefOf == [w \in MCWorkers |-> w]
MCTargetOf == [e \in MCEvents |-> i1]
=============================================================================
