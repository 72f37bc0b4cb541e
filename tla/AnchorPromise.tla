---------------------------- MODULE AnchorPromise ----------------------------
(***************************************************************************)
(* What the anchor pipeline promises its callers, without workers, leases  *)
(* or a chain: every requested anchor is open until it is either verified  *)
(* or given up, never both and never again open, and it is verified only   *)
(* after its manifest digest has been published.                           *)
(***************************************************************************)
CONSTANT Events

VARIABLES status,     \* what the application sees of each anchor
          published   \* the anchors whose digest has been on the chain

Init ==
  /\ status = [e \in Events |-> "open"]
  /\ published = {}

Publish(e) ==
  /\ published' = published \cup {e}
  /\ UNCHANGED status

Verify(e) ==
  /\ status[e] = "open"
  /\ e \in published
  /\ status' = [status EXCEPT ![e] = "verified"]
  /\ UNCHANGED published

GiveUp(e) ==
  /\ status[e] = "open"
  /\ status' = [status EXCEPT ![e] = "failed"]
  /\ UNCHANGED published

Next == \E e \in Events : Publish(e) \/ Verify(e) \/ GiveUp(e)

Spec == Init /\ [][Next]_<<status, published>>
=============================================================================
