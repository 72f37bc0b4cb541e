--------------------------- MODULE MCAttestation ----------------------------
(***************************************************************************)
(* Small instances of Attestation: the committee's issuer and a second     *)
(* caller who comes between.                                               *)
(***************************************************************************)
EXTENDS Attestation, TLC

CONSTANTS issuer, other, q1, q2, q3, p1, p2

Limits == [c \in Callers |-> IF c = issuer THEN 5 ELSE 1]
TwoOwners == [q \in Requests |-> IF q = q3 THEN p2 ELSE p1]
Swaps == {f @@ g : f \in Permutations(Attestations), g \in Permutations({q1, q2})}
=============================================================================
