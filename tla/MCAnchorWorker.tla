--------------------------- MODULE MCAnchorWorker ---------------------------
(***************************************************************************)
(* Small instances of AnchorWorker: one or two workers, one or two events  *)
(* of a single target identity.                                            *)
(***************************************************************************)
EXTENDS AnchorWorker, TLC

CONSTANT i1

OwnRefOf == [w \in Workers |-> w]
OneTarget == [e \in Events |-> i1]

\* Workers that run under their own references can be exchanged.
WorkerSymmetry == Permutations(Workers)
=============================================================================
