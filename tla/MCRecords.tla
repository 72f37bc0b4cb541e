----------------------------- MODULE MCRecords ------------------------------
(***************************************************************************)
(* Small instances of Records: one record of any kind, a caller that does  *)
(* most of the work and one that comes between.                            *)
(***************************************************************************)
EXTENDS Records

CONSTANTS worker, other

Limits == [c \in Callers |-> IF c = worker THEN MaxVersion ELSE 1]
=============================================================================
