---------------------------- MODULE MCWalletLink ----------------------------
(***************************************************************************)
(* Small instances of WalletLink.  All challenges belong to one account:   *)
(* rows of different accounts meet only in requireRevalidation.            *)
(***************************************************************************)
EXTENDS WalletLink, TLC

OneOwner == [c \in Challenges |-> CHOOSE a \in Accounts : TRUE]
LinkSymmetry == Permutations(Requests) \cup Permutations(Challenges)
=============================================================================
