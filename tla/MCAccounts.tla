----------------------------- MODULE MCAccounts -----------------------------
(***************************************************************************)
(* Small instances of Accounts: one account, of either trust domain.       *)
(***************************************************************************)
EXTENDS Accounts, TLC

CONSTANTS e1

OneEmail == [a \in Accounts |-> e1]
Swaps == {f @@ g : f \in Permutations(Requests), g \in Permutations(Staff)}
=============================================================================
