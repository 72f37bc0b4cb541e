---------------------------- MODULE LinkPromise -----------------------------
(***************************************************************************)
(* What wallet linking promises about challenges and links, without the    *)
(* hosted service, the chain or time: a challenge is used at most once and *)
(* only while it is open, a use ties its owner to one identity, a tie is   *)
(* renewed by nothing but such a use, and what a use, an expiry or a       *)
(* cancellation has closed stays closed.                                   *)
(***************************************************************************)
CONSTANTS Challenges, Accounts, Identities, Owner

VARIABLES phase,   \* challenge -> new, open, used or void
          tie      \* account, identity -> none, active, stale or closed

Init ==
  /\ phase = [c \in Challenges |-> "new"]
  /\ tie = [a \in Accounts |-> [i \in Identities |-> "none"]]

Move(c, from, to) ==
  phase[c] = from /\ phase' = [phase EXCEPT ![c] = to]

Present(c) == Move(c, "new", "open") /\ UNCHANGED tie
Void(c) == Move(c, "open", "void") /\ UNCHANGED tie

Use(c, i) ==
  /\ Move(c, "open", "used")
  /\ tie' = [tie EXCEPT ![Owner[c]][i] = "active"]

Close(a, i) ==
  /\ tie[a][i] \in {"active", "stale"}
  /\ tie' = [tie EXCEPT ![a][i] = "closed"]
  /\ UNCHANGED phase

\* Every active tie of the identity, of whatever account.
Doubt(i) ==
  /\ tie' = [a \in Accounts |-> [tie[a] EXCEPT ![i] =
                                   IF @ = "active" THEN "stale" ELSE @]]
  /\ UNCHANGED phase

Next ==
  \/ \E c \in Challenges : Present(c) \/ Void(c)
  \/ \E c \in Challenges, i \in Identities : Use(c, i)
  \/ \E a \in Accounts, i \in Identities : Close(a, i)
  \/ \E i \in Identities : Doubt(i)

Spec == Init /\ [][Next]_<<phase, tie>>
=============================================================================
