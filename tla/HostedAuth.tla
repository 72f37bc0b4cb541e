----------------------------- MODULE HostedAuth -----------------------------
(***************************************************************************)
(* The hosted VerusID service (services/verusid): one-time login requests  *)
(* and the results that wallets post to it, both kept in a store with      *)
(* expiry, and the identities of the chain it reads.  A callback is split  *)
(* where the code awaits: the wallet's answer is verified against the      *)
(* challenge and the chain first, the result is stored in a later step.    *)
(*                                                                         *)
(* `hosted[c]` holds the keys challenge:c, result:c and consumed:c of the  *)
(* store.  A tombstone outlives its challenge (ten minutes against five),  *)
(* so it is kept for good; beside it the model remembers which token was   *)
(* acknowledged.  A token (JWT) is the identity it names and its times;    *)
(* those tell apart all tokens ever stored for one challenge.              *)
(***************************************************************************)
EXTENDS Integers, FiniteSets

CONSTANTS Challenges,     \* login requests that may be created
          Identities,     \* VerusIDs on the chain
          Signer,         \* the one that signs the service's requests
          Callbacks,      \* callback requests in flight at once
          ChallengeLife,  \* challengeLifetimeMs
          TokenLife,      \* resultTokenMaxLifetimeSeconds
          Skew,           \* tolerated difference of two clocks (60 s)
          None,           \* no result, no challenge, no answer
          MaxTime,        \* model bound: the last instant
          MaxRev          \* model bound: changes of one identity

ASSUME HostedAssumption ==
  /\ Challenges # {} /\ Identities # {}
  /\ ChallengeLife \in Nat \ {0} /\ TokenLife \in Nat \ {0}
  /\ Skew \in Nat /\ MaxTime \in Nat /\ MaxRev \in Nat
  /\ Signer \in Identities

VARIABLES now,      \* the wall clock
          chain,    \* identity -> status and number of changes
          hosted,   \* challenge -> the service's keys for it
          cb        \* callbacks being handled

hostedVars == <<now, chain, hosted, cb>>

Times == 0 .. MaxTime
Token == [id : Identities, iat : Times, exp : 0 .. MaxTime + TokenLife]

HostedTypeOK ==
  /\ now \in Times
  /\ chain \in [Identities -> [active : BOOLEAN, rev : 0 .. MaxRev]]
  /\ hosted \in [Challenges -> [made : BOOLEAN, key : BOOLEAN, iss : Times,
                                exp : Times, result : Token \cup {None},
                                acked : Token \cup {None}]]
  /\ cb \in [Callbacks -> [c : Challenges, id : Identities] \cup {None}]

HostedInit ==
  /\ now = 0
  /\ chain = [i \in Identities |-> [active |-> TRUE, rev |-> 0]]
  /\ hosted = [c \in Challenges |->
                 [made |-> FALSE, key |-> FALSE, iss |-> 0, exp |-> 0,
                  result |-> None, acked |-> None]]
  /\ cb = [b \in Callbacks |-> None]

-----------------------------------------------------------------------------
(* The environment: the clock and the chain.                               *)

Tick ==
  /\ now < MaxTime
  /\ now' = now + 1
  /\ UNCHANGED <<chain, hosted, cb>>

\* Revocation, recovery or a new revision of an identity.
IdentityChanges(i) ==
  /\ chain[i].rev < MaxRev
  /\ \E a \in BOOLEAN :
       chain' = [chain EXCEPT ![i] = [active |-> a, rev |-> @.rev + 1]]
  /\ UNCHANGED <<now, hosted, cb>>

-----------------------------------------------------------------------------
(* The store: a key is visible until its time to live has run out.         *)

GetChallenge(c) == hosted[c].key /\ now < hosted[c].exp

GetResult(c) ==
  IF hosted[c].result # None /\ now < hosted[c].result.exp
  THEN hosted[c].result ELSE None

\* Mutant: putResult without the test of the tombstone and the challenge key.
PutResultAlways(c, t) ==
  IF GetResult(c) = None THEN [hosted EXCEPT ![c].result = t] ELSE hosted

\* putResult: one script, evaluated atomically by the store.
PutResult(c, t) ==
  IF hosted[c].acked = None /\ GetChallenge(c) /\ GetResult(c) = None
  THEN [hosted EXCEPT ![c].result = t] ELSE hosted

\* Mutant: acknowledge deletes the result whatever digest it names.
AcknowledgesAny(c, t) == GetResult(c) # None

\* The digest names the stored token, or the call answers 409.
Acknowledges(c, t) == GetResult(c) # None /\ GetResult(c) = t

\* acknowledge: the script deletes both keys and leaves the tombstone.
Acknowledge(c) ==
  [hosted EXCEPT ![c].key = FALSE, ![c].result = None,
                 ![c].acked = GetResult(c)]

-----------------------------------------------------------------------------
(* The routes.                                                             *)

\* validateIdentityActive, for wallets and for the service's own signer.
IdentityActive(i) == chain[i].active

\* GET /health answers 200 when the store answers and the signer is active.
HealthOk == IdentityActive(Signer)

\* validateChallengeInput: the caller's clock agrees with the service's, the
\* window is not longer than the service allows.
ChallengeInputValid(iss, exp) ==
  /\ now - Skew <= iss /\ iss <= now + Skew
  /\ exp > iss
  /\ exp - iss <= ChallengeLife

\* POST /challenge: a fresh random identifier, stored with its expiry.
NewHostedChallenge(c, iss, exp) ==
  /\ ~hosted[c].made
  /\ ChallengeInputValid(iss, exp)
  /\ now < exp
  /\ hosted' = [hosted EXCEPT ![c].made = TRUE, ![c].key = TRUE,
                              ![c].iss = iss, ![c].exp = exp]

\* POST /verusidlogin up to the checks: the signed response of identity i binds
\* this request, the challenge is live, the identity is active on the chain.
\* Any other response answers 400 and changes nothing.
WalletAnswers(b, c, i) ==
  /\ cb[b] = None
  /\ IdentityActive(i)
  /\ GetChallenge(c)
  /\ cb' = [cb EXCEPT ![b] = [c |-> c, id |-> i]]
  /\ UNCHANGED <<now, chain, hosted>>

\* A token lives as long as configured, never longer than its challenge.
TokenLifetime(c) ==
  IF TokenLife < hosted[c].exp - now THEN TokenLife ELSE hosted[c].exp - now

\* ... and its end: a result that is there already is kept (200 for the same
\* identity, 409 for another), otherwise a token is signed and stored.  The
\* read of the existing result and putResult are two calls; one that another
\* callback stores in between is kept by putResult as well.
StoreResult(b) ==
  LET c == cb[b].c
      life == TokenLifetime(c)
      token == [id |-> cb[b].id, iat |-> now, exp |-> now + life]
  IN /\ cb[b] # None
     /\ hosted' = IF life < 1 THEN hosted ELSE PutResult(c, token)
     /\ cb' = [cb EXCEPT ![b] = None]
     /\ UNCHANGED <<now, chain>>

\* A callback that fails half way (timeout, store unavailable, crash).
CallbackFails(b) ==
  /\ cb[b] # None
  /\ cb' = [cb EXCEPT ![b] = None]
  /\ UNCHANGED <<now, chain, hosted>>
=============================================================================
