----------------------------- MODULE LinkProofs -----------------------------
(***************************************************************************)
(* Theorems about wallet linking, for any number of challenges, requests,  *)
(* callbacks, identities and accounts, and any durations.                  *)
(***************************************************************************)
EXTENDS WalletLink, TLAPS

HostedRow == [made : BOOLEAN, key : BOOLEAN, iss : Times, exp : Times,
              result : Token \cup {None}, acked : Token \cup {None}]
ChallengeRow == [state : ChallengeStates, token : Token \cup {None}]
LinkRow == [state : LinkStates, proof : Challenges \cup {None},
            rev : 0 .. MaxRev, floor : 0 .. MaxRev]
Locals == [pc : Pcs, c : Challenges \cup {None}, at : Times,
           token : Token \cup {None}, rev : 0 .. MaxRev, tries : 0 .. AckTries]

\* A token that the hosted service signed for challenge c while it was live.
Signed(c, t) ==
  /\ t \in Token
  /\ hosted[c].made
  /\ hosted[c].iss <= t.iat /\ t.iat < hosted[c].exp

\* A stored result was signed in time, dies with its challenge and has not been
\* acknowledged.
HostedOK(c) ==
  /\ hosted[c].iss <= now
  /\ hosted[c].key => hosted[c].made
  /\ hosted[c].result # None =>
       /\ Signed(c, hosted[c].result)
       /\ hosted[c].result.exp <= hosted[c].exp
       /\ hosted[c].acked = None

\* A consumed challenge keeps the token it was consumed with, and so does one
\* whose result was acknowledged.
ChallengeOK(c) ==
  /\ challenge[c].state # "none" => hosted[c].made
  /\ challenge[c].state = "consumed" => Signed(c, challenge[c].token)
  /\ hosted[c].acked # None =>
       challenge[c].state = "consumed" /\ challenge[c].token = hosted[c].acked

\* A request that carries a token got it from the service; one that
\* acknowledges has seen the challenge consumed with it.
LocalsOK(l) ==
  /\ l.at <= now
  /\ l.pc # "idle" => l.c \in Challenges
  /\ l.pc = "create" => l.at + ChallengeLife <= MaxTime
  /\ l.pc = "insert" => hosted[l.c].made /\ challenge[l.c].state = "none"
  /\ l.pc \in {"identity", "complete", "ack"} => Signed(l.c, l.token)
  /\ l.pc # "ack" => l.tries = 0
  /\ l.pc = "ack" => /\ l.tries < AckTries
                     /\ challenge[l.c].state = "consumed"
                     /\ challenge[l.c].token = l.token

LinkOK(a, i) ==
  link[a][i].state # "none" =>
    /\ link[a][i].proof \in Challenges
    /\ Owner[link[a][i].proof] = a
    /\ challenge[link[a][i].proof].state = "consumed"
    /\ challenge[link[a][i].proof].token.id = i

\* The row of a new challenge is inserted by one request only.
InsertOnce ==
  \A q, r \in Requests :
    req[q].pc = "insert" /\ req[r].pc = "insert" /\ req[q].c = req[r].c => q = r

HostedInv == HostedTypeOK /\ \A c \in Challenges : HostedOK(c)
ChallengeInv ==
  challenge \in [Challenges -> ChallengeRow] /\ \A c \in Challenges : ChallengeOK(c)
RequestInv ==
  /\ req \in [Requests -> Locals]
  /\ \A r \in Requests : LocalsOK(req[r])
  /\ InsertOnce
LinkInv ==
  /\ link \in [Accounts -> [Identities -> LinkRow]]
  /\ \A a \in Accounts, i \in Identities : LinkOK(a, i)

Inv ==
  /\ HostedInv /\ ChallengeInv /\ RequestInv /\ LinkInv
  /\ hits \in [Accounts -> Nat]

-----------------------------------------------------------------------------
(* What no step undoes, and what follows from it for the rows and requests *)
(* that a step leaves alone.                                               *)

\* The clock does not go back, a hosted challenge keeps its times and a
\* consumed challenge keeps its row.
Grows ==
  /\ now <= now'
  /\ \A c \in Challenges : hosted[c].made =>
       /\ hosted'[c].made
       /\ hosted'[c].iss = hosted[c].iss /\ hosted'[c].exp = hosted[c].exp
  /\ \A c \in Challenges : challenge[c].state = "consumed" =>
       challenge'[c] = challenge[c]

\* A signed token stays signed.
LEMMA SignedKept ==
  ASSUME Grows, NEW c \in Challenges, NEW t, Signed(c, t)
  PROVE  /\ t \in Token /\ hosted'[c].made
         /\ hosted'[c].iss <= t.iat /\ t.iat < hosted'[c].exp
  BY DEF Grows, Signed

\* What is known of a request that takes no step stays known.
LEMMA LocalsKept ==
  ASSUME Inv, Grows, now' \in Times, NEW q \in Requests, req'[q] = req[q],
         req[q].pc = "insert" => challenge'[req[q].c].state = "none"
  PROVE  LocalsOK(req[q])'
<1>0. LocalsOK(req[q]) /\ req[q] \in Locals /\ now \in Times
  BY DEF Inv, RequestInv, HostedInv, HostedTypeOK
<1>1. (req[q].at <= now)'
  BY <1>0 DEF LocalsOK, Locals, Times, Grows
<1> QED BY <1>0, <1>1 DEF LocalsOK, Grows, Signed

\* The requests after a step of r, of which the step says where it went.
LEMMA RequestsKept ==
  ASSUME Inv, Grows, now' \in Times,
         NEW r \in Requests, NEW l \in Locals, req' = [req EXCEPT ![r] = l],
         LocalsOK(req[r])',
         \A q \in Requests \ {r} : req[q].pc = "insert" =>
           /\ challenge'[req[q].c].state = "none"
           /\ l.pc = "insert" => req[q].c # l.c
  PROVE  RequestInv'
<1>0. req \in [Requests -> Locals] /\ InsertOnce
  BY DEF Inv, RequestInv
<1>1. /\ req' \in [Requests -> Locals] /\ req'[r] = l
      /\ \A q \in Requests \ {r} : req'[q] = req[q]
  BY <1>0
<1>2. ASSUME NEW q \in Requests PROVE LocalsOK(req[q])'
  BY <1>1, LocalsKept
<1>3. InsertOnce'
  BY <1>0, <1>1 DEF InsertOnce
<1> QED BY <1>1, <1>2, <1>3 DEF RequestInv

\* No request takes a step.
LEMMA RequestsSame ==
  ASSUME Inv, Grows, now' \in Times, UNCHANGED req,
         \A q \in Requests : req[q].pc = "insert" =>
           challenge'[req[q].c].state = "none"
  PROVE  RequestInv'
<1>1. ASSUME NEW q \in Requests PROVE LocalsOK(req[q])'
  BY LocalsKept
<1> QED BY <1>1 DEF Inv, RequestInv, InsertOnce

\* Links whose proof does not change.
LEMMA LinksKept ==
  ASSUME Inv, Grows, link' \in [Accounts -> [Identities -> LinkRow]],
         \A a \in Accounts, i \in Identities : link'[a][i].state # "none" =>
           link[a][i].state # "none" /\ link'[a][i].proof = link[a][i].proof
  PROVE  LinkInv'
<1>1. ASSUME NEW a \in Accounts, NEW i \in Identities PROVE LinkOK(a, i)'
  BY DEF Inv, LinkInv, LinkOK, Grows
<1> QED BY <1>1 DEF LinkInv

\* Tables that a step does not touch.
LEMMA Untouched ==
  ASSUME Inv
  PROVE  /\ UNCHANGED hostedVars => HostedInv' /\ now' \in Times
         /\ UNCHANGED <<hosted, challenge>> => ChallengeInv'
         /\ UNCHANGED <<hosted, challenge, now>> => Grows
         /\ UNCHANGED <<link, challenge>> => LinkInv'
<1>1. UNCHANGED hostedVars => HostedInv' /\ now' \in Times
  BY DEF Inv, HostedInv, HostedTypeOK, HostedOK, Signed, hostedVars
<1>2. UNCHANGED <<hosted, challenge>> => ChallengeInv'
  BY DEF Inv, ChallengeInv, ChallengeOK, Signed
<1>3. UNCHANGED <<hosted, challenge, now>> => Grows
  BY DEF Inv, HostedInv, HostedTypeOK, Times, Grows
<1>4. UNCHANGED <<link, challenge>> => LinkInv'
  BY DEF Inv, LinkInv, LinkOK
<1> QED BY <1>1, <1>2, <1>3, <1>4

\* Challenges whose acknowledgement does not change.
LEMMA ChallengesKept ==
  ASSUME Inv, Grows, UNCHANGED challenge,
         \A c \in Challenges : hosted'[c].acked = hosted[c].acked
  PROVE  ChallengeInv'
<1>1. ASSUME NEW c \in Challenges PROVE ChallengeOK(c)'
  BY DEF Inv, ChallengeInv, ChallengeOK, Signed, Grows
<1> QED BY <1>1 DEF Inv, ChallengeInv

-----------------------------------------------------------------------------
(* The inductive step, one lemma per group of actions.                     *)

\* The service signs and stores a token.
LEMMA StoreResultStep ==
  ASSUME Inv, NEW b \in Callbacks, StoreResult(b), UNCHANGED challenge
  PROVE  HostedInv' /\ Grows /\ \A c \in Challenges : hosted'[c].acked = hosted[c].acked
<1>0. HostedTypeOK /\ \A d \in Challenges : HostedOK(d)
  BY DEF Inv, HostedInv
<1>1. PICK c \in Challenges : c = cb[b].c /\ cb[b].id \in Identities
  BY <1>0 DEF HostedTypeOK, StoreResult
<1> DEFINE life == TokenLifetime(c)
           token == [id |-> cb[b].id, iat |-> now, exp |-> now + life]
<1>2. /\ now \in Times /\ hosted[c].exp \in Times /\ hosted[c].iss \in Times
      /\ hosted \in [Challenges -> HostedRow]
  BY <1>0, <1>1 DEF HostedTypeOK, HostedRow
<1>3. cb' \in [Callbacks -> [c : Challenges, id : Identities] \cup {None}]
      /\ now' = now /\ chain' = chain
  BY <1>0 DEF HostedTypeOK, StoreResult
<1>4. CASE hosted' = hosted
  BY <1>0, <1>2, <1>3, <1>4
     DEF HostedInv, HostedTypeOK, HostedOK, Signed, Grows, Times
<1>5. CASE hosted' # hosted
  <2>1. /\ ~(life < 1)
        /\ hosted' = [hosted EXCEPT ![c].result = token]
        /\ hosted[c].acked = None /\ hosted[c].key /\ now < hosted[c].exp
    BY <1>1, <1>5 DEF StoreResult, PutResult, GetChallenge
  <2>2. /\ life \in Nat /\ now + life <= hosted[c].exp
        /\ now + life \in 0 .. MaxTime + TokenLife
    BY <1>2, <2>1, HostedAssumption DEF TokenLifetime, Times
  <2>3. token \in Token /\ token.iat = now /\ token.exp = now + life
    BY <1>1, <1>2, <2>2 DEF Token
  <2> HIDE DEF token, life
  <2>4. /\ hosted' \in [Challenges -> HostedRow]
        /\ hosted'[c] = [hosted[c] EXCEPT !.result = token]
        /\ \A d \in Challenges : d # c => hosted'[d] = hosted[d]
    BY <1>1, <1>2, <2>1, <2>3 DEF HostedRow
  <2>5. /\ hosted'[c].made = hosted[c].made /\ hosted'[c].key = hosted[c].key
        /\ hosted'[c].iss = hosted[c].iss /\ hosted'[c].exp = hosted[c].exp
        /\ hosted'[c].acked = hosted[c].acked /\ hosted'[c].result = token
    BY <1>1, <1>2, <2>4 DEF HostedRow
  <2>6. HostedTypeOK'
    BY <1>0, <1>3, <2>4 DEF HostedTypeOK, HostedRow
  <2>7. HostedOK(c)'
    BY <1>0, <1>1, <1>2, <1>3, <2>1, <2>2, <2>3, <2>5 DEF HostedOK, Signed, Times
  <2>8. ASSUME NEW d \in Challenges, d # c PROVE HostedOK(d)'
    BY <1>0, <1>3, <2>4, <2>8 DEF HostedOK, Signed
  <2>9. Grows
    <3>1. now <= now'
      BY <1>2, <1>3, HostedAssumption DEF Times
    <3>2. ASSUME NEW d \in Challenges, hosted[d].made
          PROVE  /\ hosted'[d].made
                 /\ hosted'[d].iss = hosted[d].iss /\ hosted'[d].exp = hosted[d].exp
      BY <2>4, <2>5, <3>2
    <3> QED BY <3>1, <3>2 DEF Grows
  <2> QED BY <2>4, <2>5, <2>6, <2>7, <2>8, <2>9 DEF HostedInv
<1> QED BY <1>4, <1>5

\* The clock, the chain, wallets and callbacks preserve the invariant.
LEMMA EnvironmentStep == ASSUME Inv, Environment PROVE Inv'
<1>0. UNCHANGED <<challenge, link, hits, req>>
  BY DEF Environment, store
<1> DEFINE Kept == /\ HostedInv' /\ Grows
                   /\ \A c \in Challenges : hosted'[c].acked = hosted[c].acked
<1>1. Kept
  <2>0. HostedTypeOK /\ \A c \in Challenges : HostedOK(c)
    BY DEF Inv, HostedInv
  <2>t. \A c \in Challenges : hosted[c].iss \in Times
    BY <2>0 DEF HostedTypeOK
  <2>1. CASE Tick
    <3>1. now \in Times /\ now' \in Times /\ now' = now + 1
      BY <2>0, <2>1, HostedAssumption DEF Tick, HostedTypeOK, Times
    <3>2. HostedTypeOK'
      BY <2>0, <2>1, <3>1 DEF Tick, HostedTypeOK
    <3>3. ASSUME NEW c \in Challenges PROVE HostedOK(c)'
      BY <2>0, <2>t, <2>1, <3>1 DEF Tick, HostedOK, Signed, Times
    <3> QED BY <1>0, <2>1, <3>1, <3>2, <3>3 DEF Tick, HostedInv, Grows, Times
  <2>2. ASSUME NEW i \in Identities, IdentityChanges(i) PROVE Kept
    <3>1. chain' \in [Identities -> [active : BOOLEAN, rev : 0 .. MaxRev]]
      BY <2>0, <2>2, HostedAssumption DEF HostedTypeOK, IdentityChanges
    <3> QED BY <1>0, <2>0, <2>2, <3>1
            DEF IdentityChanges, HostedInv, HostedTypeOK, HostedOK, Signed, Grows, Times
  <2>3. ASSUME NEW b \in Callbacks, NEW c \in Challenges, NEW i \in Identities,
               WalletAnswers(b, c, i) \/ CallbackFails(b)
        PROVE  Kept
    <3>1. cb' \in [Callbacks -> [c : Challenges, id : Identities] \cup {None}]
      BY <2>0, <2>3 DEF HostedTypeOK, WalletAnswers, CallbackFails
    <3> QED BY <1>0, <2>0, <2>3, <3>1
            DEF WalletAnswers, CallbackFails, HostedInv, HostedTypeOK, HostedOK,
                Signed, Grows, Times
  <2>4. ASSUME NEW b \in Callbacks, StoreResult(b) PROVE Kept
    BY <1>0, <2>4, StoreResultStep
  <2> QED BY <2>1, <2>2, <2>3, <2>4, HostedAssumption DEF Environment
<1>2. now' \in Times
  BY <1>1 DEF HostedInv, HostedTypeOK
<1>3. ChallengeInv'
  BY <1>0, <1>1, ChallengesKept
<1>4. RequestInv'
  BY <1>0, <1>1, <1>2, RequestsSame DEF Inv, RequestInv, LocalsOK
<1>5. LinkInv'
  BY <1>0, Untouched
<1> QED BY <1>0, <1>1, <1>3, <1>4, <1>5 DEF Inv

\* The other requests that are about to insert a challenge find none.
OthersInsert(r) ==
  \A q \in Requests \ {r} : req[q].pc = "insert" => challenge'[req[q].c].state = "none"

\* A request ends.
LEMMA FinishOK ==
  ASSUME Inv, Grows, now' \in Times, NEW r \in Requests, Finish(r), OthersInsert(r)
  PROVE  RequestInv'
<1>1. NoRequest \in Locals /\ NoRequest.pc = "idle" /\ NoRequest.at = 0
      /\ NoRequest.tries = 0
  BY HostedAssumption, LinkAssumption DEF NoRequest, Locals, Times, Pcs
<1>2. req'[r] = NoRequest
  BY DEF Inv, RequestInv, Finish
<1>3. LocalsOK(req[r])'
  BY <1>1, <1>2, HostedAssumption DEF LocalsOK, Times
<1> QED BY <1>1, <1>3, RequestsKept DEF Finish, OthersInsert

\* A request arrives.
LEMMA ArriveOK ==
  ASSUME Inv, NEW r \in Requests, NEW c \in Challenges,
         NEW pc \in {"create", "poll", "cancel"}, Arrive(r, pc, c),
         pc = "create" => now + ChallengeLife <= MaxTime,
         UNCHANGED <<hostedVars, challenge, link>>
  PROVE  HostedInv' /\ ChallengeInv' /\ RequestInv' /\ LinkInv'
<1>1. HostedInv' /\ ChallengeInv' /\ LinkInv' /\ Grows /\ now' \in Times /\ now' = now
  BY Untouched DEF hostedVars
<1> DEFINE l == [NoRequest EXCEPT !.pc = pc, !.c = c, !.at = now]
<1>2. /\ l \in Locals /\ l.pc = pc /\ l.c = c /\ l.at = now /\ l.tries = 0
      /\ l.pc # "insert"
  <2>1. NoRequest \in Locals /\ NoRequest.tries = 0
    BY HostedAssumption, LinkAssumption DEF NoRequest, Locals, Times, Pcs
  <2>2. now \in Times /\ pc \in Pcs
    BY <1>1 DEF Pcs
  <2> QED BY <2>1, <2>2 DEF Locals
<1>3. req' = [req EXCEPT ![r] = l] /\ UNCHANGED challenge
  BY DEF Arrive
<1> HIDE DEF l
<1>4. req'[r] = l
  BY <1>3 DEF Inv, RequestInv
<1>5. LocalsOK(req[r])'
  BY <1>1, <1>2, <1>4, HostedAssumption DEF LocalsOK, Times
<1>6. \A q \in Requests : req[q].pc = "insert" => challenge'[req[q].c].state = "none"
  BY <1>3 DEF Inv, RequestInv, LocalsOK
<1> QED BY <1>1, <1>2, <1>3, <1>5, <1>6, RequestsKept

\* The requests that arrive preserve the invariant.
LEMMA ArrivalStep ==
  ASSUME Inv, NEW r \in Requests, NEW c \in Challenges,
         BeginRequest(r, c) \/ PollRequest(r, c) \/ CancelRequest(r, c)
  PROVE  Inv'
<1>1. CASE BeginRequest(r, c)
  <2>1. hits' \in [Accounts -> Nat]
    BY <1>1, LinkAssumption DEF Inv, BeginRequest
  <2>2. CASE Arrive(r, "create", c)
    BY <1>1, <2>1, <2>2, ArriveOK DEF BeginRequest, Inv
  <2>3. CASE UNCHANGED req
    <3>1. UNCHANGED <<hostedVars, challenge, link>>
      BY <1>1 DEF BeginRequest
    <3>2. HostedInv' /\ ChallengeInv' /\ LinkInv' /\ Grows /\ now' \in Times
      BY <3>1, Untouched DEF hostedVars
    <3>3. RequestInv'
      BY <2>3, <3>1, <3>2, RequestsSame DEF Inv, RequestInv, LocalsOK
    <3> QED BY <2>1, <3>2, <3>3 DEF Inv
  <2> QED BY <1>1, <2>2, <2>3 DEF BeginRequest
<1>2. CASE PollRequest(r, c) \/ CancelRequest(r, c)
  BY <1>2, ArriveOK DEF PollRequest, CancelRequest, store, Inv
<1> QED BY <1>1, <1>2

\* A request that dies preserves the invariant.
LEMMA AbortStep == ASSUME Inv, NEW r \in Requests, Abort(r) PROVE Inv'
<1>1. UNCHANGED <<hostedVars, challenge, link, hits>> /\ Finish(r)
  BY DEF Abort, store
<1>2. HostedInv' /\ ChallengeInv' /\ LinkInv' /\ Grows /\ now' \in Times
  BY <1>1, Untouched DEF hostedVars
<1>3. RequestInv'
  BY <1>1, <1>2, FinishOK DEF Inv, RequestInv, LocalsOK, OthersInsert
<1> QED BY <1>1, <1>2, <1>3 DEF Inv

\* unlink and requireRevalidation preserve the invariant.
LEMMA LinkRowStep ==
  ASSUME Inv,
         \/ \E a \in Accounts, i \in Identities : Unlink(a, i)
         \/ \E i \in Identities : RequireRevalidation(i)
  PROVE  Inv'
<1>1. UNCHANGED <<hostedVars, challenge, hits, req>>
  BY DEF Unlink, RequireRevalidation
<1>2. HostedInv' /\ ChallengeInv' /\ Grows /\ now' \in Times
  BY <1>1, Untouched DEF hostedVars
<1>3. RequestInv'
  BY <1>1, <1>2, RequestsSame DEF Inv, RequestInv, LocalsOK
<1>4. LinkInv'
  <2>0. /\ link \in [Accounts -> [Identities -> LinkRow]]
        /\ \A i \in Identities : chain[i].rev \in 0 .. MaxRev
    BY DEF Inv, LinkInv, HostedInv, HostedTypeOK
  <2>1. ASSUME NEW a \in Accounts, NEW i \in Identities, Unlink(a, i) PROVE LinkInv'
    <3> DEFINE row == [link[a][i] EXCEPT !.state = "unlinked"]
    <3>1. row \in LinkRow /\ row.proof = link[a][i].proof
      <4>1. link[a][i] \in LinkRow
        BY <2>0
      <4> QED BY <4>1 DEF LinkRow, LinkStates
    <3>2. link' = [link EXCEPT ![a][i] = row] /\ link[a][i].state # "none"
      BY <2>1 DEF Unlink
    <3> HIDE DEF row
    <3>3. link' \in [Accounts -> [Identities -> LinkRow]]
      BY <2>0, <3>1, <3>2
    <3>4. ASSUME NEW b \in Accounts, NEW j \in Identities, link'[b][j].state # "none"
          PROVE  link[b][j].state # "none" /\ link'[b][j].proof = link[b][j].proof
      BY <2>0, <3>1, <3>2, <3>4
    <3> QED BY <1>2, <3>3, <3>4, LinksKept
  <2>2. ASSUME NEW i \in Identities, RequireRevalidation(i) PROVE LinkInv'
    <3>1. link' = [a \in Accounts |-> [link[a] EXCEPT ![i] = Demoted(link[a][i], i)]]
      BY <2>2 DEF RequireRevalidation
    <3>2. ASSUME NEW a \in Accounts
          PROVE  /\ Demoted(link[a][i], i) \in LinkRow
                 /\ Demoted(link[a][i], i).proof = link[a][i].proof
                 /\ link[a][i].state = "none" => Demoted(link[a][i], i) = link[a][i]
      <4>1. link[a][i] \in LinkRow
        BY <2>0
      <4> QED BY <2>0, <4>1 DEF Demoted, LinkRow, LinkStates
    <3>3. link' \in [Accounts -> [Identities -> LinkRow]]
      BY <2>0, <3>1, <3>2
    <3>4. ASSUME NEW b \in Accounts, NEW j \in Identities, link'[b][j].state # "none"
          PROVE  link[b][j].state # "none" /\ link'[b][j].proof = link[b][j].proof
      BY <2>0, <3>1, <3>2, <3>4
    <3> QED BY <1>2, <3>3, <3>4, LinksKept
  <2> QED BY <2>1, <2>2
<1> QED BY <1>1, <1>2, <1>3, <1>4 DEF Inv

-----------------------------------------------------------------------------
(* The steps of a request.                                                 *)

\* What a step may rely on.
LEMMA RequestFacts ==
  ASSUME Inv, NEW r \in Requests, req[r].pc # "idle"
  PROVE  /\ req[r] \in Locals /\ LocalsOK(req[r]) /\ req[r].c \in Challenges
         /\ challenge[req[r].c] \in ChallengeRow /\ hosted[req[r].c] \in HostedRow
         /\ now \in Times
<1>1. req[r] \in Locals /\ LocalsOK(req[r])
  BY DEF Inv, RequestInv
<1>2. req[r].c \in Challenges
  BY <1>1 DEF LocalsOK
<1> QED BY <1>1, <1>2 DEF Inv, ChallengeInv, HostedInv, HostedTypeOK, HostedRow

\* A challenge that is not consumed moves to a state without a token.
LEMMA MoveOK ==
  ASSUME Inv, NEW c \in Challenges, NEW st \in ChallengeStates \ {"consumed"},
         challenge[c].state # "consumed", hosted[c].made,
         challenge' = [challenge EXCEPT ![c].state = st],
         UNCHANGED <<hosted, now>>
  PROVE  /\ ChallengeInv' /\ Grows
         /\ \A d \in Challenges : d # c => challenge'[d] = challenge[d]
<1>0. /\ challenge \in [Challenges -> ChallengeRow]
      /\ \A d \in Challenges : ChallengeOK(d)
      /\ now <= now'
  BY HostedAssumption DEF Inv, ChallengeInv, HostedInv, HostedTypeOK, Times
<1>1. challenge[c] \in ChallengeRow
  BY <1>0
<1>2. /\ challenge' \in [Challenges -> ChallengeRow] /\ challenge'[c].state = st
      /\ \A d \in Challenges : d # c => challenge'[d] = challenge[d]
  BY <1>0, <1>1 DEF ChallengeRow
<1>3. ChallengeOK(c)'
  BY <1>0, <1>2 DEF ChallengeOK, Signed
<1>4. ASSUME NEW d \in Challenges, d # c PROVE ChallengeOK(d)'
  BY <1>0, <1>2, <1>4 DEF ChallengeOK, Signed
<1> QED BY <1>0, <1>2, <1>3, <1>4 DEF ChallengeInv, Grows

\* Polls and cancellations may only void a presented challenge.
Voids(c) ==
  \/ challenge' = challenge
  \/ /\ challenge[c].state = "presented"
     /\ \E st \in {"expired", "cancelled"} :
          challenge' = [challenge EXCEPT ![c].state = st]

\* Voiding a presented challenge keeps every proof and every acknowledgement.
LEMMA VoidOK ==
  ASSUME Inv, NEW c \in Challenges, Voids(c), UNCHANGED <<hostedVars, link>>
  PROVE  /\ HostedInv' /\ ChallengeInv' /\ LinkInv' /\ Grows /\ now' \in Times
         /\ \A q \in Requests : req[q].pc = "insert" =>
              challenge'[req[q].c].state = "none"
<1>0. HostedInv' /\ now' \in Times
  BY Untouched
<1>i. \A q \in Requests : req[q].pc = "insert" =>
        req[q].c \in Challenges /\ challenge[req[q].c].state = "none"
  BY DEF Inv, RequestInv, LocalsOK
<1>1. CASE challenge' = challenge
  BY <1>0, <1>i, <1>1, Untouched DEF hostedVars
<1>2. CASE challenge' # challenge
  <2>1. PICK st \in ChallengeStates \ {"consumed"} :
          /\ challenge[c].state = "presented"
          /\ challenge' = [challenge EXCEPT ![c].state = st]
    BY <1>2 DEF Voids, ChallengeStates
  <2>2. hosted[c].made
    BY <2>1 DEF Inv, ChallengeInv, ChallengeOK
  <2>3. /\ ChallengeInv' /\ Grows
        /\ \A d \in Challenges : d # c => challenge'[d] = challenge[d]
    BY <2>1, <2>2, MoveOK DEF hostedVars
  <2>4. LinkInv'
    BY <2>3, LinksKept DEF Inv, LinkInv
  <2> QED BY <1>0, <1>i, <2>1, <2>3, <2>4
<1> QED BY <1>1, <1>2

\* The client creates the challenge with the hosted service.
LEMMA CreateHostedStep ==
  ASSUME Inv, NEW r \in Requests, CreateHosted(r) PROVE Inv'
<1>1. PICK c \in Challenges : c = req[r].c
  BY RequestFacts DEF CreateHosted, At
<1>2. /\ req[r] \in Locals /\ LocalsOK(req[r]) /\ hosted[c] \in HostedRow
      /\ now \in Times /\ req[r].pc = "create"
  BY <1>1, RequestFacts DEF CreateHosted, At
<1> DEFINE iss == req[r].at
           exp == req[r].at + ChallengeLife
           row == [hosted[c] EXCEPT !.made = TRUE, !.key = TRUE, !.iss = iss, !.exp = exp]
<1>3. iss \in Times /\ exp \in Times /\ iss <= now
  BY <1>2, HostedAssumption DEF Locals, LocalsOK, Times
<1>4. /\ hosted' = [hosted EXCEPT ![c] = row] /\ ~hosted[c].made
      /\ UNCHANGED <<now, chain, cb, challenge, link, hits>>
  BY <1>1 DEF CreateHosted, NewHostedChallenge, store
<1> HIDE DEF iss, exp
<1>5. /\ row \in HostedRow /\ row.made /\ row.iss = iss
      /\ row.result = hosted[c].result /\ row.acked = hosted[c].acked
  BY <1>2, <1>3 DEF HostedRow
<1> HIDE DEF row
<1>6. /\ hosted \in [Challenges -> HostedRow]
      /\ \A d \in Challenges : HostedOK(d) /\ ChallengeOK(d)
  BY DEF Inv, HostedInv, HostedTypeOK, HostedRow, ChallengeInv
<1>7. /\ hosted' \in [Challenges -> HostedRow] /\ hosted'[c] = row
      /\ \A d \in Challenges : d # c => hosted'[d] = hosted[d]
  BY <1>4, <1>5, <1>6
<1>8. HostedInv'
  <2>1. HostedTypeOK'
    BY <1>4, <1>7 DEF Inv, HostedInv, HostedTypeOK, HostedRow
  <2>2. hosted[c].result = None
    BY <1>4, <1>6 DEF HostedOK, Signed
  <2>3. HostedOK(c)'
    BY <1>3, <1>4, <1>5, <1>7, <2>2 DEF HostedOK
  <2>4. ASSUME NEW d \in Challenges, d # c PROVE HostedOK(d)'
    BY <1>4, <1>6, <1>7, <2>4 DEF HostedOK, Signed
  <2> QED BY <2>1, <2>3, <2>4 DEF HostedInv
<1>9. Grows
  BY <1>2, <1>4, <1>7, HostedAssumption DEF Grows, Times
<1>10. ChallengeInv' /\ LinkInv'
  <2>1. \A d \in Challenges : hosted'[d].acked = hosted[d].acked
    BY <1>5, <1>7
  <2> QED BY <1>4, <1>9, <2>1, ChallengesKept, Untouched
<1>11. RequestInv'
  <2> DEFINE l == [req[r] EXCEPT !.pc = "insert"]
  <2>1. /\ l \in Locals /\ l.pc = "insert" /\ l.c = c /\ l.at = req[r].at
        /\ l.tries = req[r].tries
    BY <1>1, <1>2 DEF Locals, Pcs
  <2>2. req' = [req EXCEPT ![r] = l]
    BY DEF CreateHosted, Goto
  <2> HIDE DEF l
  <2>3. req'[r] = l
    BY <2>2 DEF Inv, RequestInv
  <2>4. challenge[c].state = "none"
    BY <1>4, <1>6 DEF ChallengeOK
  <2>5. LocalsOK(req[r])'
    BY <1>2, <1>4, <1>5, <1>7, <2>1, <2>3, <2>4 DEF LocalsOK
  <2>6. \A q \in Requests : req[q].pc = "insert" =>
          challenge'[req[q].c].state = "none" /\ req[q].c # c
    BY <1>4 DEF Inv, RequestInv, LocalsOK
  <2> QED BY <1>2, <1>4, <1>9, <2>1, <2>2, <2>5, <2>6, RequestsKept
<1> QED BY <1>4, <1>8, <1>10, <1>11 DEF Inv

\* The row of a new challenge is inserted.
LEMMA InsertStep == ASSUME Inv, NEW r \in Requests, InsertChallenge(r) PROVE Inv'
<1>1. PICK c \in Challenges : c = req[r].c
  BY RequestFacts DEF InsertChallenge, At
<1>2. /\ hosted[c].made /\ challenge[c].state = "none" /\ req[r].pc = "insert"
      /\ challenge' = [challenge EXCEPT ![c].state = "presented"]
      /\ Finish(r) /\ UNCHANGED <<hostedVars, link, hits>>
  BY <1>1, RequestFacts DEF InsertChallenge, At, LocalsOK
<1>3. /\ ChallengeInv' /\ Grows
      /\ \A d \in Challenges : d # c => challenge'[d] = challenge[d]
  BY <1>2, MoveOK DEF hostedVars, ChallengeStates
<1>4. HostedInv' /\ LinkInv' /\ now' \in Times
  BY <1>2, <1>3, Untouched, LinksKept DEF Inv, LinkInv
<1>5. OthersInsert(r)
  BY <1>1, <1>2, <1>3 DEF Inv, RequestInv, InsertOnce, LocalsOK, OthersInsert
<1>6. RequestInv'
  BY <1>2, <1>3, <1>4, <1>5, FinishOK
<1> QED BY <1>2, <1>3, <1>4, <1>6 DEF Inv

\* The first transaction of a poll.
LEMMA PollFirstStep == ASSUME Inv, NEW r \in Requests, PollFirst(r) PROVE Inv'
<1>1. PICK c \in Challenges : c = req[r].c
  BY RequestFacts DEF PollFirst, At
<1>2. Voids(c) /\ UNCHANGED <<hostedVars, link, hits>>
  BY <1>1 DEF PollFirst, AfterPoll, Voids
<1>3. /\ HostedInv' /\ ChallengeInv' /\ LinkInv' /\ Grows /\ now' \in Times
      /\ \A q \in Requests : req[q].pc = "insert" =>
           challenge'[req[q].c].state = "none"
  BY <1>2, VoidOK
<1>4. RequestInv'
  <2>1. CASE Finish(r)
    BY <1>3, <2>1, FinishOK DEF OthersInsert
  <2>2. CASE Goto(r, "result")
    <3> DEFINE l == [req[r] EXCEPT !.pc = "result"]
    <3>0. req[r] \in Locals /\ LocalsOK(req[r]) /\ req[r].pc = "poll" /\ now' = now
      BY <1>2, RequestFacts DEF PollFirst, At, hostedVars
    <3>1. /\ l \in Locals /\ l.pc = "result" /\ l.c = req[r].c /\ l.at = req[r].at
          /\ l.tries = req[r].tries
      BY <3>0 DEF Locals, Pcs
    <3>2. req' = [req EXCEPT ![r] = l]
      BY <2>2 DEF Goto
    <3> HIDE DEF l
    <3>3. req'[r] = l
      BY <3>2 DEF Inv, RequestInv
    <3>4. LocalsOK(req[r])'
      BY <3>0, <3>1, <3>3 DEF LocalsOK
    <3> QED BY <1>3, <3>1, <3>2, <3>4, RequestsKept
  <2> QED BY <2>1, <2>2 DEF PollFirst
<1> QED BY <1>2, <1>3, <1>4 DEF Inv

\* The poll after the acknowledgement, and a cancellation.
LEMMA LastStep ==
  ASSUME Inv, NEW r \in Requests, PollAgain(r) \/ CancelChallenge(r) PROVE Inv'
<1>1. PICK c \in Challenges : c = req[r].c
  BY RequestFacts DEF PollAgain, CancelChallenge, At
<1>2. Voids(c) /\ UNCHANGED <<hostedVars, link, hits>> /\ Finish(r)
  BY <1>1 DEF PollAgain, CancelChallenge, AfterPoll, Voids
<1>3. /\ HostedInv' /\ ChallengeInv' /\ LinkInv' /\ Grows /\ now' \in Times
      /\ OthersInsert(r)
  BY <1>2, VoidOK DEF OthersInsert
<1> QED BY <1>2, <1>3, FinishOK DEF Inv

\* The calls of the hosted service and of the node that only read.
LEMMA ReadStep ==
  ASSUME Inv, NEW r \in Requests, FetchResult(r) \/ ReadIdentity(r) PROVE Inv'
<1>0. /\ req[r] \in Locals /\ LocalsOK(req[r]) /\ req[r].pc \in {"result", "identity"}
      /\ req[r].c \in Challenges /\ UNCHANGED <<hostedVars, challenge, link, hits>>
  BY RequestFacts DEF FetchResult, ReadIdentity, At, store
<1>1. /\ HostedInv' /\ ChallengeInv' /\ LinkInv' /\ Grows /\ now' \in Times
  BY <1>0, Untouched DEF hostedVars
<1>i. \A q \in Requests : req[q].pc = "insert" => challenge'[req[q].c].state = "none"
  BY <1>0 DEF Inv, RequestInv, LocalsOK
<1>2. CASE Finish(r)
  BY <1>0, <1>1, <1>2, <1>i, FinishOK DEF Inv, OthersInsert
<1>3. CASE FetchResult(r) /\ ~Finish(r)
  <2> DEFINE t == hosted[req[r].c].result
             l == [req[r] EXCEPT !.pc = "identity", !.token = t]
  <2>1. t # None /\ req' = [req EXCEPT ![r] = l]
    BY <1>3 DEF FetchResult, GetResult
  <2>2. Signed(req[r].c, t) /\ t \in Token
    BY <1>0, <2>1 DEF Inv, HostedInv, HostedOK, Signed
  <2> HIDE DEF t
  <2>3. /\ l \in Locals /\ l.pc = "identity" /\ l.c = req[r].c /\ l.at = req[r].at
        /\ l.tries = req[r].tries /\ l.token = t
    BY <1>0, <2>2 DEF Locals, Pcs
  <2> HIDE DEF l
  <2>4. req'[r] = l
    BY <2>1 DEF Inv, RequestInv
  <2>5. LocalsOK(req[r])'
    BY <1>0, <2>2, <2>3, <2>4 DEF LocalsOK, Signed, hostedVars
  <2>6. RequestInv'
    BY <1>1, <1>i, <2>1, <2>3, <2>5, RequestsKept
  <2> QED BY <1>0, <1>1, <2>6 DEF Inv
<1>4. CASE ReadIdentity(r) /\ ~Finish(r)
  <2>1. PICK i \in Identities : i = req[r].token.id
    BY <1>0, <1>4 DEF ReadIdentity, At, LocalsOK, Signed, Token
  <2> DEFINE l == [req[r] EXCEPT !.pc = "complete", !.rev = chain[i].rev]
  <2>2. req' = [req EXCEPT ![r] = l] /\ req[r].pc = "identity"
    BY <1>4, <2>1 DEF ReadIdentity, At
  <2>3. /\ l \in Locals /\ l.pc = "complete" /\ l.c = req[r].c /\ l.at = req[r].at
        /\ l.tries = req[r].tries /\ l.token = req[r].token
    <3>1. chain[i].rev \in 0 .. MaxRev
      BY DEF Inv, HostedInv, HostedTypeOK
    <3> QED BY <1>0, <3>1 DEF Locals, Pcs
  <2> HIDE DEF l
  <2>4. req'[r] = l
    BY <2>2 DEF Inv, RequestInv
  <2>5. LocalsOK(req[r])'
    BY <1>0, <2>2, <2>3, <2>4 DEF LocalsOK, Signed, hostedVars
  <2>6. RequestInv'
    BY <1>1, <1>i, <2>2, <2>3, <2>5, RequestsKept
  <2> QED BY <1>0, <1>1, <2>6 DEF Inv
<1> QED BY <1>2, <1>3, <1>4

\* One acknowledgement, answered or not.
LEMMA AckStep ==
  ASSUME Inv, NEW r \in Requests, NEW reached, NEW answered,
         AckResult(r, reached, answered)
  PROVE  Inv'
<1>1. PICK c \in Challenges : c = req[r].c
  BY RequestFacts DEF AckResult, At
<1>2. /\ req[r] \in Locals /\ LocalsOK(req[r]) /\ hosted[c] \in HostedRow
      /\ now \in Times /\ req[r].pc = "ack"
      /\ UNCHANGED <<now, chain, cb, challenge, link, hits>>
  BY <1>1, RequestFacts DEF AckResult, At, store
<1>3. /\ challenge[c].state = "consumed" /\ challenge[c].token = req[r].token
      /\ req[r].token \in Token /\ req[r].tries < AckTries
  BY <1>1, <1>2 DEF LocalsOK, Signed
<1>h. /\ hosted \in [Challenges -> HostedRow]
      /\ \A d \in Challenges : HostedOK(d) /\ ChallengeOK(d)
  BY DEF Inv, HostedInv, HostedTypeOK, HostedRow, ChallengeInv
<1>4. HostedInv' /\ ChallengeInv' /\ Grows
  <2>1. CASE hosted' = hosted
    BY <1>2, <2>1, Untouched DEF hostedVars
  <2>2. CASE hosted' # hosted
    <3> DEFINE row == [hosted[c] EXCEPT !.key = FALSE, !.result = None,
                                        !.acked = req[r].token]
    <3>1. hosted' = [hosted EXCEPT ![c] = row]
      BY <1>1, <2>2 DEF AckResult, Acknowledges, Acknowledge
    <3>2. /\ row \in HostedRow /\ row.made = hosted[c].made /\ ~row.key
          /\ row.iss = hosted[c].iss /\ row.exp = hosted[c].exp
          /\ row.result = None /\ row.acked = req[r].token
      BY <1>2, <1>3 DEF HostedRow
    <3> HIDE DEF row
    <3>3. /\ hosted' \in [Challenges -> HostedRow] /\ hosted'[c] = row
          /\ \A d \in Challenges : d # c => hosted'[d] = hosted[d]
      BY <1>h, <3>1, <3>2
    <3>4. Grows
      BY <1>2, <3>2, <3>3, HostedAssumption DEF Grows, Times
    <3>5. HostedTypeOK'
      BY <1>2, <3>3 DEF Inv, HostedInv, HostedTypeOK, HostedRow
    <3>6. HostedOK(c)' /\ ChallengeOK(c)'
      BY <1>2, <1>3, <1>h, <3>2, <3>3 DEF HostedOK, ChallengeOK, Signed
    <3>7. ASSUME NEW d \in Challenges, d # c PROVE HostedOK(d)' /\ ChallengeOK(d)'
      BY <1>2, <1>h, <3>3, <3>7 DEF HostedOK, ChallengeOK, Signed
    <3> QED BY <1>2, <3>4, <3>5, <3>6, <3>7 DEF HostedInv, ChallengeInv, Inv
  <2> QED BY <2>1, <2>2
<1>5. LinkInv'
  BY <1>2, Untouched
<1>i. \A q \in Requests : req[q].pc = "insert" => challenge'[req[q].c].state = "none"
  BY <1>2 DEF Inv, RequestInv, LocalsOK
<1>6. PICK l \in Locals :
        /\ req' = [req EXCEPT ![r] = l]
        /\ l.c = c /\ l.at = req[r].at
        /\ \/ l.pc = "again" /\ l.tries = 0
           \/ l.pc = "ack" /\ l.tries < AckTries /\ l.token = req[r].token
  <2> DEFINE more == [req[r] EXCEPT !.tries = req[r].tries + 1]
             again == [NoRequest EXCEPT !.pc = "again", !.c = req[r].c, !.at = req[r].at]
  <2>1. CASE req' = [req EXCEPT ![r] = again]
    <3>0. NoRequest \in Locals /\ NoRequest.tries = 0
      BY HostedAssumption, LinkAssumption DEF NoRequest, Locals, Times, Pcs
    <3>1. again \in Locals /\ again.c = c /\ again.at = req[r].at
          /\ again.pc = "again" /\ again.tries = 0
      BY <1>1, <1>2, <3>0 DEF Locals, Pcs
    <3> HIDE DEF again
    <3> QED BY <2>1, <3>1
  <2>2. CASE req' = [req EXCEPT ![r] = more] /\ req[r].tries + 1 # AckTries
    <3>1. req[r].tries + 1 \in 0 .. AckTries /\ req[r].tries + 1 < AckTries
      BY <1>2, <1>3, <2>2, LinkAssumption DEF Locals
    <3>2. more \in Locals /\ more.c = c /\ more.at = req[r].at /\ more.pc = "ack"
          /\ more.tries = req[r].tries + 1 /\ more.token = req[r].token
      BY <1>1, <1>2, <3>1 DEF Locals
    <3> HIDE DEF more
    <3> QED BY <2>2, <3>1, <3>2
  <2> QED BY <1>1, <2>1, <2>2 DEF AckResult
<1>7. req'[r] = l
  BY <1>6 DEF Inv, RequestInv
<1>8. LocalsOK(req[r])'
  BY <1>1, <1>2, <1>3, <1>4, <1>6, <1>7 DEF LocalsOK, Grows, Signed
<1>9. RequestInv'
  BY <1>2, <1>4, <1>i, <1>6, <1>8, RequestsKept
<1> QED BY <1>2, <1>4, <1>5, <1>9 DEF Inv

\* completeChallenge: the replay, the refusals, the expiry and the use.
LEMMA CompleteStep ==
  ASSUME Inv, NEW r \in Requests, CompleteChallenge(r) PROVE Inv'
<1>1. PICK c \in Challenges : c = req[r].c
  BY RequestFacts DEF CompleteChallenge, At
<1>2. /\ req[r] \in Locals /\ LocalsOK(req[r]) /\ challenge[c] \in ChallengeRow
      /\ now \in Times /\ req[r].pc = "complete" /\ UNCHANGED <<hostedVars, hits>>
      /\ req[r].tries = 0
  BY <1>1, RequestFacts DEF CompleteChallenge, At, LocalsOK
<1>3. PICK t \in Token : t = req[r].token /\ Signed(c, t)
  BY <1>1, <1>2 DEF LocalsOK, Signed
<1>i. \A q \in Requests : req[q].pc = "insert" =>
        req[q].c \in Challenges /\ challenge[req[q].c].state = "none"
  BY DEF Inv, RequestInv, LocalsOK
\* The request goes on to acknowledge a challenge consumed with its token.
<1>a. ASSUME Completed(r), Grows, challenge'[c].state = "consumed",
             challenge'[c].token = t, OthersInsert(r)
      PROVE  RequestInv'
  <2> DEFINE l == [req[r] EXCEPT !.pc = "ack", !.rev = 0]
  <2>1. /\ l \in Locals /\ l.pc = "ack" /\ l.c = c /\ l.at = req[r].at
        /\ l.tries = 0 /\ l.token = t
    <3>1. 0 \in 0 .. MaxRev /\ "ack" \in Pcs
      BY HostedAssumption DEF Pcs
    <3> QED BY <1>1, <1>2, <1>3, <3>1 DEF Locals
  <2>2. req' = [req EXCEPT ![r] = l] /\ now' = now
    BY <1>a, <1>2 DEF Completed, hostedVars
  <2> HIDE DEF l
  <2>3. req'[r] = l
    BY <2>2 DEF Inv, RequestInv
  <2>4. Signed(c, t)'
    BY <1>3, <1>a DEF Signed, Grows
  <2>5. LocalsOK(req[r])'
    BY <1>2, <1>a, <2>1, <2>2, <2>3, <2>4, LinkAssumption DEF LocalsOK, Signed
  <2> QED BY <1>2, <1>a, <2>1, <2>2, <2>5, RequestsKept DEF OthersInsert
<1>4. CASE ReplayOrRefuse(r)
  <2>1. UNCHANGED <<hostedVars, challenge, link>>
    BY <1>2, <1>4 DEF ReplayOrRefuse
  <2>2. HostedInv' /\ ChallengeInv' /\ LinkInv' /\ Grows /\ now' \in Times
        /\ OthersInsert(r)
    BY <1>i, <2>1, Untouched DEF hostedVars, OthersInsert
  <2>3. RequestInv'
    <3>1. CASE Finish(r)
      BY <2>2, <3>1, FinishOK
    <3>2. CASE Completed(r) /\ challenge[c].state = "consumed" /\ challenge[c].token = t
      BY <1>a, <2>1, <2>2, <3>2
    <3> QED BY <1>1, <1>3, <1>4, <3>1, <3>2 DEF ReplayOrRefuse
  <2> QED BY <1>2, <2>2, <2>3 DEF Inv
<1>5. CASE ExpireInstead(r)
  <2>1. Voids(c) /\ UNCHANGED <<hostedVars, link>> /\ Finish(r)
    BY <1>1, <1>2, <1>5 DEF ExpireInstead, Voids
  <2>2. HostedInv' /\ ChallengeInv' /\ LinkInv' /\ Grows /\ now' \in Times
        /\ OthersInsert(r)
    BY <2>1, VoidOK DEF OthersInsert
  <2> QED BY <1>2, <2>1, <2>2, FinishOK DEF Inv
<1>6. CASE Consume(r)
  <2> DEFINE row == [state |-> "consumed", token |-> t]
  <2>1. /\ challenge' = [challenge EXCEPT ![c] = row]
        /\ challenge[c].state = "presented" /\ Completed(r) /\ link' = LinkedBy(r)
    BY <1>1, <1>3, <1>6 DEF Consume, Consumed
  <2>2. row \in ChallengeRow /\ row.state = "consumed" /\ row.token = t
    BY DEF ChallengeRow, ChallengeStates
  <2> HIDE DEF row
  <2>3. /\ challenge' \in [Challenges -> ChallengeRow] /\ challenge'[c] = row
        /\ \A d \in Challenges : d # c => challenge'[d] = challenge[d]
    BY <2>1, <2>2 DEF Inv, ChallengeInv
  <2>4. Grows
    BY <1>2, <2>1, <2>3, HostedAssumption DEF Grows, Times, hostedVars
  <2>5. ChallengeInv'
    <3>1. \A d \in Challenges : ChallengeOK(d)
      BY DEF Inv, ChallengeInv
    <3>2. ChallengeOK(c)'
      BY <1>2, <1>3, <2>1, <2>2, <2>3, <3>1 DEF ChallengeOK, Signed, hostedVars
    <3>3. ASSUME NEW d \in Challenges, d # c PROVE ChallengeOK(d)'
      BY <1>2, <2>3, <3>1, <3>3 DEF ChallengeOK, Signed, hostedVars
    <3> QED BY <2>3, <3>2, <3>3 DEF ChallengeInv
  <2>6. RequestInv'
    <3>1. OthersInsert(r)
      BY <1>i, <2>1, <2>3 DEF OthersInsert
    <3> QED BY <1>a, <2>1, <2>2, <2>3, <2>4, <3>1
  <2>7. LinkInv'
    <3>1. PICK a \in Accounts, i \in Identities : a = Owner[c] /\ i = t.id
      BY LinkAssumption DEF Token
    <3> DEFINE new == [state |-> "active", proof |-> c, rev |-> req[r].rev,
                       floor |-> link[a][i].floor]
    <3>2. link' = [link EXCEPT ![a][i] = new]
      BY <1>1, <1>3, <2>1, <3>1 DEF LinkedBy
    <3>3. link \in [Accounts -> [Identities -> LinkRow]]
      BY DEF Inv, LinkInv
    <3>4. new \in LinkRow /\ new.proof = c /\ new.state = "active"
      <4>1. link[a][i].floor \in 0 .. MaxRev /\ req[r].rev \in 0 .. MaxRev
        <5>1. link[a][i] \in LinkRow
          BY <3>3
        <5> QED BY <1>2, <5>1 DEF LinkRow, Locals
      <4> QED BY <4>1 DEF LinkRow, LinkStates
    <3> HIDE DEF new
    <3>5. /\ link' \in [Accounts -> [Identities -> LinkRow]] /\ link'[a][i] = new
          /\ \A b \in Accounts, j \in Identities :
               b # a \/ j # i => link'[b][j] = link[b][j]
      BY <3>2, <3>3, <3>4
    <3>6. ASSUME NEW b \in Accounts, NEW j \in Identities PROVE LinkOK(b, j)'
      <4>1. CASE b = a /\ j = i
        <5>1. link'[b][j].proof = c
          BY <3>4, <3>5, <4>1
        <5>2. challenge'[c].state = "consumed" /\ challenge'[c].token.id = j
          BY <2>2, <2>3, <3>1, <4>1
        <5> QED BY <3>1, <4>1, <5>1, <5>2 DEF LinkOK
      <4>2. CASE b # a \/ j # i
        <5>1. LinkOK(b, j) /\ link'[b][j] = link[b][j]
          BY <3>5, <4>2 DEF Inv, LinkInv
        <5> QED BY <2>4, <5>1 DEF LinkOK, Grows
      <4> QED BY <4>1, <4>2
    <3> QED BY <3>5, <3>6 DEF LinkInv
  <2>8. HostedInv'
    BY <1>2, Untouched
  <2> QED BY <1>2, <2>5, <2>6, <2>7, <2>8 DEF Inv
<1> QED BY <1>4, <1>5, <1>6 DEF CompleteChallenge

-----------------------------------------------------------------------------
(* The invariant.                                                          *)

\* The tables start empty.
LEMMA InvInit == Init => Inv
<1> SUFFICES ASSUME Init PROVE Inv
  OBVIOUS
<1>1. HostedInv
  <2>1. HostedTypeOK
    BY HostedAssumption DEF Init, HostedInit, HostedTypeOK, Times
  <2>2. ASSUME NEW c \in Challenges PROVE HostedOK(c)
    BY DEF Init, HostedInit, HostedOK
  <2> QED BY <2>1, <2>2 DEF HostedInv
<1>2. ChallengeInv
  BY DEF Init, HostedInit, ChallengeInv, ChallengeOK, ChallengeRow, ChallengeStates
<1>3. RequestInv
  <2>1. NoRequest \in Locals /\ NoRequest.pc = "idle" /\ NoRequest.at = 0
        /\ NoRequest.tries = 0
    BY HostedAssumption, LinkAssumption DEF NoRequest, Locals, Times, Pcs
  <2> QED BY <2>1 DEF Init, HostedInit, RequestInv, LocalsOK, InsertOnce
<1>4. LinkInv
  <2>1. NoLink \in LinkRow /\ NoLink.state = "none"
    BY HostedAssumption DEF NoLink, LinkRow, LinkStates
  <2> QED BY <2>1 DEF Init, LinkInv, LinkOK
<1> QED BY <1>1, <1>2, <1>3, <1>4 DEF Init, Inv

\* Every step preserves it.
LEMMA InvStep == Inv /\ [Next]_vars => Inv'
<1> SUFFICES ASSUME Inv, [Next]_vars PROVE Inv'
  OBVIOUS
<1>1. CASE Environment
  BY <1>1, EnvironmentStep
<1>2. ASSUME NEW r \in Requests, NEW c \in Challenges,
             BeginRequest(r, c) \/ PollRequest(r, c) \/ CancelRequest(r, c)
      PROVE  Inv'
  BY <1>2, ArrivalStep
<1>3. ASSUME NEW r \in Requests, Step(r) \/ Abort(r) PROVE Inv'
  BY <1>3, AbortStep, CreateHostedStep, InsertStep, PollFirstStep, LastStep,
     ReadStep, CompleteStep, AckStep DEF Step
<1>4. CASE \/ \E a \in Accounts, i \in Identities : Unlink(a, i)
           \/ \E i \in Identities : RequireRevalidation(i)
  BY <1>4, LinkRowStep
<1>5. CASE UNCHANGED vars
  <2>1. UNCHANGED <<hostedVars, challenge, link, hits, req>>
    BY <1>5 DEF vars
  <2>2. HostedInv' /\ ChallengeInv' /\ LinkInv' /\ Grows /\ now' \in Times
    BY <2>1, Untouched DEF hostedVars
  <2>3. RequestInv'
    BY <2>1, <2>2, RequestsSame DEF Inv, RequestInv, LocalsOK
  <2> QED BY <2>1, <2>2, <2>3 DEF Inv
<1> QED BY <1>1, <1>2, <1>3, <1>4, <1>5 DEF Next

\* The invariant holds of every reachable state.
LEMMA InvHolds == Spec => []Inv
  BY InvInit, InvStep, PTL DEF Spec

-----------------------------------------------------------------------------
(* The theorems.                                                           *)

\* The tables, the store and the requests keep their types; the times that a
\* challenge gets and the acknowledgements that are counted stay in range.
THEOREM LinkTypeCorrect == Spec => []TypeOK
<1>1. Inv => TypeOK
  BY DEF Inv, HostedInv, ChallengeInv, RequestInv, LinkInv, TypeOK, ChallengeRow,
         LinkRow, Locals
<1> QED BY <1>1, InvHolds, PTL

\* Every link rests on a challenge of its own account, consumed once with a
\* token signed for this identity while the challenge was live.
THEOREM LinkRestsOnProof == Spec => []LinkProof
<1>1. Inv => LinkProof
  BY DEF Inv, ChallengeInv, ChallengeOK, LinkInv, LinkOK, LinkProof, Signed
<1> QED BY <1>1, InvHolds, PTL

\* The hosted service forgets a result only when the link is durable.
THEOREM LinkAckedDurable == Spec => []AckedIsDurable
<1>1. Inv => AckedIsDurable
  BY DEF Inv, ChallengeInv, ChallengeOK, AckedIsDurable
<1> QED BY <1>1, InvHolds, PTL

\* A result is offered while its challenge lives and until it is acknowledged.
THEOREM LinkOfferedInTime == Spec => []OfferedOnlyInTime
<1>1. ASSUME Inv, NEW c \in Challenges, GetResult(c) # None
      PROVE  now < hosted[c].exp /\ hosted[c].acked = None
  <2>1. /\ now < hosted[c].result.exp /\ hosted[c].result.exp <= hosted[c].exp
        /\ hosted[c].acked = None /\ hosted[c].result \in Token
    BY <1>1 DEF GetResult, Inv, HostedInv, HostedOK, Signed
  <2>2. now \in Times /\ hosted[c].exp \in Times
    BY <1>1 DEF Inv, HostedInv, HostedTypeOK
  <2> QED BY <2>1, <2>2, HostedAssumption DEF Times, Token
<1>2. Inv => OfferedOnlyInTime
  BY <1>1 DEF OfferedOnlyInTime
<1> QED BY <1>2, InvHolds, PTL

-----------------------------------------------------------------------------
(* The refinement of LinkPromise.                                          *)

\* A step that changes the row of one challenge changes one phase.
LEMMA PhaseMoves ==
  ASSUME NEW c \in Challenges,
         \A d \in Challenges : d # c => challenge'[d] = challenge[d]
  PROVE  Phase' = [Phase EXCEPT ![c] = PhaseOf(c)']
<1>1. ASSUME NEW d \in Challenges, d # c PROVE PhaseOf(d)' = PhaseOf(d)
  BY <1>1 DEF PhaseOf
<1> QED BY <1>1 DEF Phase

\* A step that changes one row of the links changes one tie.
LEMMA TieMoves ==
  ASSUME NEW a \in Accounts, NEW i \in Identities,
         \A b \in Accounts, j \in Identities : b # a \/ j # i =>
           link'[b][j] = link[b][j]
  PROVE  Tie' = [Tie EXCEPT ![a][i] = TieOf(a, i)']
<1>1. ASSUME NEW b \in Accounts, NEW j \in Identities, b # a \/ j # i
      PROVE  TieOf(b, j)' = TieOf(b, j)
  BY <1>1 DEF TieOf
<1>2. \A b \in Accounts : b # a => Tie'[b] = Tie[b]
  BY <1>1 DEF Tie
<1>3. Tie'[a] = [Tie[a] EXCEPT ![i] = TieOf(a, i)']
  BY <1>1 DEF Tie
<1>4. Tie' = [Tie EXCEPT ![a] = [Tie[a] EXCEPT ![i] = TieOf(a, i)']]
  <2>1. /\ Tie' = [b \in Accounts |-> Tie'[b]]
        /\ Tie = [b \in Accounts |-> Tie[b]]
    BY DEF Tie
  <2> QED BY <1>2, <1>3, <2>1
<1> QED BY <1>4

\* A presented challenge that is voided.
LEMMA VoidRefines ==
  ASSUME Inv, NEW c \in Challenges, Voids(c), UNCHANGED link
  PROVE  Promise!Void(c) \/ UNCHANGED <<Phase, Tie>>
<1>0. UNCHANGED Tie
  BY DEF Tie, TieOf
<1>1. CASE challenge' = challenge
  BY <1>0, <1>1 DEF Phase, PhaseOf
<1>2. CASE challenge' # challenge
  <2>1. PICK st \in {"expired", "cancelled"} :
          challenge[c].state = "presented" /\ challenge' = [challenge EXCEPT ![c].state = st]
    BY <1>2 DEF Voids
  <2>2. /\ challenge'[c].state = st
        /\ \A d \in Challenges : d # c => challenge'[d] = challenge[d]
    BY <2>1 DEF Inv, ChallengeInv, ChallengeRow
  <2>3. PhaseOf(c) = "open" /\ PhaseOf(c)' = "void"
    BY <2>1, <2>2 DEF PhaseOf
  <2>4. Phase[c] = "open" /\ Phase' = [Phase EXCEPT ![c] = "void"]
    BY <2>2, <2>3, PhaseMoves DEF Phase
  <2> QED BY <1>0, <2>4 DEF Promise!Void, Promise!Move
<1> QED BY <1>1, <1>2

\* The insertion of a row presents its challenge.
LEMMA InsertRefines ==
  ASSUME Inv, NEW r \in Requests, InsertChallenge(r)
  PROVE  \E c \in Challenges : Promise!Present(c)
<1>1. PICK c \in Challenges : c = req[r].c
  BY RequestFacts DEF InsertChallenge, At
<1>2. /\ challenge[c].state = "none" /\ UNCHANGED link
      /\ challenge' = [challenge EXCEPT ![c].state = "presented"]
  BY <1>1, RequestFacts DEF InsertChallenge, At, LocalsOK
<1>3. /\ challenge'[c].state = "presented"
      /\ \A d \in Challenges : d # c => challenge'[d] = challenge[d]
  BY <1>2 DEF Inv, ChallengeInv, ChallengeRow
<1>4. PhaseOf(c) = "new" /\ PhaseOf(c)' = "open"
  BY <1>2, <1>3 DEF PhaseOf
<1>5. Phase[c] = "new" /\ Phase' = [Phase EXCEPT ![c] = "open"]
  BY <1>3, <1>4, PhaseMoves DEF Phase
<1>6. UNCHANGED Tie
  BY <1>2 DEF Tie, TieOf
<1> QED BY <1>5, <1>6 DEF Promise!Present, Promise!Move

\* completeChallenge uses an open challenge for one tie of its owner, voids it
\* or leaves all as it is.
LEMMA CompleteRefines ==
  ASSUME Inv, NEW r \in Requests, CompleteChallenge(r)
  PROVE  \/ \E c \in Challenges, i \in Identities : Promise!Use(c, i)
         \/ \E c \in Challenges : Promise!Void(c)
         \/ UNCHANGED <<Phase, Tie>>
<1>1. PICK c \in Challenges : c = req[r].c
  BY RequestFacts DEF CompleteChallenge, At
<1>2. CASE ReplayOrRefuse(r)
  BY <1>2 DEF ReplayOrRefuse, Phase, PhaseOf, Tie, TieOf
<1>3. CASE ExpireInstead(r)
  BY <1>1, <1>3, VoidRefines DEF ExpireInstead, Voids
<1>4. CASE Consume(r)
  <2>1. PICK i \in Identities : i = req[r].token.id
    BY RequestFacts DEF CompleteChallenge, At, LocalsOK, Signed, Token
  <2>2. PICK a \in Accounts : a = Owner[c]
    BY LinkAssumption
  <2> DEFINE row == [state |-> "consumed", token |-> req[r].token]
             new == [state |-> "active", proof |-> c, rev |-> req[r].rev,
                     floor |-> link[a][i].floor]
  <2>3. /\ challenge[c].state = "presented"
        /\ challenge' = [challenge EXCEPT ![c] = row]
        /\ link' = [link EXCEPT ![a][i] = new]
    BY <1>1, <1>4, <2>1, <2>2 DEF Consume, Consumed, LinkedBy
  <2>4. row.state = "consumed" /\ new.state = "active"
    OBVIOUS
  <2> HIDE DEF row, new
  <2>5. /\ challenge'[c].state = "consumed"
        /\ \A d \in Challenges : d # c => challenge'[d] = challenge[d]
    BY <2>3, <2>4 DEF Inv, ChallengeInv
  <2>6. /\ link'[a][i].state = "active"
        /\ \A b \in Accounts, j \in Identities : b # a \/ j # i =>
             link'[b][j] = link[b][j]
    BY <2>3, <2>4 DEF Inv, LinkInv
  <2>7. PhaseOf(c) = "open" /\ PhaseOf(c)' = "used"
    BY <2>3, <2>5 DEF PhaseOf
  <2>8. TieOf(a, i)' = "active"
    BY <2>6 DEF TieOf
  <2>9. Phase[c] = "open" /\ Phase' = [Phase EXCEPT ![c] = "used"]
    BY <2>5, <2>7, PhaseMoves DEF Phase
  <2>10. Tie' = [Tie EXCEPT ![Owner[c]][i] = "active"]
    BY <2>2, <2>6, <2>8, TieMoves
  <2> QED BY <2>9, <2>10 DEF Promise!Use, Promise!Move
<1> QED BY <1>2, <1>3, <1>4 DEF CompleteChallenge

\* unlink closes a tie.
LEMMA UnlinkRefines ==
  ASSUME Inv, NEW a \in Accounts, NEW i \in Identities, Unlink(a, i)
  PROVE  Promise!Close(a, i)
<1> DEFINE row == [link[a][i] EXCEPT !.state = "unlinked"]
<1>1. /\ link' = [link EXCEPT ![a][i] = row] /\ UNCHANGED challenge
      /\ link[a][i].state \notin {"none", "unlinked"}
  BY DEF Unlink
<1>2. link[a][i] \in LinkRow /\ link \in [Accounts -> [Identities -> LinkRow]]
  BY DEF Inv, LinkInv
<1>3. row.state = "unlinked" /\ link[a][i].state \in {"active", "revalidation_required"}
  BY <1>1, <1>2 DEF LinkRow, LinkStates
<1> HIDE DEF row
<1>4. /\ link'[a][i].state = "unlinked"
      /\ \A b \in Accounts, j \in Identities : b # a \/ j # i => link'[b][j] = link[b][j]
  BY <1>1, <1>2, <1>3
<1>5. TieOf(a, i) \in {"active", "stale"} /\ TieOf(a, i)' = "closed"
  BY <1>3, <1>4 DEF TieOf
<1>6. Tie[a][i] \in {"active", "stale"} /\ Tie' = [Tie EXCEPT ![a][i] = "closed"]
  BY <1>4, <1>5, TieMoves DEF Tie
<1>7. UNCHANGED Phase
  BY <1>1 DEF Phase, PhaseOf
<1> QED BY <1>6, <1>7 DEF Promise!Close

\* requireRevalidation casts doubt on every active tie of the identity.
LEMMA RevalidationRefines ==
  ASSUME Inv, NEW i \in Identities, RequireRevalidation(i)
  PROVE  Promise!Doubt(i)
<1>0. link \in [Accounts -> [Identities -> LinkRow]] /\ UNCHANGED challenge
  BY DEF Inv, LinkInv, RequireRevalidation
<1>1. link' = [a \in Accounts |-> [link[a] EXCEPT ![i] = Demoted(link[a][i], i)]]
  BY DEF RequireRevalidation
<1>2. ASSUME NEW a \in Accounts, NEW j \in Identities, j # i
      PROVE  TieOf(a, j)' = TieOf(a, j)
  BY <1>0, <1>1, <1>2 DEF TieOf
<1>3. ASSUME NEW a \in Accounts
      PROVE  TieOf(a, i)' = IF TieOf(a, i) = "active" THEN "stale" ELSE TieOf(a, i)
  <2>1. link[a][i] \in LinkRow /\ link'[a][i] = Demoted(link[a][i], i)
    BY <1>0, <1>1
  <2>2. CASE link[a][i].state = "active"
    BY <2>1, <2>2 DEF TieOf, Demoted, LinkRow
  <2>3. CASE link[a][i].state # "active"
    <3>1. link'[a][i] = link[a][i]
      BY <2>1, <2>3 DEF Demoted
    <3>2. TieOf(a, i) # "active"
      BY <2>1, <2>3 DEF TieOf, LinkRow, LinkStates
    <3> QED BY <3>1, <3>2 DEF TieOf
  <2> QED BY <2>2, <2>3
<1>4. Tie' = [a \in Accounts |-> [Tie[a] EXCEPT ![i] =
                IF Tie[a][i] = "active" THEN "stale" ELSE Tie[a][i]]]
  BY <1>2, <1>3 DEF Tie
<1>5. UNCHANGED Phase
  BY <1>0 DEF Phase, PhaseOf
<1> QED BY <1>4, <1>5 DEF Promise!Doubt

\* Every step of wallet linking is a step of LinkPromise, or changes nothing
\* that it speaks of.
LEMMA StepRefines ==
  ASSUME Inv, [Next]_vars
  PROVE  [Promise!Next]_<<Phase, Tie>>
<1>u. UNCHANGED <<challenge, link>> => UNCHANGED <<Phase, Tie>>
  BY DEF Phase, PhaseOf, Tie, TieOf
<1>1. CASE Environment
  BY <1>1, <1>u DEF Environment, store
<1>2. ASSUME NEW r \in Requests, NEW c \in Challenges,
             BeginRequest(r, c) \/ PollRequest(r, c) \/ CancelRequest(r, c)
      PROVE  UNCHANGED <<Phase, Tie>>
  BY <1>2, <1>u DEF BeginRequest, PollRequest, CancelRequest, store
<1>3. ASSUME NEW r \in Requests, Step(r) PROVE Promise!Next \/ UNCHANGED <<Phase, Tie>>
  <2>1. CASE InsertChallenge(r)
    BY <2>1, InsertRefines DEF Promise!Next
  <2>2. CASE CompleteChallenge(r)
    BY <2>2, CompleteRefines DEF Promise!Next
  <2>3. CASE PollFirst(r) \/ PollAgain(r) \/ CancelChallenge(r)
    <3>1. PICK c \in Challenges : c = req[r].c
      BY <2>3, RequestFacts DEF PollFirst, PollAgain, CancelChallenge, At
    <3>2. Voids(c) /\ UNCHANGED link
      BY <2>3, <3>1 DEF PollFirst, PollAgain, CancelChallenge, AfterPoll, Voids
    <3> QED BY <3>2, VoidRefines DEF Promise!Next
  <2>4. CASE \/ CreateHosted(r) \/ FetchResult(r) \/ ReadIdentity(r)
             \/ \E reached, answered \in BOOLEAN : AckResult(r, reached, answered)
    BY <1>u, <2>4 DEF CreateHosted, FetchResult, ReadIdentity, AckResult, store
  <2> QED BY <1>3, <2>1, <2>2, <2>3, <2>4 DEF Step
<1>4. ASSUME NEW r \in Requests, Abort(r) PROVE UNCHANGED <<Phase, Tie>>
  BY <1>4, <1>u DEF Abort, store
<1>5. ASSUME NEW a \in Accounts, NEW i \in Identities, Unlink(a, i) PROVE Promise!Next
  BY <1>5, UnlinkRefines DEF Promise!Next
<1>6. ASSUME NEW i \in Identities, RequireRevalidation(i) PROVE Promise!Next
  BY <1>6, RevalidationRefines DEF Promise!Next
<1>7. CASE UNCHANGED vars
  BY <1>7, <1>u DEF vars
<1> QED BY <1>1, <1>2, <1>3, <1>4, <1>5, <1>6, <1>7 DEF Next

\* Wallet linking implements LinkPromise: a challenge is used at most once and
\* only while it is open, a use ties its owner to one identity, nothing but a
\* use renews a tie, and what is closed stays closed.
THEOREM LinkKeepsPromise == Spec => KeepsLinkPromise
<1>1. Init => Promise!Init
  BY DEF Init, Promise!Init, Phase, PhaseOf, Tie, TieOf, NoLink
<1>2. Inv /\ [Next]_vars => [Promise!Next]_<<Phase, Tie>>
  BY StepRefines
<1> QED BY <1>1, <1>2, InvHolds, PTL DEF Spec, KeepsLinkPromise, Promise!Spec
=============================================================================
