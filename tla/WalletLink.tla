----------------------------- MODULE WalletLink -----------------------------
(***************************************************************************)
(* Optional VerusID linking: WalletLinkService                             *)
(* (packages/verus-linking/src/service.ts), its client of the hosted       *)
(* service (module HostedAuth) and VerusLinkRepository                     *)
(* (packages/db/src/verus-link-repository.ts).                             *)
(*                                                                         *)
(* An API request is a program counter and the locals of the method; a     *)
(* step is one database transaction or one call of another service.  Its   *)
(* `at` is the `now` the controller reads once: every comparison of the    *)
(* request is made with that instant, however late the step happens.       *)
(* Issue and expiry times of a challenge are written once, equal here and  *)
(* in the hosted service (the client refuses an answer with other times),  *)
(* so both sides read them from `hosted`.                                  *)
(***************************************************************************)
EXTENDS HostedAuth

CONSTANTS Accounts, Owner,   \* Owner[c]: the account that began challenge c
          Requests,          \* API requests in flight at once
          RequestLimit,      \* REQUEST_LIMIT of the window (15 minutes)
          AckTries           \* acknowledgements tried by one poll (3)

ASSUME LinkAssumption ==
  /\ Owner \in [Challenges -> Accounts]
  /\ RequestLimit \in Nat /\ AckTries \in Nat \ {0}

VARIABLES challenge,   \* wallet_challenge rows: state, response
          link,        \* verus_identity_link rows
          hits,        \* auth_rate_limit: begins of the account in the window
          req          \* requests being handled

vars == <<hostedVars, challenge, link, hits, req>>
store == <<challenge, link, hits>>

ChallengeStates == {"none", "presented", "consumed", "expired", "cancelled"}
LinkStates == {"none", "active", "revalidation_required", "unlinked"}
Pcs == {"idle", "create", "insert", "poll", "result", "identity", "complete",
        "ack", "again", "cancel"}

NoRequest == [pc |-> "idle", c |-> None, at |-> 0,
              token |-> None, rev |-> 0, tries |-> 0]

\* floor is not a column: it remembers the revision of the identity that was
\* current when the link was last moved to revalidation_required.
NoLink == [state |-> "none", proof |-> None, rev |-> 0, floor |-> 0]

TypeOK ==
  /\ HostedTypeOK
  /\ challenge \in [Challenges -> [state : ChallengeStates,
                                   token : Token \cup {None}]]
  /\ link \in [Accounts -> [Identities ->
                 [state : LinkStates, proof : Challenges \cup {None},
                  rev : 0 .. MaxRev, floor : 0 .. MaxRev]]]
  /\ hits \in [Accounts -> Nat]
  /\ req \in [Requests -> [pc : Pcs, c : Challenges \cup {None}, at : Times,
                           token : Token \cup {None}, rev : 0 .. MaxRev,
                           tries : 0 .. AckTries]]

Init ==
  /\ HostedInit
  /\ challenge = [c \in Challenges |->
                    [state |-> "none", token |-> None]]
  /\ link = [a \in Accounts |-> [i \in Identities |-> NoLink]]
  /\ hits = [a \in Accounts |-> 0]
  /\ req = [r \in Requests |-> NoRequest]

-----------------------------------------------------------------------------
(* Requests.                                                               *)

At(r, pc) == req[r].pc = pc
Goto(r, pc) == req' = [req EXCEPT ![r].pc = pc]
Finish(r) == req' = [req EXCEPT ![r] = NoRequest]
Arrive(r, pc, c) ==
  /\ At(r, "idle")
  /\ req' = [req EXCEPT ![r] = [NoRequest EXCEPT !.pc = pc, !.c = c, !.at = now]]

\* A request ends early: an error answer, a timeout, a refused transaction or
\* the death of the process.  Nothing that was committed is undone.
Abort(r) ==
  /\ ~At(r, "idle")
  /\ Finish(r)
  /\ UNCHANGED <<hostedVars, store>>

-----------------------------------------------------------------------------
(* begin: rate limit, hosted challenge, local row.                         *)

\* The limiter counts first and refuses after; a new identifier is drawn by the
\* hosted service, so the model fixes it here.
BeginRequest(r, c) ==
  LET a == Owner[c] IN
  /\ ~hosted[c].made
  /\ \A q \in Requests : req[q].pc = "create" => req[q].c # c
  /\ now + ChallengeLife <= MaxTime
  /\ hits[a] <= RequestLimit
  /\ hits' = [hits EXCEPT ![a] = @ + 1]
  /\ IF hits[a] < RequestLimit THEN Arrive(r, "create", c)
     ELSE At(r, "idle") /\ UNCHANGED req
  /\ UNCHANGED <<hostedVars, challenge, link>>

\* preflight of the client: a healthy service of the pinned release.
Preflight == HealthOk

CreateHosted(r) ==
  LET c == req[r].c IN
  /\ At(r, "create")
  /\ Preflight
  /\ NewHostedChallenge(c, req[r].at, req[r].at + ChallengeLife)
  /\ Goto(r, "insert")
  /\ UNCHANGED <<now, chain, cb, store>>

\* Mutant: the row starts in the state the domain's machine begins with.
InsertCreated(r) ==
  /\ At(r, "insert")
  /\ challenge' = [challenge EXCEPT ![req[r].c].state = "created"]
  /\ Finish(r)
  /\ UNCHANGED <<hostedVars, link, hits>>

InsertChallenge(r) ==
  /\ At(r, "insert")
  /\ challenge' = [challenge EXCEPT ![req[r].c].state = "presented"]
  /\ Finish(r)
  /\ UNCHANGED <<hostedVars, link, hits>>

-----------------------------------------------------------------------------
(* poll.                                                                   *)

PollRequest(r, c) ==
  /\ challenge[c].state # "none"
  /\ Arrive(r, "poll", c)
  /\ UNCHANGED <<hostedVars, store>>

ExpiredAt(c, t) == t >= hosted[c].exp

\* Mutant: a poll reports an overdue challenge as presented.
AfterPollUnexpired(c, t) == challenge

\* pollChallenge: a presented challenge whose time is over becomes expired.
AfterPoll(c, t) ==
  IF challenge[c].state = "presented" /\ ExpiredAt(c, t)
  THEN [challenge EXCEPT ![c].state = "expired"] ELSE challenge

PollFirst(r) ==
  LET c == req[r].c IN
  /\ At(r, "poll")
  /\ challenge' = AfterPoll(c, req[r].at)
  /\ IF challenge'[c].state = "presented" THEN Goto(r, "result") ELSE Finish(r)
  /\ UNCHANGED <<hostedVars, link, hits>>

\* verifyJwt, beyond the signature and the bindings to audience, challenge,
\* state and identity, which hold of every token the service signs.
TokenValid(t, c, at) ==
  /\ t.iat >= hosted[c].iss - Skew
  /\ t.iat <= at + Skew
  /\ t.exp > at
  /\ t.exp <= hosted[c].exp + Skew
  /\ t.exp > t.iat

\* challengeForPoll and getResult; pending and refused results end the request.
FetchResult(r) ==
  LET c == req[r].c
      t == GetResult(c)
  IN /\ At(r, "result")
     /\ IF t # None /\ TokenValid(t, c, req[r].at)
        THEN req' = [req EXCEPT ![r].pc = "identity", ![r].token = t]
        ELSE Finish(r)
     /\ UNCHANGED <<hostedVars, store>>

\* The identity the token names, as read from the application's own node.
ReadIdentity(r) ==
  LET i == req[r].token.id IN
  /\ At(r, "identity")
  /\ IF chain[i].active
     THEN req' = [req EXCEPT ![r].pc = "complete", ![r].rev = chain[i].rev]
     ELSE Finish(r)
  /\ UNCHANGED <<hostedVars, store>>

\* The row of (account, identity) is inserted or overwritten, whatever its state.
LinkedBy(r) ==
  LET c == req[r].c IN
  [link EXCEPT ![Owner[c]][req[r].token.id] =
     [state |-> "active", proof |-> c, rev |-> req[r].rev, floor |-> @.floor]]

\* From here on the request has no use for the identity it read.
Completed(r) == req' = [req EXCEPT ![r].pc = "ack", ![r].rev = 0]

Consumed(r) ==
  [challenge EXCEPT ![req[r].c] =
     [state |-> "consumed", token |-> req[r].token]]

\* A consumed challenge answers a repetition of the same response (and lets the
\* request go on to the acknowledgement); every other one is refused.
ReplayOrRefuse(r) ==
  LET row == challenge[req[r].c] IN
  /\ row.state # "presented"
  /\ IF row.state = "consumed" /\ row.token = req[r].token
     THEN Completed(r) ELSE Finish(r)
  /\ UNCHANGED <<challenge, link>>

ExpireInstead(r) ==
  /\ challenge[req[r].c].state = "presented"
  /\ ExpiredAt(req[r].c, req[r].at)
  /\ challenge' = [challenge EXCEPT ![req[r].c].state = "expired"]
  /\ Finish(r)
  /\ UNCHANGED link

\* Mutant: the second half of the transaction without its state test.
ConsumeAgain(r) ==
  /\ ~ExpiredAt(req[r].c, req[r].at)
  /\ challenge' = Consumed(r) /\ link' = LinkedBy(r)
  /\ Completed(r)

Consume(r) ==
  /\ challenge[req[r].c].state = "presented"
  /\ ~ExpiredAt(req[r].c, req[r].at)
  /\ challenge' = Consumed(r) /\ link' = LinkedBy(r)
  /\ Completed(r)

CompleteChallenge(r) ==
  /\ At(r, "complete")
  /\ ReplayOrRefuse(r) \/ ExpireInstead(r) \/ Consume(r)
  /\ UNCHANGED <<hostedVars, hits>>

\* One of at most three acknowledgements: the service may be reached or not,
\* and its answer may be lost.
AckResult(r, reached, answered) ==
  LET done == reached /\ Acknowledges(req[r].c, req[r].token) IN
  /\ At(r, "ack")
  /\ hosted' = IF done THEN Acknowledge(req[r].c) ELSE hosted
  /\ IF (done /\ answered) \/ req[r].tries + 1 = AckTries
     THEN req' = [req EXCEPT ![r] = [NoRequest EXCEPT
                    !.pc = "again", !.c = req[r].c, !.at = req[r].at]]
     ELSE req' = [req EXCEPT ![r].tries = @ + 1]
  /\ UNCHANGED <<now, chain, cb, store>>

PollAgain(r) ==
  /\ At(r, "again")
  /\ challenge' = AfterPoll(req[r].c, req[r].at)
  /\ Finish(r)
  /\ UNCHANGED <<hostedVars, link, hits>>

-----------------------------------------------------------------------------
(* cancel, unlink and the operator's requireRevalidation.                  *)

CancelRequest(r, c) ==
  /\ challenge[c].state # "none"
  /\ Arrive(r, "cancel", c)
  /\ UNCHANGED <<hostedVars, store>>

CancelChallenge(r) ==
  LET c == req[r].c IN
  /\ At(r, "cancel")
  /\ challenge' =
       IF challenge[c].state # "presented" THEN challenge
       ELSE [challenge EXCEPT ![c].state =
               IF ExpiredAt(c, req[r].at) THEN "expired" ELSE "cancelled"]
  /\ Finish(r)
  /\ UNCHANGED <<hostedVars, link, hits>>

Unlink(a, i) ==
  /\ link[a][i].state \notin {"none", "unlinked"}
  /\ link' = [link EXCEPT ![a][i].state = "unlinked"]
  /\ UNCHANGED <<hostedVars, challenge, hits, req>>

Demoted(row, i) ==
  IF row.state = "active"
  THEN [row EXCEPT !.state = "revalidation_required", !.floor = chain[i].rev]
  ELSE row

\* Called for an identity that was seen recovered, revoked or revised.
RequireRevalidation(i) ==
  /\ chain[i].rev > 0
  /\ \E a \in Accounts : link[a][i].state = "active"
  /\ link' = [a \in Accounts |-> [link[a] EXCEPT ![i] = Demoted(@, i)]]
  /\ UNCHANGED <<hostedVars, challenge, hits, req>>

-----------------------------------------------------------------------------
Environment ==
  /\ \/ Tick
     \/ \E i \in Identities : IdentityChanges(i)
     \/ \E b \in Callbacks, c \in Challenges, i \in Identities :
          WalletAnswers(b, c, i)
     \/ \E b \in Callbacks : StoreResult(b) \/ CallbackFails(b)
  /\ UNCHANGED <<store, req>>

Step(r) ==
  \/ CreateHosted(r) \/ InsertChallenge(r)
  \/ PollFirst(r) \/ FetchResult(r) \/ ReadIdentity(r) \/ CompleteChallenge(r)
  \/ \E reached, answered \in BOOLEAN : AckResult(r, reached, answered)
  \/ PollAgain(r) \/ CancelChallenge(r)

Next ==
  \/ Environment
  \/ \E r \in Requests, c \in Challenges :
       BeginRequest(r, c) \/ PollRequest(r, c) \/ CancelRequest(r, c)
  \/ \E r \in Requests : Step(r) \/ Abort(r)
  \/ \E a \in Accounts, i \in Identities : Unlink(a, i)
  \/ \E i \in Identities : RequireRevalidation(i)

Spec == Init /\ [][Next]_vars

\* What a deployment owes its users: the clock runs, every call it awaits is
\* answered or times out, an owner who waits for a challenge polls it again and
\* again, and of the polls that are tried again and again some reach the
\* database.  Nothing is assumed of the hosted service, the node or the wallet.
PollReaches(c) == \E r \in Requests : req[r].c = c /\ PollFirst(r)
Fairness ==
  /\ WF_vars(Tick /\ UNCHANGED <<store, req>>)
  /\ \A r \in Requests : WF_vars(Step(r) \/ Abort(r))
  /\ \A c \in Challenges :
       /\ SF_vars(\E r \in Requests : PollRequest(r, c))
       /\ SF_vars(PollReaches(c))
FairSpec == Spec /\ Fairness

-----------------------------------------------------------------------------
(* Properties.                                                             *)

\* Every link rests on a challenge of its own account that was consumed by a
\* request that began in time, with a token the hosted service signed for this
\* identity while the challenge was live: whatever polls, cancellations and
\* wallet answers overlap, no challenge is spent on two identities.
LinkProof ==
  \A a \in Accounts, i \in Identities : link[a][i].state # "none" =>
    LET c == link[a][i].proof IN
    /\ c \in Challenges /\ Owner[c] = a
    /\ challenge[c].state = "consumed" /\ challenge[c].token.id = i
    /\ hosted[c].iss <= challenge[c].token.iat
    /\ challenge[c].token.iat < hosted[c].exp

\* The hosted service forgets a result (acknowledgeResult) only when the link
\* made from that very token is durable, so a crash, a lost answer or a result
\* replaced meanwhile never destroys the only proof.
AckedIsDurable ==
  \A c \in Challenges : hosted[c].acked # None =>
    /\ challenge[c].state = "consumed"
    /\ challenge[c].token = hosted[c].acked

\* A result whose three acknowledgements were lost is offered no longer than
\* its challenge lives, and never again once one of them arrived.
OfferedOnlyInTime ==
  \A c \in Challenges : GetResult(c) # None =>
    now < hosted[c].exp /\ hosted[c].acked = None

\* What LinkPromise calls the phase of a challenge and the tie of an account to
\* an identity.
PhaseOf(c) == CASE challenge[c].state = "none" -> "new"
                [] challenge[c].state = "presented" -> "open"
                [] challenge[c].state = "consumed" -> "used"
                [] OTHER -> "void"

TieOf(a, i) == CASE link[a][i].state = "revalidation_required" -> "stale"
                 [] link[a][i].state = "unlinked" -> "closed"
                 [] OTHER -> link[a][i].state

Phase == [c \in Challenges |-> PhaseOf(c)]
Tie == [a \in Accounts |-> [i \in Identities |-> TieOf(a, i)]]

\* Challenges and links behave as LinkPromise says.
Promise == INSTANCE LinkPromise WITH phase <- Phase, tie <- Tie
KeepsLinkPromise == Promise!Spec

\* No challenge stays presented for ever: if its owner keeps polling it is
\* consumed, cancelled or found expired, whatever the hosted service does.
ChallengeSettles ==
  \A c \in Challenges :
    challenge[c].state = "presented" ~> challenge[c].state # "presented"

\* A link that had to be revalidated is active again only on the word of an
\* identity read no older than the revision that cast the doubt
\* (completeChallenge writes the status and block that poll read earlier).
FreshAfterRevalidation ==
  \A a \in Accounts, i \in Identities :
    link[a][i].state = "active" => link[a][i].rev >= link[a][i].floor
=============================================================================
