------------------------------ MODULE Accounts ------------------------------
(***************************************************************************)
(* Accounts of the two trust domains: sessions, challenges, passkeys and   *)
(* verified addresses (packages/auth/src: session.ts, passkey.ts,          *)
(* email-recovery.ts, account-security.ts; packages/db/src/                *)
(* auth-repository.ts).                                                    *)
(*                                                                         *)
(* A service method makes several calls of the repository, each of which   *)
(* is one transaction; req holds what a request carries from one call to   *)
(* the next.  Requests interleave between their calls and may die there.   *)
(* Whoever holds a token may present it: a pending challenge can be        *)
(* consumed by any request.  A session and a passkey remember, for the     *)
(* properties only, the challenge that they were granted for (via).        *)
(*                                                                         *)
(* Rate limits and the checks of WebAuthn are external: they only refuse,  *)
(* and a refused request takes no step or stops where it is.               *)
(***************************************************************************)
EXTENDS Naturals, FiniteSets, Sequences

CONSTANTS Accounts, Emails, Committees, Staff, Requests,
          FirstEmail,      \* the address each account was registered with
          MaxSessions, MaxChallenges, MaxPasskeys,   \* bounds: rows
          ChallengeLife,   \* lifetimeMs, challengeLifetimeMs, grantLifetimeMs
          IdleLife, AbsoluteLife,   \* idleTimeoutMs, absoluteTimeoutMs
          RecentWindow,    \* privilegedReauthenticationMs
          MaxTime,         \* bound: the clock
          None

Domains == {"participant", "committee"}
AccountStates == {"invited", "active", "locked", "suspended"}
Kinds == {"email_sign_in", "account_recovery", "recovery_grant", "email_change",
          "passkey_registration", "passkey_authentication"}
Times == 0 .. MaxTime

\* The columns of the tables.
AccountRow == [domain : Domains, state : AccountStates]
AccessRow == [state : {"none", "invited", "approved", "active"},
              inviter : Staff \cup {None}]
ContactRow == [account : Accounts, enabled : BOOLEAN]
SessionRow == [account : Accounts, strength : {"email", "passkey"},
               state : {"active", "revoked"}, since : Times, idle : Nat,
               absolute : Nat, via : Nat]
ChallengeRow == [kind : Kinds, account : Accounts \cup {None}, domain : Domains,
                 email : Emails \cup {None}, expires : Nat,
                 state : {"pending", "consumed"}]
PasskeyRow == [account : Accounts, state : {"active", "revoked"},
               via : Nat \cup {None}]

\* Two accounts are not registered with one address: lookup_digest is unique.
\* None stands for NULL, and for a row that is not there.
ASSUME AccountsAssumption ==
  /\ {MaxSessions, MaxChallenges, MaxPasskeys, RecentWindow, MaxTime} \subseteq Nat
  /\ {ChallengeLife, IdleLife, AbsoluteLife} \subseteq Nat \ {0}
  /\ IdleLife <= AbsoluteLife
  /\ FirstEmail \in [Accounts -> Emails]
  /\ \A a, b \in Accounts : FirstEmail[a] = FirstEmail[b] => a = b
  /\ None \notin Accounts \cup Emails \cup ContactRow \cup Nat

VARIABLES now,
          account,     \* auth_account rows
          access,      \* auth_committee_access rows
          contact,     \* contact_preference rows, by lookup_digest
          session,     \* auth_session rows, in the order of their creation
          challenge,   \* auth_challenge rows
          passkey,     \* passkey_metadata rows
          req          \* what the requests are about to do

tables == <<account, access, contact, session, challenge, passkey>>
vars == <<now, tables, req>>

\* Each table holds what its columns may hold, and its CHECK constraints.
TypeOK ==
  /\ now \in Times
  /\ account \in [Accounts -> AccountRow]
  /\ access \in [Accounts -> [Committees -> AccessRow]]
  /\ contact \in [Emails -> ContactRow \cup {None}]
  /\ session \in Seq(SessionRow)
  /\ \A s \in DOMAIN session :
       session[s].since <= session[s].idle /\ session[s].idle <= session[s].absolute
  /\ challenge \in Seq(ChallengeRow)
  /\ \A k \in DOMAIN challenge :
       /\ (challenge[k].account = None) = (challenge[k].kind = "passkey_authentication")
       /\ (challenge[k].email # None) =
            (challenge[k].kind \in {"email_sign_in", "account_recovery", "email_change"})
  /\ passkey \in Seq(PasskeyRow)

\* createAccount and registerVerifiedEmail have run: a participant is active
\* and has a passkey from earlier, a committee account awaits its activation.
Init ==
  /\ now = 0
  /\ account \in [Accounts -> {[domain |-> "participant", state |-> "active"],
                               [domain |-> "committee", state |-> "invited"]}]
  /\ access = [a \in Accounts |->
                 [m \in Committees |-> [state |-> "none", inviter |-> None]]]
  /\ contact = [e \in Emails |->
                  IF \E a \in Accounts : FirstEmail[a] = e
                  THEN [account |-> CHOOSE a \in Accounts : FirstEmail[a] = e,
                        enabled |-> TRUE]
                  ELSE None]
  /\ session = <<>>
  /\ challenge = <<>>
  /\ passkey = IF \E a \in Accounts : account[a].domain = "participant"
               THEN <<[account |-> CHOOSE a \in Accounts :
                                     account[a].domain = "participant",
                       state |-> "active", via |-> None]>>
               ELSE <<>>
  /\ req = [r \in Requests |-> None]

-----------------------------------------------------------------------------
(* Requests.                                                               *)

Idle(r) == req[r] = None
At(r, pc) == req[r] # None /\ req[r].pc = pc
Stop(r) == req' = [req EXCEPT ![r] = None]

\* The request goes on with another call, about the same things.
Continue(r, pc) == req' = [req EXCEPT ![r].pc = pc]

Arrive(r, pc, a, kind, about) ==
  /\ Idle(r)
  /\ req' = [req EXCEPT ![r] = [pc |-> pc, account |-> a, kind |-> kind,
                                about |-> about, at |-> now, via |-> None]]
  /\ UNCHANGED <<now, tables>>

\* The process that serves the request dies between two calls.
Die(r) ==
  /\ ~Idle(r)
  /\ Stop(r)
  /\ UNCHANGED <<now, tables>>

Active(a) == account[a].state = "active"
Participant(a) == account[a].domain = "participant"
ActivePasskeys(a) ==
  {p \in DOMAIN passkey : passkey[p].account = a /\ passkey[p].state = "active"}

\* A session that authenticate accepts, and that passes
\* requireRecentStrongAuthentication.
RecentlyReauthenticated(a) ==
  \E s \in DOMAIN session :
    /\ session[s].account = a /\ session[s].state = "active" /\ Active(a)
    /\ now < session[s].idle /\ now < session[s].absolute
    /\ session[s].strength = "passkey"
    /\ now - session[s].since <= RecentWindow

-----------------------------------------------------------------------------
(* Challenges: createChallenge and consume.                                *)

\* The first half of EmailRecoveryService.begin: who is eligible is read here.
BeginEmail(r, kind, e) ==
  /\ contact[e] # None /\ contact[e].enabled
  /\ LET a == contact[e].account IN
     /\ kind = "email_sign_in" => Participant(a) /\ Active(a)
     /\ kind = "account_recovery" => account[a].state \in {"active", "locked"}
     /\ Arrive(r, "create", a, kind, e)

BeginEmailChange(r, a, e) ==
  /\ RecentlyReauthenticated(a)
  /\ Arrive(r, "create", a, "email_change", e)

\* beginRegistration, for the reasons other than a recovery grant: the first
\* passkey of the account, or a session that has just used one.
BeginRegistration(r, a) ==
  /\ \/ ActivePasskeys(a) = {} /\ Participant(a)
     \/ /\ ActivePasskeys(a) = {} /\ ~Participant(a)
        /\ \E m \in Committees : access[a][m].state \in {"approved", "active"}
     \/ RecentlyReauthenticated(a)
  /\ Arrive(r, "create", a, "passkey_registration", None)

BeginAuthentication(r, domain) ==
  Arrive(r, "create", None, "passkey_authentication", domain)

CreateChallenge(r) ==
  LET q == req[r]
      domain == IF q.account = None THEN q.about ELSE account[q.account].domain IN
  /\ At(r, "create")
  /\ Len(challenge) < MaxChallenges
  /\ challenge' = Append(challenge,
       [kind |-> q.kind, account |-> q.account, domain |-> domain,
        email |-> IF q.account = None THEN None ELSE q.about,
        expires |-> q.at + ChallengeLife, state |-> "pending"])
  /\ Stop(r)
  /\ UNCHANGED <<now, account, access, contact, session, passkey>>

\* Mutant: a challenge that was consumed is accepted again.
ConsumableAgain(k) == challenge[k].expires > now

Consumable(k) == challenge[k].state = "pending" /\ challenge[k].expires > now

\* The call that each method makes after it has consumed its challenge.
AfterConsume ==
  [email_sign_in |-> "issue", account_recovery |-> "recover",
   recovery_grant |-> "register", email_change |-> "change",
   passkey_registration |-> "save", passkey_authentication |-> "find"]

ConsumeChallenge(r, k) ==
  /\ Idle(r)
  /\ Consumable(k)
  /\ challenge' = [challenge EXCEPT ![k].state = "consumed"]
  /\ req' = [req EXCEPT ![r] =
       [pc |-> AfterConsume[challenge[k].kind], account |-> challenge[k].account,
        kind |-> challenge[k].kind, about |-> challenge[k].email,
        at |-> now, via |-> k]]
  /\ UNCHANGED <<now, account, access, contact, session, passkey>>

-----------------------------------------------------------------------------
(* Sessions.                                                               *)

Revoked(a) ==
  [s \in DOMAIN session |->
     IF session[s].account = a THEN [session[s] EXCEPT !.state = "revoked"]
     ELSE session[s]]

\* issue with a prior session: that one is revoked first.
RotateSession(r, s) ==
  /\ At(r, "issue")
  /\ session[s].account = req[r].account
  /\ session' = [session EXCEPT ![s].state = "revoked"]
  /\ Continue(r, "insert")
  /\ UNCHANGED <<now, account, access, contact, challenge, passkey>>

\* Mutant: the state of the account is not read again.
MayHoldSessionAny(a, strength) == Participant(a) \/ strength = "passkey"

\* The account is active, and a committee account shows a passkey.
MayHoldSession(a, strength) ==
  Active(a) /\ (Participant(a) \/ strength = "passkey")

CreateSession(r) ==
  LET q == req[r]
      strength == IF q.kind = "email_sign_in" THEN "email" ELSE "passkey" IN
  /\ At(r, "issue") \/ At(r, "insert")
  /\ Len(session) < MaxSessions
  /\ session' = IF MayHoldSession(q.account, strength)
                THEN Append(session,
                       [account |-> q.account, strength |-> strength,
                        state |-> "active", since |-> q.at,
                        idle |-> q.at + IdleLife,
                        absolute |-> q.at + AbsoluteLife, via |-> q.via])
                ELSE session
  /\ Stop(r)
  /\ UNCHANGED <<now, account, access, contact, challenge, passkey>>

\* The first half of authenticate: the session is found, with its account
\* active, and is in time or not.
Authenticate(r, s) ==
  /\ session[s].state = "active"
  /\ Active(session[s].account)
  /\ Arrive(r, IF now < session[s].idle /\ now < session[s].absolute
               THEN "touch" ELSE "expire", session[s].account, None, s)

\* Mutant: the idle time is counted past the absolute end.
NextIdleUncapped(s, at) == at + IdleLife

NextIdle(s, at) ==
  IF at + IdleLife < session[s].absolute THEN at + IdleLife ELSE session[s].absolute

\* Mutant: a session that was revoked meanwhile is touched.
TouchAny(r) ==
  /\ At(r, "touch")
  /\ LET s == req[r].about IN
     session' = [session EXCEPT ![s].idle = NextIdle(s, req[r].at)]
  /\ Stop(r)
  /\ UNCHANGED <<now, account, access, contact, challenge, passkey>>

Touch(r) ==
  /\ At(r, "touch")
  /\ LET s == req[r].about IN
     session' = IF session[s].state = "active"
                THEN [session EXCEPT ![s].idle = NextIdle(s, req[r].at)]
                ELSE session
  /\ Stop(r)
  /\ UNCHANGED <<now, account, access, contact, challenge, passkey>>

ExpireSession(r) ==
  /\ At(r, "expire")
  /\ session' = [session EXCEPT ![req[r].about].state = "revoked"]
  /\ Stop(r)
  /\ UNCHANGED <<now, account, access, contact, challenge, passkey>>

RevokeAll(a) ==
  /\ session' = Revoked(a)
  /\ UNCHANGED <<now, account, access, contact, challenge, passkey, req>>

-----------------------------------------------------------------------------
(* Passkeys.                                                               *)

\* beginRegistration with a recovery grant, which participants have.
RegisterWithGrant(r) ==
  /\ At(r, "register")
  /\ req' = [req EXCEPT ![r].pc = "create", ![r].kind = "passkey_registration",
                        ![r].about = None]
  /\ UNCHANGED <<now, tables>>

SaveCredential(r) ==
  /\ At(r, "save")
  /\ Len(passkey) < MaxPasskeys
  /\ passkey' = IF Active(req[r].account)
                THEN Append(passkey, [account |-> req[r].account,
                                      state |-> "active", via |-> req[r].via])
                ELSE passkey
  /\ Stop(r)
  /\ UNCHANGED <<now, account, access, contact, session, challenge>>

\* findActive: the credential that signed, in the challenge's trust domain.
FindCredential(r, p) ==
  LET a == passkey[p].account IN
  /\ At(r, "find")
  /\ passkey[p].state = "active" /\ Active(a)
  /\ account[a].domain = challenge[req[r].via].domain
  /\ req' = [req EXCEPT ![r].pc = "usage", ![r].account = a, ![r].about = p]
  /\ UNCHANGED <<now, tables>>

\* updateUsage is refused when the credential was revoked since.
UpdateUsage(r) ==
  /\ At(r, "usage")
  /\ IF passkey[req[r].about].state = "active" THEN Continue(r, "issue") ELSE Stop(r)
  /\ UNCHANGED <<now, tables>>

\* The first half of revokeCredential: the passkeys are counted here.
BeginRevoke(r, p, alternate) ==
  LET a == passkey[p].account IN
  /\ RecentlyReauthenticated(a)
  /\ Cardinality(ActivePasskeys(a)) > 1 \/ alternate
  /\ Arrive(r, "revoke", a, None, p)

RevokeCredential(r) ==
  /\ At(r, "revoke")
  /\ passkey' = [passkey EXCEPT ![req[r].about].state = "revoked"]
  /\ Stop(r)
  /\ UNCHANGED <<now, account, access, contact, session, challenge>>

-----------------------------------------------------------------------------
(* The account.                                                            *)

\* recoverAndRevokeSessions; a participant then gets a recovery grant, a
\* committee account waits for review.
Recover(r) ==
  LET a == req[r].account IN
  /\ At(r, "recover")
  /\ IF account[a].state \in {"active", "locked"}
     THEN /\ session' = Revoked(a)
          /\ account' = [account EXCEPT ![a].state =
                           IF Participant(a) THEN "active" ELSE "suspended"]
          /\ IF Participant(a)
             THEN req' = [req EXCEPT ![r].pc = "create", ![r].kind = "recovery_grant",
                                     ![r].about = None]
             ELSE Stop(r)
     ELSE Stop(r) /\ UNCHANGED <<account, session>>
  /\ UNCHANGED <<now, access, contact, challenge, passkey>>

LockAccount(a) ==
  /\ Active(a)
  /\ session' = Revoked(a)
  /\ account' = [account EXCEPT ![a].state = "locked"]
  /\ UNCHANGED <<now, access, contact, challenge, passkey, req>>

\* An address that any row ever had is refused by the unique index.
ChangeVerifiedEmail(r) ==
  LET a == req[r].account
      e == req[r].about IN
  /\ At(r, "change")
  /\ IF Active(a) /\ contact[e] = None
     THEN /\ contact' = [f \in Emails |->
               IF f = e THEN [account |-> a, enabled |-> TRUE]
               ELSE IF contact[f] # None /\ contact[f].account = a
               THEN [contact[f] EXCEPT !.enabled = FALSE]
               ELSE contact[f]]
          /\ session' = Revoked(a)
     ELSE UNCHANGED <<contact, session>>
  /\ Stop(r)
  /\ UNCHANGED <<now, account, access, challenge, passkey>>

InviteCommittee(a, m, by) ==
  /\ ~Participant(a)
  /\ access[a][m].state = "none"
  /\ access' = [access EXCEPT ![a][m] = [state |-> "invited", inviter |-> by]]
  /\ UNCHANGED <<now, account, contact, session, challenge, passkey, req>>

\* The CHECK of the table wants another person's approval.
ApproveCommittee(a, m, by) ==
  /\ access[a][m].state = "invited"
  /\ by # access[a][m].inviter
  /\ access' = [access EXCEPT ![a][m].state = "approved"]
  /\ UNCHANGED <<now, account, contact, session, challenge, passkey, req>>

\* The account becomes active, whatever state it was in.
ActivateCommittee(a, m) ==
  /\ access[a][m].state = "approved"
  /\ access' = [access EXCEPT ![a][m].state = "active"]
  /\ account' = [account EXCEPT ![a].state = "active"]
  /\ UNCHANGED <<now, contact, session, challenge, passkey, req>>

Tick ==
  /\ now < MaxTime
  /\ now' = now + 1
  /\ UNCHANGED <<tables, req>>

-----------------------------------------------------------------------------
Step(r) ==
  \/ Die(r)
  \/ CreateChallenge(r)
  \/ \E k \in DOMAIN challenge : ConsumeChallenge(r, k)
  \/ \E s \in DOMAIN session : RotateSession(r, s)
  \/ CreateSession(r)
  \/ \E s \in DOMAIN session : Authenticate(r, s)
  \/ Touch(r)
  \/ ExpireSession(r)
  \/ RegisterWithGrant(r)
  \/ SaveCredential(r)
  \/ \E p \in DOMAIN passkey : FindCredential(r, p)
  \/ UpdateUsage(r)
  \/ \E p \in DOMAIN passkey, alternate \in BOOLEAN : BeginRevoke(r, p, alternate)
  \/ RevokeCredential(r)
  \/ Recover(r)
  \/ ChangeVerifiedEmail(r)

Begin(r) ==
  \/ \E e \in Emails, kind \in {"email_sign_in", "account_recovery"} :
       BeginEmail(r, kind, e)
  \/ \E a \in Accounts, e \in Emails : BeginEmailChange(r, a, e)
  \/ \E a \in Accounts : BeginRegistration(r, a)
  \/ \E a \in Accounts : BeginAuthentication(r, account[a].domain)

Next ==
  \/ Tick
  \/ \E r \in Requests : Begin(r) \/ Step(r)
  \/ \E a \in Accounts :
       \/ RevokeAll(a)
       \/ LockAccount(a)
       \/ \E m \in Committees : \/ \E by \in Staff : InviteCommittee(a, m, by)
                                \/ \E by \in Staff : ApproveCommittee(a, m, by)
                                \/ ActivateCommittee(a, m)

Spec == Init /\ [][Next]_vars

-----------------------------------------------------------------------------
(* Properties.                                                             *)

\* The tables that a lock, a recovery or a change of address touches in one
\* transaction stay in agreement, although sign-ins that began before it end
\* after it: an active session belongs to an account that is active, and an
\* account has exactly one enabled address.
AccountRowsAgree ==
  /\ \A s \in DOMAIN session :
       session[s].state = "active" => Active(session[s].account)
  /\ \A a \in Accounts :
       Cardinality({e \in Emails : contact[e] # None /\ contact[e].enabled
                                     /\ contact[e].account = a}) = 1

\* Every session and every passkey was granted for a challenge of its own, of
\* the right kind, account and trust domain, which it has used up: a token or
\* a challenge presented twice, by two requests at once or again after a crash,
\* never grants twice.
ProvenOnce ==
  /\ \A s \in DOMAIN session :
       LET k == challenge[session[s].via] IN
       /\ k.state = "consumed"
       /\ k.domain = account[session[s].account].domain
       /\ IF session[s].strength = "passkey" THEN k.kind = "passkey_authentication"
          ELSE k.kind = "email_sign_in" /\ k.account = session[s].account
       /\ k.domain = "committee" => session[s].strength = "passkey"
       /\ \A t \in DOMAIN session : session[t].via = session[s].via => s = t
  /\ \A p \in {p \in DOMAIN passkey : passkey[p].via # None} :
       LET k == challenge[passkey[p].via] IN
       /\ k.state = "consumed"
       /\ k.kind = "passkey_registration" /\ k.account = passkey[p].account
       /\ \A q \in DOMAIN passkey : passkey[q].via = passkey[p].via => p = q

\* What was revoked or used up stays so: a request that had accepted a session
\* or a credential before it was revoked brings neither back, nor extends it.
RevokedIsFinal ==
  [][/\ \A s \in DOMAIN session :
          session[s].state = "revoked" => session'[s] = session[s]
     /\ \A p \in DOMAIN passkey :
          passkey[p].state = "revoked" => passkey'[p] = passkey[p]
     /\ \A k \in DOMAIN challenge :
          challenge[k].state = "consumed" => challenge'[k] = challenge[k]]_vars
=============================================================================
