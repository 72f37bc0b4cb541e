---------------------------- MODULE AccountsProofs --------------------------
(***************************************************************************)
(* Theorems about accounts, for any number of accounts, addresses,         *)
(* committees and concurrent requests, any lifetimes and any clock.        *)
(***************************************************************************)
EXTENDS Accounts, FiniteSetTheorems, SequenceTheorems, TLAPS

\* A session rests on its challenge, which is used up, and an active one on an
\* active account.
SessionOK(s) ==
  /\ s.since <= s.idle /\ s.idle <= s.absolute /\ s.since <= now
  /\ s.state = "active" => Active(s.account)
  /\ s.via \in DOMAIN challenge
  /\ challenge[s.via].state = "consumed"
  /\ challenge[s.via].domain = account[s.account].domain
  /\ IF s.strength = "passkey" THEN challenge[s.via].kind = "passkey_authentication"
     ELSE /\ challenge[s.via].kind = "email_sign_in"
          /\ challenge[s.via].account = s.account
          /\ Participant(s.account)

\* A challenge for an account is of the account's trust domain.
ChallengeOK(k) ==
  /\ (k.account = None) = (k.kind = "passkey_authentication")
  /\ (k.email # None) = (k.kind \in {"email_sign_in", "account_recovery", "email_change"})
  /\ k.account # None => k.domain = account[k.account].domain

PasskeyOK(p) ==
  p.via # None =>
    /\ p.via \in DOMAIN challenge
    /\ challenge[p.via].state = "consumed"
    /\ challenge[p.via].kind = "passkey_registration"
    /\ challenge[p.via].account = p.account

Fields == {"pc", "account", "kind", "about", "at", "via"}

\* What a request that is about to create a challenge carries.
Creates(q) ==
  \/ /\ q.kind \in {"email_sign_in", "account_recovery", "email_change"}
     /\ q.account \in Accounts /\ q.about \in Emails
  \/ /\ q.kind \in {"passkey_registration", "recovery_grant"}
     /\ q.account \in Accounts /\ q.about = None
  \/ /\ q.kind = "passkey_authentication"
     /\ q.account = None /\ q.about \in Domains

\* What one that may be granted a session has proved.
Signed(q) ==
  /\ q.account \in Accounts
  /\ q.via \in DOMAIN challenge
  /\ challenge[q.via].domain = account[q.account].domain
  /\ challenge[q.via].kind = q.kind
  /\ \/ q.kind = "email_sign_in" /\ challenge[q.via].account = q.account
     \/ q.kind = "passkey_authentication"

\* A request carries what its next call needs, and a challenge that is used up.
LocalOK(q) ==
  /\ DOMAIN q = Fields
  /\ q.at \in Times /\ q.at <= now
  /\ q.via # None => q.via \in DOMAIN challenge /\ challenge[q.via].state = "consumed"
  /\ q.pc = "create" => Creates(q)
  /\ q.pc \in {"recover", "register", "change"} => q.account \in Accounts
  /\ q.pc = "change" => q.about \in Emails
  /\ q.pc \in {"issue", "insert", "usage"} => Signed(q)
  /\ q.pc = "save" =>
       /\ q.account \in Accounts /\ q.via \in DOMAIN challenge
       /\ challenge[q.via].kind = "passkey_registration"
       /\ challenge[q.via].account = q.account
  /\ q.pc = "find" =>
       /\ q.kind = "passkey_authentication" /\ q.via \in DOMAIN challenge
       /\ challenge[q.via].kind = "passkey_authentication"
  /\ q.pc \in {"usage", "revoke"} => q.about \in DOMAIN passkey
  /\ q.pc \in {"touch", "expire"} =>
       q.about \in DOMAIN session /\ session[q.about].since <= q.at

Via(r) == IF req[r] = None THEN None ELSE req[r].via

\* No two of the sessions and the requests, and of the passkeys and the
\* requests, hold the same challenge.
SpentOnce ==
  /\ \A s, t \in DOMAIN session : session[s].via = session[t].via => s = t
  /\ \A p, q \in DOMAIN passkey :
       passkey[p].via # None /\ passkey[p].via = passkey[q].via => p = q
  /\ \A r, u \in Requests : Via(r) # None /\ Via(r) = Via(u) => r = u
  /\ \A r \in Requests : Via(r) # None =>
       /\ \A s \in DOMAIN session : session[s].via # Via(r)
       /\ \A p \in DOMAIN passkey : passkey[p].via # Via(r)

Enabled(a) ==
  {e \in Emails : contact[e] # None /\ contact[e].enabled /\ contact[e].account = a}

ContactInv ==
  /\ contact \in [Emails -> ContactRow \cup {None}]
  /\ \A a \in Accounts : \E e \in Emails : Enabled(a) = {e}

AccountInv ==
  /\ now \in Times
  /\ account \in [Accounts -> AccountRow]
  /\ access \in [Accounts -> [Committees -> AccessRow]]

SessionInv ==
  session \in Seq(SessionRow) /\ \A s \in DOMAIN session : SessionOK(session[s])

ChallengeInv ==
  challenge \in Seq(ChallengeRow) /\ \A k \in DOMAIN challenge : ChallengeOK(challenge[k])

PasskeyInv ==
  passkey \in Seq(PasskeyRow) /\ \A p \in DOMAIN passkey : PasskeyOK(passkey[p])

RequestInv ==
  DOMAIN req = Requests /\ \A r \in Requests : req[r] # None => LocalOK(req[r])

Inv == /\ AccountInv /\ ContactInv /\ SessionInv /\ ChallengeInv /\ PasskeyInv
       /\ RequestInv /\ SpentOnce

-----------------------------------------------------------------------------
(* What every step leaves.                                                 *)

\* Times are numbers.
LEMMA TimesNat == Times \subseteq Nat /\ 0 \in Times
  BY AccountsAssumption DEF Times

\* A sequence with other elements of the same kind is one.
LEMMA SameLength ==
  ASSUME NEW S, NEW s \in Seq(S), NEW t, t = [i \in DOMAIN s |-> t[i]],
         \A i \in DOMAIN s : t[i] \in S
  PROVE  t \in Seq(S)
<1>1. DOMAIN s = 1 .. Len(s) /\ Len(s) \in Nat
  BY LenProperties
<1>2. t \in [1 .. Len(s) -> S]
  BY <1>1
<1> QED BY <1>1, <1>2, SeqDef

\* What Append does.
LEMMA Appended ==
  ASSUME NEW S, NEW s \in Seq(S), NEW x \in S, NEW t, t = Append(s, x)
  PROVE  /\ t \in Seq(S) /\ Len(s) + 1 \notin DOMAIN s
         /\ DOMAIN t = DOMAIN s \cup {Len(s) + 1}
         /\ \A i \in DOMAIN s : t[i] = s[i]
         /\ t[Len(s) + 1] = x
  OBVIOUS

\* Time goes on, rows are not deleted, accounts keep their trust domain, and
\* challenges what they are for.
Grows ==
  /\ now' \in Times /\ now <= now'
  /\ \A a \in Accounts : account'[a].domain = account[a].domain
  /\ DOMAIN challenge \subseteq DOMAIN challenge'
  /\ \A k \in DOMAIN challenge :
       /\ challenge'[k].kind = challenge[k].kind
       /\ challenge'[k].account = challenge[k].account
       /\ challenge'[k].domain = challenge[k].domain
       /\ challenge[k].state = "consumed" => challenge'[k].state = "consumed"
  /\ DOMAIN session \subseteq DOMAIN session'
  /\ \A s \in DOMAIN session : session'[s].since = session[s].since
  /\ DOMAIN passkey \subseteq DOMAIN passkey'

\* What a request carries stays good.
LEMMA LocalKept ==
  ASSUME AccountInv, Grows, NEW q, LocalOK(q)
  PROVE  LocalOK(q)'
<1>1. q.at <= now'
  <2>1. q.at \in Nat /\ now \in Nat /\ now' \in Nat /\ q.at <= now /\ now <= now'
    BY TimesNat DEF LocalOK, Grows, AccountInv
  <2> QED BY <2>1
<1>2. q.via \in DOMAIN challenge =>
        /\ q.via \in DOMAIN challenge'
        /\ challenge'[q.via].kind = challenge[q.via].kind
        /\ challenge'[q.via].account = challenge[q.via].account
        /\ challenge'[q.via].domain = challenge[q.via].domain
        /\ challenge[q.via].state = "consumed" => challenge'[q.via].state = "consumed"
  BY DEF Grows
<1>3. q.account \in Accounts => account'[q.account].domain = account[q.account].domain
  BY DEF Grows
<1>4. /\ q.about \in DOMAIN passkey => q.about \in DOMAIN passkey'
      /\ q.about \in DOMAIN session =>
           q.about \in DOMAIN session' /\ session'[q.about].since = session[q.about].since
  BY DEF Grows
<1>5. Signed(q) => Signed(q)'
  BY <1>2, <1>3 DEF Signed
<1> QED BY <1>1, <1>2, <1>4, <1>5 DEF LocalOK, Creates

\* The requests after a step of r.
LEMMA RequestsKept ==
  ASSUME AccountInv, RequestInv, Grows, NEW r \in Requests, DOMAIN req' = Requests,
         \A u \in Requests : u # r => req'[u] = req[u],
         req'[r] # None => LocalOK(req[r])'
  PROVE  RequestInv'
<1>1. ASSUME NEW u \in Requests, u # r, req'[u] # None PROVE LocalOK(req[u])'
  <2>1. PICK q : q = req[u]
    OBVIOUS
  <2>2. req'[u] = q /\ LocalOK(q)
    BY <1>1, <2>1 DEF RequestInv
  <2>3. LocalOK(q)'
    BY <2>2, LocalKept
  <2> QED BY <2>2, <2>3
<1> QED BY <1>1 DEF RequestInv

\* A row of a session after a step that may have touched or revoked it.
LEMMA SessionAfter ==
  ASSUME AccountInv, Grows, NEW s \in SessionRow, SessionOK(s), NEW t \in SessionRow,
         t.account = s.account, t.strength = s.strength, t.since = s.since, t.via = s.via,
         t.since <= t.idle, t.idle <= t.absolute,
         t.state = "active" => account'[t.account].state = "active"
  PROVE  SessionOK(t)'
<1>1. s.account \in Accounts /\ s.since \in Nat /\ now \in Nat /\ now' \in Nat
  BY TimesNat DEF SessionRow, Grows, AccountInv
<1>2. s.since <= now'
  BY <1>1 DEF SessionOK, Grows
<1>3. /\ s.via \in DOMAIN challenge' /\ challenge'[s.via].state = "consumed"
      /\ challenge'[s.via].kind = challenge[s.via].kind
      /\ challenge'[s.via].account = challenge[s.via].account
      /\ challenge'[s.via].domain = challenge[s.via].domain
      /\ account'[s.account].domain = account[s.account].domain
  BY <1>1 DEF SessionOK, Grows
<1> QED BY <1>2, <1>3 DEF SessionOK, Active, Participant

\* A table of sessions of which some were touched or revoked.
LEMMA SessionsAfter ==
  ASSUME AccountInv, SessionInv, Grows,
         session' = [s \in DOMAIN session |-> session'[s]],
         \A s \in DOMAIN session :
           /\ session'[s] \in SessionRow
           /\ session'[s].account = session[s].account
           /\ session'[s].strength = session[s].strength
           /\ session'[s].since = session[s].since
           /\ session'[s].via = session[s].via
           /\ session'[s].since <= session'[s].idle
           /\ session'[s].idle <= session'[s].absolute
           /\ session'[s].state = "active" =>
                account'[session[s].account].state = "active"
  PROVE  SessionInv'
<1>1. session' \in Seq(SessionRow)
  <2>1. PICK t : t = session'
    OBVIOUS
  <2>2. session \in Seq(SessionRow) /\ t = [s \in DOMAIN session |-> t[s]]
    BY <2>1 DEF SessionInv
  <2>3. \A s \in DOMAIN session : t[s] \in SessionRow
    BY <2>1
  <2>4. t \in Seq(SessionRow)
    BY <2>2, <2>3, SameLength
  <2> QED BY <2>1, <2>4
<1>2. ASSUME NEW s \in DOMAIN session PROVE SessionOK(session[s])'
  <2>1. PICK x, y : x = session[s] /\ y = session'[s]
    OBVIOUS
  <2>2. x \in SessionRow /\ SessionOK(x)
    BY <2>1, ElementOfSeq, LenProperties DEF SessionInv
  <2>3. /\ y \in SessionRow /\ y.account = x.account /\ y.strength = x.strength
        /\ y.since = x.since /\ y.via = x.via /\ y.since <= y.idle /\ y.idle <= y.absolute
        /\ y.state = "active" => account'[y.account].state = "active"
    BY <2>1
  <2>4. SessionOK(y)'
    BY <2>2, <2>3, SessionAfter
  <2> QED BY <2>1, <2>4
<1> QED BY <1>1, <1>2 DEF SessionInv

\* Sessions that a step leaves alone.
LEMMA SessionsSame ==
  ASSUME AccountInv, SessionInv, Grows, session' = session,
         \A a \in Accounts : account[a].state = "active" => account'[a].state = "active"
  PROVE  SessionInv'
<1>1. ASSUME NEW s \in DOMAIN session
      PROVE  /\ session[s] \in SessionRow /\ session[s].account \in Accounts
             /\ session[s].since <= session[s].idle
             /\ session[s].idle <= session[s].absolute
             /\ session[s].state = "active" => account'[session[s].account].state = "active"
  <2>1. session[s] \in SessionRow /\ SessionOK(session[s])
    BY ElementOfSeq, LenProperties DEF SessionInv
  <2> QED BY <2>1 DEF SessionOK, SessionRow, Active
<1>2. session = [s \in DOMAIN session |-> session[s]]
  BY LenProperties DEF SessionInv
<1> QED BY <1>1, <1>2, SessionsAfter

\* Challenges and passkeys that a step leaves alone.
LEMMA OthersSame ==
  ASSUME ChallengeInv, PasskeyInv, Grows
  PROVE  /\ challenge' = challenge => ChallengeInv'
         /\ passkey' = passkey => PasskeyInv'
<1>1. ASSUME challenge' = challenge, NEW k \in DOMAIN challenge
      PROVE  ChallengeOK(challenge[k])'
  <2>1. challenge[k] \in ChallengeRow /\ ChallengeOK(challenge[k])
    BY ElementOfSeq, LenProperties DEF ChallengeInv
  <2> QED BY <1>1, <2>1 DEF ChallengeOK, ChallengeRow, Grows
<1>2. ASSUME passkey' = passkey, NEW p \in DOMAIN passkey
      PROVE  PasskeyOK(passkey[p])'
  BY <1>2 DEF PasskeyInv, PasskeyOK, Grows
<1> QED BY <1>1, <1>2 DEF ChallengeInv, PasskeyInv

\* The holders of challenges when nobody takes a new one.
LEMMA SpentKept ==
  ASSUME SpentOnce, NEW r \in Requests,
         \A u \in Requests : u # r => Via(u)' = Via(u),
         Via(r)' = None \/ Via(r)' = Via(r),
         DOMAIN session' = DOMAIN session, DOMAIN passkey' = DOMAIN passkey,
         \A s \in DOMAIN session : session'[s].via = session[s].via,
         \A p \in DOMAIN passkey : passkey'[p].via = passkey[p].via
  PROVE  SpentOnce'
  BY DEF SpentOnce

-----------------------------------------------------------------------------
(* Steps that change no table.                                             *)

\* A step that changes only accounts' states, access, addresses and sessions
\* lets everything grow.
LEMMA GrowsFrom ==
  ASSUME AccountInv, UNCHANGED <<now, challenge, passkey>>,
         \A a \in Accounts : account'[a].domain = account[a].domain,
         DOMAIN session \subseteq DOMAIN session',
         \A s \in DOMAIN session : session'[s].since = session[s].since
  PROVE  Grows
<1>1. now \in Nat
  BY TimesNat DEF AccountInv
<1> QED BY <1>1 DEF Grows, AccountInv

\* Everything but what the requests hold stays as it is.
LEMMA TablesSame ==
  ASSUME Inv, UNCHANGED <<now, tables>>
  PROVE  /\ Grows /\ AccountInv' /\ ContactInv' /\ SessionInv' /\ ChallengeInv'
         /\ PasskeyInv'
<1>0. UNCHANGED <<now, account, access, contact, session, challenge, passkey>>
  BY DEF tables
<1>1. Grows
  BY <1>0, GrowsFrom DEF Inv
<1>2. AccountInv' /\ ContactInv'
  BY <1>0 DEF Inv, AccountInv, ContactInv, Enabled
<1>3. SessionInv' /\ ChallengeInv' /\ PasskeyInv'
  BY <1>0, <1>1, SessionsSame, OthersSame DEF Inv
<1> QED BY <1>1, <1>2, <1>3

\* A request ends.
LEMMA StopFacts ==
  ASSUME RequestInv, NEW r \in Requests, Stop(r)
  PROVE  /\ DOMAIN req' = Requests /\ req'[r] = None /\ Via(r)' = None
         /\ \A u \in Requests : u # r => req'[u] = req[u] /\ Via(u)' = Via(u)
  BY DEF Stop, RequestInv, Via

\* A request gets new contents.
LEMMA PutFacts ==
  ASSUME RequestInv, NEW r \in Requests, NEW q, req' = [req EXCEPT ![r] = q]
  PROVE  /\ DOMAIN req' = Requests /\ req'[r] = q
         /\ Via(r)' = (IF q = None THEN None ELSE q.via)
         /\ \A u \in Requests : u # r => req'[u] = req[u] /\ Via(u)' = Via(u)
  BY DEF RequestInv, Via

\* A request that goes on, or arrives, without taking a challenge.
LEMMA QuietStep ==
  ASSUME Inv, UNCHANGED <<now, tables>>, NEW r \in Requests, NEW q,
         req' = [req EXCEPT ![r] = q],
         q # None => LocalOK(q) /\ (q.via = None \/ q.via = Via(r))
  PROVE  Inv'
<1>1. /\ Grows /\ AccountInv' /\ ContactInv' /\ SessionInv' /\ ChallengeInv'
      /\ PasskeyInv'
  BY TablesSame
<1>2. /\ DOMAIN req' = Requests /\ req'[r] = q
      /\ Via(r)' = (IF q = None THEN None ELSE q.via)
      /\ \A u \in Requests : u # r => req'[u] = req[u] /\ Via(u)' = Via(u)
  BY PutFacts DEF Inv
<1>3. q # None => LocalOK(q)'
  BY <1>1, LocalKept DEF Inv
<1>4. RequestInv'
  BY <1>1, <1>2, <1>3, RequestsKept DEF Inv
<1>5. SpentOnce'
  BY <1>2, SpentKept DEF Inv, tables
<1> QED BY <1>1, <1>4, <1>5 DEF Inv

\* A request arrives with what its next call needs.
LEMMA ArriveStep ==
  ASSUME Inv, NEW r \in Requests, NEW pc, NEW a, NEW kind, NEW about,
         Arrive(r, pc, a, kind, about),
         \/ /\ pc = "create"
            /\ \/ /\ kind \in {"email_sign_in", "account_recovery", "email_change"}
                  /\ a \in Accounts /\ about \in Emails
               \/ kind = "passkey_registration" /\ a \in Accounts /\ about = None
               \/ kind = "passkey_authentication" /\ a = None /\ about \in Domains
         \/ /\ pc \in {"touch", "expire"} /\ about \in DOMAIN session
         \/ /\ pc = "revoke" /\ about \in DOMAIN passkey
  PROVE  Inv'
<1>1. PICK q : q = [pc |-> pc, account |-> a, kind |-> kind,
                    about |-> about, at |-> now, via |-> None]
  OBVIOUS
<1>2. req' = [req EXCEPT ![r] = q] /\ UNCHANGED <<now, tables>>
  BY <1>1 DEF Arrive
<1>3. /\ q.pc = pc /\ q.account = a /\ q.kind = kind /\ q.about = about
      /\ q.at = now /\ q.via = None
  BY <1>1
<1>4. DOMAIN q = Fields
  BY <1>1 DEF Fields
<1>5. now \in Times /\ now <= now
  BY TimesNat DEF Inv, AccountInv
<1>6. about \in DOMAIN session => session[about].since <= now
  BY DEF Inv, SessionInv, SessionOK
<1>7. LocalOK(q)
  BY <1>3, <1>4, <1>5, <1>6 DEF LocalOK, Creates
<1> QED BY <1>2, <1>3, <1>7, QuietStep

\* The first halves of the methods.
LEMMA BeginStep == ASSUME Inv, NEW r \in Requests, Begin(r) PROVE Inv'
<1>1. ASSUME NEW e \in Emails, NEW kind \in {"email_sign_in", "account_recovery"},
             BeginEmail(r, kind, e)
      PROVE  Inv'
  <2>1. contact[e] # None /\ contact[e] \in ContactRow \cup {None}
    BY <1>1 DEF BeginEmail, Inv, ContactInv
  <2>2. PICK a \in Accounts : a = contact[e].account
    BY <2>1 DEF ContactRow
  <2>3. Arrive(r, "create", a, kind, e)
    BY <1>1, <2>2 DEF BeginEmail
  <2> QED BY <2>3, ArriveStep
<1>2. ASSUME NEW a \in Accounts, NEW e \in Emails, BeginEmailChange(r, a, e) PROVE Inv'
  BY <1>2, ArriveStep DEF BeginEmailChange
<1>3. ASSUME NEW a \in Accounts, BeginRegistration(r, a) PROVE Inv'
  BY <1>3, ArriveStep DEF BeginRegistration
<1>4. ASSUME NEW a \in Accounts, BeginAuthentication(r, account[a].domain) PROVE Inv'
  <2>1. PICK d \in Domains : d = account[a].domain
    BY DEF Inv, AccountInv, AccountRow
  <2>2. Arrive(r, "create", None, "passkey_authentication", d)
    BY <1>4, <2>1 DEF BeginAuthentication
  <2> QED BY <2>2, ArriveStep
<1> QED BY <1>1, <1>2, <1>3, <1>4 DEF Begin

\* What is known of a request that takes a step.
LEMMA RequestFacts ==
  ASSUME Inv, NEW r \in Requests, NEW pc, At(r, pc)
  PROVE  /\ req[r] # None /\ LocalOK(req[r]) /\ req[r].pc = pc
         /\ Via(r) = req[r].via /\ DOMAIN req[r] = Fields
  BY DEF Inv, RequestInv, At, Via, LocalOK

\* The steps of a request that only read, and its death.
LEMMA ReadStep ==
  ASSUME Inv, NEW r \in Requests,
         \/ Die(r)
         \/ \E s \in DOMAIN session : Authenticate(r, s)
         \/ RegisterWithGrant(r)
         \/ \E p \in DOMAIN passkey : FindCredential(r, p)
         \/ UpdateUsage(r)
         \/ \E p \in DOMAIN passkey, alternate \in BOOLEAN : BeginRevoke(r, p, alternate)
  PROVE  Inv'
<1>1. CASE Die(r)
  <2>1. PICK q : q = None
    OBVIOUS
  <2>2. req' = [req EXCEPT ![r] = q] /\ UNCHANGED <<now, tables>>
    BY <1>1, <2>1 DEF Die, Stop
  <2> QED BY <2>1, <2>2, QuietStep
<1>2. ASSUME NEW s \in DOMAIN session, Authenticate(r, s) PROVE Inv'
  BY <1>2, ArriveStep DEF Authenticate
<1>3. CASE RegisterWithGrant(r)
  <2>1. PICK q : q = [req[r] EXCEPT !.pc = "create", !.kind = "passkey_registration",
                                    !.about = None]
    OBVIOUS
  <2>2. req' = [req EXCEPT ![r] = q] /\ UNCHANGED <<now, tables>> /\ At(r, "register")
    BY <1>3, <2>1 DEF RegisterWithGrant
  <2>3. LocalOK(req[r]) /\ req[r].pc = "register" /\ Via(r) = req[r].via
    BY <2>2, RequestFacts
  <2>4. /\ q.pc = "create" /\ q.kind = "passkey_registration" /\ q.about = None
        /\ q.account = req[r].account /\ q.via = req[r].via /\ q.at = req[r].at
        /\ DOMAIN q = Fields
    BY <2>1, <2>3 DEF LocalOK, Fields
  <2>5. LocalOK(q)
    BY <2>3, <2>4 DEF LocalOK, Creates
  <2> QED BY <2>2, <2>3, <2>4, <2>5, QuietStep
<1>4. ASSUME NEW p \in DOMAIN passkey, FindCredential(r, p) PROVE Inv'
  <2>0. PICK a : a = passkey[p].account
    OBVIOUS
  <2>1. PICK q : q = [req[r] EXCEPT !.pc = "usage", !.account = a, !.about = p]
    OBVIOUS
  <2>2. /\ req' = [req EXCEPT ![r] = q] /\ UNCHANGED <<now, tables>> /\ At(r, "find")
        /\ account[a].domain = challenge[req[r].via].domain
    BY <1>4, <2>0, <2>1 DEF FindCredential
  <2>3. LocalOK(req[r]) /\ req[r].pc = "find" /\ Via(r) = req[r].via
    BY <2>2, RequestFacts
  <2>4. /\ q.pc = "usage" /\ q.kind = req[r].kind /\ q.about = p
        /\ q.account = a /\ q.via = req[r].via /\ q.at = req[r].at
        /\ DOMAIN q = Fields
    BY <2>1, <2>3 DEF LocalOK, Fields
  <2>5. a \in Accounts
    <3>1. passkey[p] \in PasskeyRow
      BY ElementOfSeq, LenProperties DEF Inv, PasskeyInv
    <3> QED BY <2>0, <3>1 DEF PasskeyRow
  <2>6. LocalOK(q)
    BY <2>2, <2>3, <2>4, <2>5 DEF LocalOK, Signed
  <2> QED BY <2>2, <2>3, <2>4, <2>6, QuietStep
<1>5. CASE UpdateUsage(r)
  <2>0. LocalOK(req[r]) /\ req[r].pc = "usage" /\ Via(r) = req[r].via
    BY <1>5, RequestFacts DEF UpdateUsage
  <2>1. CASE Continue(r, "issue")
    <3>1. PICK q : q = [req[r] EXCEPT !.pc = "issue"]
      OBVIOUS
    <3>2. req' = [req EXCEPT ![r] = q] /\ UNCHANGED <<now, tables>>
      BY <1>5, <2>1, <3>1 DEF UpdateUsage, Continue
    <3>3. /\ q.pc = "issue" /\ q.kind = req[r].kind /\ q.about = req[r].about
          /\ q.account = req[r].account /\ q.via = req[r].via /\ q.at = req[r].at
          /\ DOMAIN q = Fields
      BY <2>0, <3>1 DEF LocalOK, Fields
    <3>4. LocalOK(q)
      BY <2>0, <3>3 DEF LocalOK, Signed
    <3> QED BY <2>0, <3>2, <3>3, <3>4, QuietStep
  <2>2. CASE Stop(r)
    <3>1. PICK q : q = None
      OBVIOUS
    <3>2. req' = [req EXCEPT ![r] = q] /\ UNCHANGED <<now, tables>>
      BY <1>5, <2>2, <3>1 DEF UpdateUsage, Stop
    <3> QED BY <3>1, <3>2, QuietStep
  <2> QED BY <1>5, <2>1, <2>2 DEF UpdateUsage
<1>6. ASSUME NEW p \in DOMAIN passkey, NEW alternate \in BOOLEAN,
             BeginRevoke(r, p, alternate)
      PROVE  Inv'
  BY <1>6, ArriveStep DEF BeginRevoke
<1> QED BY <1>1, <1>2, <1>3, <1>4, <1>5, <1>6

-----------------------------------------------------------------------------
(* Challenges.                                                             *)

\* What is known of the rows of the tables.
LEMMA RowFacts ==
  ASSUME Inv
  PROVE  /\ \A s \in DOMAIN session : session[s] \in SessionRow /\ SessionOK(session[s])
         /\ \A k \in DOMAIN challenge :
              /\ challenge[k] \in ChallengeRow /\ ChallengeOK(challenge[k])
              /\ k \in Nat /\ k # None
         /\ \A p \in DOMAIN passkey : passkey[p] \in PasskeyRow /\ PasskeyOK(passkey[p])
<1>1. /\ DOMAIN session = 1 .. Len(session) /\ DOMAIN challenge = 1 .. Len(challenge)
      /\ DOMAIN passkey = 1 .. Len(passkey)
      /\ Len(challenge) \in Nat
  BY LenProperties DEF Inv, SessionInv, ChallengeInv, PasskeyInv
<1>2. None \notin Nat
  BY AccountsAssumption
<1> QED BY <1>1, <1>2, ElementOfSeq DEF Inv, SessionInv, ChallengeInv, PasskeyInv

\* createChallenge preserves the invariant.
LEMMA CreateChallengeStep ==
  ASSUME Inv, NEW r \in Requests, CreateChallenge(r)
  PROVE  Inv'
<1>1. PICK q : q = req[r]
  OBVIOUS
<1>2. LocalOK(q) /\ Creates(q) /\ q.at \in Nat
  BY <1>1, RequestFacts, TimesNat DEF CreateChallenge, LocalOK
<1>3. PICK d : d = IF q.account = None THEN q.about ELSE account[q.account].domain
  OBVIOUS
<1>4. PICK row : row = [kind |-> q.kind, account |-> q.account, domain |-> d,
                        email |-> IF q.account = None THEN None ELSE q.about,
                        expires |-> q.at + ChallengeLife, state |-> "pending"]
  OBVIOUS
<1>5. /\ challenge' = Append(challenge, row) /\ Stop(r)
      /\ UNCHANGED <<now, account, access, contact, session, passkey>>
  BY <1>1, <1>3, <1>4 DEF CreateChallenge
<1>6. None \notin Accounts /\ None \notin Emails
  BY AccountsAssumption
<1>7. \A a \in Accounts : account[a].domain \in Domains
  BY DEF Inv, AccountInv, AccountRow
<1>8. /\ q.kind \in Kinds /\ q.account \in Accounts \cup {None} /\ d \in Domains
      /\ (q.account = None) = (q.kind = "passkey_authentication")
      /\ q.account # None => d = account[q.account].domain
  BY <1>2, <1>3, <1>6, <1>7 DEF Creates, Kinds
<1>9. /\ row.email \in Emails \cup {None}
      /\ (row.email # None) =
            (q.kind \in {"email_sign_in", "account_recovery", "email_change"})
  BY <1>2, <1>4, <1>6 DEF Creates
<1>10. q.at + ChallengeLife \in Nat
  BY <1>2, AccountsAssumption
<1>11. row \in ChallengeRow /\ ChallengeOK(row)
  BY <1>4, <1>8, <1>9, <1>10 DEF ChallengeRow, ChallengeOK
<1>12. /\ challenge' \in Seq(ChallengeRow)
       /\ DOMAIN challenge' = DOMAIN challenge \cup {Len(challenge) + 1}
       /\ \A k \in DOMAIN challenge : challenge'[k] = challenge[k]
       /\ challenge'[Len(challenge) + 1] = row
  BY <1>5, <1>11, Appended DEF Inv, ChallengeInv
<1>13. ChallengeInv'
  <2>1. ASSUME NEW k \in DOMAIN challenge' PROVE ChallengeOK(challenge[k])'
    <3>1. PICK x : x = challenge'[k]
      OBVIOUS
    <3>2. ChallengeOK(x)
      BY <1>11, <1>12, <3>1, RowFacts
    <3>3. ChallengeOK(x)'
      BY <1>5, <3>2 DEF ChallengeOK
    <3> QED BY <3>1, <3>3
  <2> QED BY <1>12, <2>1 DEF ChallengeInv
<1>14. Grows
  <2>1. now \in Nat /\ now \in Times
    BY TimesNat DEF Inv, AccountInv
  <2> QED BY <1>5, <1>12, <2>1 DEF Grows
<1>15. AccountInv' /\ ContactInv'
  BY <1>5 DEF Inv, AccountInv, ContactInv, Enabled
<1>16. SessionInv' /\ PasskeyInv'
  BY <1>5, <1>14, SessionsSame, OthersSame DEF Inv
<1>17. /\ DOMAIN req' = Requests /\ req'[r] = None /\ Via(r)' = None
       /\ \A u \in Requests : u # r => req'[u] = req[u] /\ Via(u)' = Via(u)
  BY <1>5, StopFacts DEF Inv
<1>18. RequestInv' /\ SpentOnce'
  BY <1>5, <1>14, <1>17, RequestsKept, SpentKept DEF Inv
<1> QED BY <1>13, <1>15, <1>16, <1>18 DEF Inv

\* consume preserves the invariant: a pending challenge is held by nobody.
LEMMA ConsumeStep ==
  ASSUME Inv, NEW r \in Requests, NEW k \in DOMAIN challenge, ConsumeChallenge(r, k)
  PROVE  Inv'
<1>1. PICK row, used : row = challenge[k] /\ used = [row EXCEPT !.state = "consumed"]
  OBVIOUS
<1>2. PICK q : q = [pc |-> AfterConsume[row.kind], account |-> row.account,
                    kind |-> row.kind, about |-> row.email, at |-> now, via |-> k]
  OBVIOUS
<1>3. /\ challenge' = [challenge EXCEPT ![k] = used] /\ req' = [req EXCEPT ![r] = q]
      /\ UNCHANGED <<now, account, access, contact, session, passkey>>
      /\ row.state = "pending"
  BY <1>1, <1>2 DEF ConsumeChallenge, Consumable
<1>4. row \in ChallengeRow /\ ChallengeOK(row) /\ k \in Nat /\ k # None
  BY <1>1, RowFacts
<1>5. /\ used \in ChallengeRow /\ used.kind = row.kind /\ used.account = row.account
      /\ used.domain = row.domain /\ used.email = row.email /\ used.state = "consumed"
  BY <1>1, <1>4 DEF ChallengeRow
<1>6. /\ challenge' \in Seq(ChallengeRow) /\ DOMAIN challenge' = DOMAIN challenge
      /\ challenge'[k] = used
      /\ \A j \in DOMAIN challenge : j # k => challenge'[j] = challenge[j]
  <2>1. challenge \in Seq(ChallengeRow) /\ DOMAIN challenge = 1 .. Len(challenge)
    BY LenProperties DEF Inv, ChallengeInv
  <2>2. challenge' \in Seq(ChallengeRow)
    BY <1>3, <1>5, <2>1, ExceptSeq
  <2> QED BY <1>3, <2>1, <2>2
<1>7. ChallengeInv'
  <2>1. ASSUME NEW j \in DOMAIN challenge PROVE ChallengeOK(challenge[j])'
    <3>1. PICK x : x = challenge'[j]
      OBVIOUS
    <3>2. ChallengeOK(x)
      <4>1. CASE j = k
        BY <1>4, <1>5, <1>6, <3>1, <4>1 DEF ChallengeOK
      <4>2. CASE j # k
        BY <1>6, <3>1, <4>2, RowFacts
      <4> QED BY <4>1, <4>2
    <3>3. ChallengeOK(x)'
      BY <1>3, <3>2 DEF ChallengeOK
    <3> QED BY <3>1, <3>3
  <2> QED BY <1>6, <2>1 DEF ChallengeInv
<1>8. Grows
  <2>1. now \in Nat /\ now \in Times
    BY TimesNat DEF Inv, AccountInv
  <2> QED BY <1>1, <1>3, <1>5, <1>6, <2>1 DEF Grows
<1>9. AccountInv' /\ ContactInv'
  BY <1>3 DEF Inv, AccountInv, ContactInv, Enabled
<1>10. SessionInv' /\ PasskeyInv'
  BY <1>3, <1>8, SessionsSame, OthersSame DEF Inv
<1>11. /\ DOMAIN req' = Requests /\ req'[r] = q
       /\ Via(r)' = (IF q = None THEN None ELSE q.via)
       /\ \A u \in Requests : u # r => req'[u] = req[u] /\ Via(u)' = Via(u)
  BY <1>3, PutFacts DEF Inv
<1>12. /\ q.account = row.account /\ q.kind = row.kind /\ q.about = row.email
       /\ q.at = now /\ q.via = k /\ DOMAIN q = Fields /\ q.pc = AfterConsume[row.kind]
  BY <1>2 DEF Fields
<1>13. LocalOK(q)'
  <2>1. now' \in Times /\ now <= now' /\ now' = now
    BY <1>3, <1>8 DEF Grows
  <2>2. /\ row.account # None => row.account \in Accounts
        /\ row.email # None => row.email \in Emails
        /\ row.kind \in Kinds
    BY <1>4 DEF ChallengeRow
  <2>3. /\ (row.account = None) = (row.kind = "passkey_authentication")
        /\ (row.email # None) =
             (row.kind \in {"email_sign_in", "account_recovery", "email_change"})
        /\ row.account # None => row.domain = account[row.account].domain
    BY <1>4 DEF ChallengeOK
  <2>4. /\ k \in DOMAIN challenge' /\ challenge'[k].state = "consumed"
        /\ challenge'[k].kind = row.kind /\ challenge'[k].account = row.account
        /\ challenge'[k].domain = row.domain
    BY <1>5, <1>6
  <2>5. CASE row.kind = "email_sign_in"
    <3>1. q.pc = "issue"
      BY <1>12, <2>5 DEF AfterConsume
    <3>2. row.account \in Accounts
      BY <2>2, <2>3, <2>5
    <3>3. Signed(q)'
      BY <1>3, <1>12, <2>3, <2>4, <2>5, <3>2, AccountsAssumption DEF Signed
    <3> QED BY <1>3, <1>12, <2>1, <2>4, <3>1, <3>3 DEF LocalOK
  <2>6. CASE row.kind = "account_recovery"
    <3>1. q.pc = "recover" /\ row.account \in Accounts
      BY <1>12, <2>2, <2>3, <2>6 DEF AfterConsume
    <3> QED BY <1>3, <1>12, <2>1, <2>4, <3>1 DEF LocalOK
  <2>7. CASE row.kind = "recovery_grant"
    <3>1. q.pc = "register" /\ row.account \in Accounts
      BY <1>12, <2>2, <2>3, <2>7 DEF AfterConsume
    <3> QED BY <1>3, <1>12, <2>1, <2>4, <3>1 DEF LocalOK
  <2>8. CASE row.kind = "email_change"
    <3>1. q.pc = "change" /\ row.account \in Accounts /\ row.email \in Emails
      BY <1>12, <2>2, <2>3, <2>8 DEF AfterConsume
    <3> QED BY <1>3, <1>12, <2>1, <2>4, <3>1 DEF LocalOK
  <2>9. CASE row.kind = "passkey_registration"
    <3>1. q.pc = "save" /\ row.account \in Accounts
      BY <1>12, <2>2, <2>3, <2>9 DEF AfterConsume
    <3> QED BY <1>3, <1>12, <2>1, <2>4, <2>9, <3>1 DEF LocalOK
  <2>10. CASE row.kind = "passkey_authentication"
    <3>1. q.pc = "find"
      BY <1>12, <2>10 DEF AfterConsume
    <3> QED BY <1>3, <1>12, <2>1, <2>4, <2>10, <3>1 DEF LocalOK
  <2> QED BY <2>2, <2>5, <2>6, <2>7, <2>8, <2>9, <2>10 DEF Kinds
<1>14. RequestInv'
  BY <1>8, <1>11, <1>13, RequestsKept DEF Inv
<1>15. SpentOnce'
  <2>1. \A u \in Requests : u # r => Via(u) # k
    <3>1. ASSUME NEW u \in Requests, Via(u) = k PROVE FALSE
      <4>1. req[u] # None /\ req[u].via = k
        BY <1>4, <3>1 DEF Via
      <4>2. LocalOK(req[u])
        BY <4>1 DEF Inv, RequestInv
      <4> QED BY <1>1, <1>3, <1>4, <4>1, <4>2 DEF LocalOK
    <3> QED BY <3>1
  <2>2. \A s \in DOMAIN session : session[s].via # k
    BY <1>1, <1>3, RowFacts DEF SessionOK
  <2>3. \A p \in DOMAIN passkey : passkey[p].via # k
    BY <1>1, <1>3, <1>4, RowFacts DEF PasskeyOK
  <2>4. Via(r)' = k \/ Via(r)' = None
    BY <1>11, <1>12
  <2> QED BY <1>3, <1>11, <2>1, <2>2, <2>3, <2>4 DEF SpentOnce, Inv
<1> QED BY <1>7, <1>9, <1>10, <1>14, <1>15 DEF Inv

-----------------------------------------------------------------------------
(* Sessions.                                                               *)

\* A row that may have been touched or revoked.
Lessened(s, t) ==
  /\ t \in SessionRow
  /\ t.account = s.account /\ t.strength = s.strength /\ t.since = s.since
  /\ t.via = s.via
  /\ t.since <= t.idle /\ t.idle <= t.absolute
  /\ t.state = "active" => s.state = "active"

\* The table after a step that touches or revokes sessions and may change the
\* state of accounts whose sessions it revokes.
LEMMA SessionsLessened ==
  ASSUME Inv, UNCHANGED <<now, access, challenge, passkey>>,
         account' \in [Accounts -> AccountRow],
         \A a \in Accounts : account'[a].domain = account[a].domain,
         session' = [s \in DOMAIN session |-> session'[s]],
         \A s \in DOMAIN session :
           /\ Lessened(session[s], session'[s])
           /\ session'[s].state = "active" =>
                account'[session[s].account].state = account[session[s].account].state
  PROVE  /\ Grows /\ AccountInv' /\ SessionInv' /\ ChallengeInv' /\ PasskeyInv'
         /\ DOMAIN session' = DOMAIN session
         /\ \A s \in DOMAIN session : session'[s].via = session[s].via
<1>1. /\ DOMAIN session' = DOMAIN session
      /\ \A s \in DOMAIN session : session'[s].via = session[s].via
      /\ \A s \in DOMAIN session : session'[s].since = session[s].since
  BY DEF Lessened
<1>2. Grows
  BY <1>1, GrowsFrom DEF Inv
<1>3. ASSUME NEW s \in DOMAIN session, session'[s].state = "active"
      PROVE  account'[session[s].account].state = "active"
  BY <1>3, RowFacts DEF Lessened, SessionOK, Active
<1>4. SessionInv'
  BY <1>2, <1>3, SessionsAfter DEF Inv, Lessened
<1>5. AccountInv' /\ ChallengeInv' /\ PasskeyInv'
  BY <1>2, OthersSame DEF Inv, AccountInv
<1> QED BY <1>1, <1>2, <1>4, <1>5

\* A row that is left alone, and one that is revoked.
LEMMA RowLessened ==
  ASSUME NEW s \in SessionRow, SessionOK(s)
  PROVE  /\ Lessened(s, s)
         /\ Lessened(s, [s EXCEPT !.state = "revoked"])
         /\ [s EXCEPT !.state = "revoked"].state = "revoked"
<1>1. Lessened(s, s)
  BY DEF Lessened, SessionOK
<1>2. PICK t : t = [s EXCEPT !.state = "revoked"]
  OBVIOUS
<1>3. /\ t \in SessionRow /\ t.account = s.account /\ t.strength = s.strength
      /\ t.since = s.since /\ t.via = s.via /\ t.idle = s.idle /\ t.absolute = s.absolute
      /\ t.state = "revoked"
  BY <1>2 DEF SessionRow
<1>4. Lessened(s, t)
  BY <1>3 DEF Lessened, SessionOK
<1> QED BY <1>1, <1>2, <1>3, <1>4

\* What the revocation of all sessions of an account does.
LEMMA RevokedFacts ==
  ASSUME Inv, NEW a \in Accounts, session' = Revoked(a)
  PROVE  /\ session' = [s \in DOMAIN session |-> session'[s]]
         /\ \A s \in DOMAIN session :
              /\ Lessened(session[s], session'[s])
              /\ session'[s].state = "active" => session[s].account # a
<1>1. ASSUME NEW s \in DOMAIN session
      PROVE  /\ Lessened(session[s], session'[s])
             /\ session'[s].state = "active" => session[s].account # a
  <2>1. PICK x : x = session[s]
    OBVIOUS
  <2>2. x \in SessionRow /\ SessionOK(x)
    BY <2>1, RowFacts
  <2>3. session'[s] = IF x.account = a THEN [x EXCEPT !.state = "revoked"] ELSE x
    BY <2>1 DEF Revoked
  <2> QED BY <2>1, <2>2, <2>3, RowLessened
<1> QED BY <1>1 DEF Revoked

\* One row changes.
LEMMA OneSession ==
  ASSUME Inv, NEW s \in DOMAIN session, NEW row, Lessened(session[s], row),
         session' = [session EXCEPT ![s] = row]
  PROVE  /\ session' = [t \in DOMAIN session |-> session'[t]]
         /\ \A t \in DOMAIN session : Lessened(session[t], session'[t])
<1>1. ASSUME NEW t \in DOMAIN session, t # s PROVE Lessened(session[t], session'[t])
  BY <1>1, RowFacts, RowLessened
<1>2. session'[s] = row
  OBVIOUS
<1> QED BY <1>1, <1>2

\* A request's step that changes sessions and no account.
LEMMA SessionStep ==
  ASSUME Inv, NEW r \in Requests, NEW q, req' = [req EXCEPT ![r] = q],
         q # None => LocalOK(q) /\ q.via = Via(r),
         UNCHANGED <<now, account, access, contact, challenge, passkey>>,
         session' = [s \in DOMAIN session |-> session'[s]],
         \A s \in DOMAIN session : Lessened(session[s], session'[s])
  PROVE  Inv'
<1>1. /\ Grows /\ AccountInv' /\ SessionInv' /\ ChallengeInv' /\ PasskeyInv'
      /\ DOMAIN session' = DOMAIN session
      /\ \A s \in DOMAIN session : session'[s].via = session[s].via
  BY SessionsLessened DEF Inv, AccountInv
<1>2. ContactInv'
  BY DEF Inv, ContactInv, Enabled
<1>3. /\ DOMAIN req' = Requests /\ req'[r] = q
      /\ Via(r)' = (IF q = None THEN None ELSE q.via)
      /\ \A u \in Requests : u # r => req'[u] = req[u] /\ Via(u)' = Via(u)
  BY PutFacts DEF Inv
<1>4. q # None => LocalOK(q)'
  BY <1>1, LocalKept DEF Inv
<1>5. RequestInv'
  BY <1>1, <1>3, <1>4, RequestsKept DEF Inv
<1>6. SpentOnce'
  BY <1>1, <1>3, SpentKept DEF Inv
<1> QED BY <1>1, <1>2, <1>5, <1>6 DEF Inv

\* The first half of a rotation, the expiry and the touch of a session.
LEMMA TouchStep ==
  ASSUME Inv, NEW r \in Requests,
         \/ \E s \in DOMAIN session : RotateSession(r, s)
         \/ Touch(r)
         \/ ExpireSession(r)
  PROVE  Inv'
<1>1. ASSUME NEW s \in DOMAIN session, RotateSession(r, s) PROVE Inv'
  <2>1. PICK q, row : /\ q = [req[r] EXCEPT !.pc = "insert"]
                      /\ row = [session[s] EXCEPT !.state = "revoked"]
    OBVIOUS
  <2>2. /\ req' = [req EXCEPT ![r] = q] /\ session' = [session EXCEPT ![s] = row]
        /\ UNCHANGED <<now, account, access, contact, challenge, passkey>>
        /\ At(r, "issue")
    BY <1>1, <2>1 DEF RotateSession, Continue
  <2>3. LocalOK(req[r]) /\ req[r].pc = "issue" /\ Via(r) = req[r].via
    BY <2>2, RequestFacts
  <2>4. /\ q.pc = "insert" /\ q.kind = req[r].kind /\ q.about = req[r].about
        /\ q.account = req[r].account /\ q.via = req[r].via /\ q.at = req[r].at
        /\ DOMAIN q = Fields
    BY <2>1, <2>3 DEF LocalOK, Fields
  <2>5. LocalOK(q)
    BY <2>3, <2>4 DEF LocalOK, Signed
  <2>6. Lessened(session[s], row)
    BY <2>1, RowFacts, RowLessened
  <2>7. /\ session' = [t \in DOMAIN session |-> session'[t]]
        /\ \A t \in DOMAIN session : Lessened(session[t], session'[t])
    BY <2>2, <2>6, OneSession
  <2> QED BY <2>2, <2>3, <2>4, <2>5, <2>7, SessionStep
<1>2. PICK q : q = None
  OBVIOUS
<1>3. ASSUME Stop(r), UNCHANGED <<now, account, access, contact, challenge, passkey>>,
             NEW s \in DOMAIN session, NEW row, Lessened(session[s], row),
             session' = [session EXCEPT ![s] = row]
      PROVE  Inv'
  <2>1. req' = [req EXCEPT ![r] = q]
    BY <1>2, <1>3 DEF Stop
  <2>2. /\ session' = [t \in DOMAIN session |-> session'[t]]
        /\ \A t \in DOMAIN session : Lessened(session[t], session'[t])
    BY <1>3, OneSession
  <2> QED BY <1>2, <1>3, <2>1, <2>2, SessionStep
<1>4. CASE Touch(r)
  <2>1. LocalOK(req[r]) /\ req[r].pc = "touch"
    BY <1>4, RequestFacts DEF Touch
  <2>2. PICK s, at, x : s = req[r].about /\ at = req[r].at /\ x = session[s]
    OBVIOUS
  <2>3. s \in DOMAIN session /\ x.since <= at /\ at \in Nat
    BY <2>1, <2>2, TimesNat DEF LocalOK
  <2>4. x \in SessionRow /\ SessionOK(x)
    BY <2>2, <2>3, RowFacts
  <2>5. CASE x.state = "active"
    <3>1. PICK row : row = [x EXCEPT !.idle = NextIdle(s, at)]
      OBVIOUS
    <3>2. /\ x.since \in Nat /\ x.idle \in Nat /\ x.absolute \in Nat
          /\ x.since <= x.absolute /\ IdleLife \in Nat
      <4>1. x.since \in Nat /\ x.idle \in Nat /\ x.absolute \in Nat /\ IdleLife \in Nat
        BY <2>4, TimesNat, AccountsAssumption DEF SessionRow
      <4> QED BY <2>4, <4>1 DEF SessionOK
    <3>3. /\ NextIdle(s, at) \in Nat /\ x.since <= NextIdle(s, at)
          /\ NextIdle(s, at) <= x.absolute
      BY <2>2, <2>3, <3>2 DEF NextIdle
    <3>4. /\ row \in SessionRow /\ row.account = x.account /\ row.strength = x.strength
          /\ row.since = x.since /\ row.via = x.via /\ row.idle = NextIdle(s, at)
          /\ row.absolute = x.absolute /\ row.state = x.state
      BY <2>4, <3>1, <3>3 DEF SessionRow
    <3>5. Lessened(session[s], row)
      BY <2>2, <3>3, <3>4 DEF Lessened
    <3>6. session' = [session EXCEPT ![s] = row]
      BY <1>4, <2>2, <2>5, <3>1 DEF Touch
    <3> QED BY <1>3, <1>4, <2>3, <3>5, <3>6 DEF Touch
  <2>6. CASE x.state # "active"
    <3>1. session' = session /\ Stop(r) /\ UNCHANGED <<now, tables>>
      BY <1>4, <2>2, <2>6 DEF Touch, tables
    <3>2. req' = [req EXCEPT ![r] = q]
      BY <1>2, <3>1 DEF Stop
    <3> QED BY <1>2, <3>1, <3>2, QuietStep
  <2> QED BY <2>5, <2>6
<1>5. CASE ExpireSession(r)
  <2>1. LocalOK(req[r]) /\ req[r].pc = "expire"
    BY <1>5, RequestFacts DEF ExpireSession
  <2>2. PICK s \in DOMAIN session : s = req[r].about
    BY <2>1 DEF LocalOK
  <2>3. PICK row : row = [session[s] EXCEPT !.state = "revoked"]
    OBVIOUS
  <2>4. Lessened(session[s], row)
    BY <2>3, RowFacts, RowLessened
  <2>5. session' = [session EXCEPT ![s] = row]
    BY <1>5, <2>2, <2>3 DEF ExpireSession
  <2> QED BY <1>3, <1>5, <2>4, <2>5 DEF ExpireSession
<1> QED BY <1>1, <1>4, <1>5

\* createSession preserves the invariant: the challenge passes from the request
\* to the session.
LEMMA CreateSessionStep ==
  ASSUME Inv, NEW r \in Requests, CreateSession(r)
  PROVE  Inv'
<1>1. PICK q, strength : /\ q = req[r]
                         /\ strength = IF q.kind = "email_sign_in" THEN "email" ELSE "passkey"
  OBVIOUS
<1>2. LocalOK(q) /\ Signed(q) /\ Via(r) = q.via
  <2>1. CASE At(r, "issue")
    BY <1>1, <2>1, RequestFacts DEF LocalOK
  <2>2. CASE At(r, "insert")
    BY <1>1, <2>2, RequestFacts DEF LocalOK
  <2> QED BY <2>1, <2>2 DEF CreateSession
<1>3. Stop(r) /\ UNCHANGED <<now, account, access, contact, challenge, passkey>>
  BY DEF CreateSession
<1>4. CASE ~MayHoldSession(q.account, strength)
  <2>1. UNCHANGED <<now, tables>>
    BY <1>1, <1>3, <1>4 DEF CreateSession, tables
  <2>2. PICK n : n = None
    OBVIOUS
  <2>3. req' = [req EXCEPT ![r] = n]
    BY <1>3, <2>2 DEF Stop
  <2> QED BY <2>1, <2>2, <2>3, QuietStep
<1>5. CASE MayHoldSession(q.account, strength)
  <2>1. PICK row : row = [account |-> q.account, strength |-> strength,
                          state |-> "active", since |-> q.at, idle |-> q.at + IdleLife,
                          absolute |-> q.at + AbsoluteLife, via |-> q.via]
    OBVIOUS
  <2>2. session' = Append(session, row)
    BY <1>1, <1>5, <2>1 DEF CreateSession
  <2>3. /\ q.account \in Accounts /\ q.via \in DOMAIN challenge /\ q.via \in Nat
        /\ q.via # None /\ challenge[q.via].state = "consumed"
        /\ q.at \in Times /\ q.at \in Nat /\ q.at <= now
    BY <1>2, RowFacts, TimesNat DEF Signed, LocalOK
  <2>4. /\ q.at + IdleLife \in Nat /\ q.at + AbsoluteLife \in Nat
        /\ q.at <= q.at + IdleLife /\ q.at + IdleLife <= q.at + AbsoluteLife
    BY <2>3, AccountsAssumption
  <2>5. strength \in {"email", "passkey"}
    BY <1>1
  <2>6. row \in SessionRow
    BY <2>1, <2>3, <2>4, <2>5 DEF SessionRow
  <2>7. SessionOK(row)
    <3>1. Active(q.account) /\ (Participant(q.account) \/ strength = "passkey")
      BY <1>5 DEF MayHoldSession
    <3>2. /\ challenge[q.via].domain = account[q.account].domain
          /\ IF strength = "passkey" THEN challenge[q.via].kind = "passkey_authentication"
             ELSE /\ challenge[q.via].kind = "email_sign_in"
                  /\ challenge[q.via].account = q.account
      BY <1>1, <1>2 DEF Signed
    <3> QED BY <2>1, <2>3, <2>4, <3>1, <3>2 DEF SessionOK
  <2>8. /\ session' \in Seq(SessionRow) /\ Len(session) + 1 \notin DOMAIN session
        /\ DOMAIN session' = DOMAIN session \cup {Len(session) + 1}
        /\ \A s \in DOMAIN session : session'[s] = session[s]
        /\ session'[Len(session) + 1] = row
    BY <2>2, <2>6, Appended DEF Inv, SessionInv
  <2>9. SessionInv'
    <3>1. ASSUME NEW s \in DOMAIN session' PROVE SessionOK(session[s])'
      <4>1. PICK x : x = session'[s]
        OBVIOUS
      <4>2. SessionOK(x)
        BY <2>7, <2>8, <4>1, RowFacts
      <4>3. SessionOK(x)'
        BY <1>3, <4>2 DEF SessionOK, Active, Participant
      <4> QED BY <4>1, <4>3
    <3> QED BY <2>8, <3>1 DEF SessionInv
  <2>10. Grows
    BY <1>3, <2>8, GrowsFrom DEF Inv
  <2>11. AccountInv' /\ ContactInv' /\ ChallengeInv' /\ PasskeyInv'
    BY <1>3, <2>10, OthersSame DEF Inv, AccountInv, ContactInv, Enabled
  <2>12. /\ DOMAIN req' = Requests /\ req'[r] = None /\ Via(r)' = None
         /\ \A u \in Requests : u # r => req'[u] = req[u] /\ Via(u)' = Via(u)
    BY <1>3, StopFacts DEF Inv
  <2>13. RequestInv'
    BY <2>10, <2>12, RequestsKept DEF Inv
  <2>14. SpentOnce'
    <3>1. row.via = Via(r) /\ Via(r) # None
      BY <1>2, <2>1, <2>3
    <3>2. \A s \in DOMAIN session : session[s].via # Via(r)
      BY <3>1 DEF Inv, SpentOnce
    <3>3. \A u \in Requests : u # r /\ Via(u) # None => Via(u) # Via(r)
      BY DEF Inv, SpentOnce
    <3> QED BY <1>3, <2>8, <2>12, <3>1, <3>2, <3>3 DEF Inv, SpentOnce
  <2> QED BY <2>9, <2>11, <2>13, <2>14 DEF Inv
<1> QED BY <1>4, <1>5

-----------------------------------------------------------------------------
(* Passkeys.                                                               *)

\* A step that changes only the passkeys lets everything grow.
LEMMA GrowsPasskey ==
  ASSUME Inv, UNCHANGED <<now, account, session, challenge>>,
         DOMAIN passkey \subseteq DOMAIN passkey'
  PROVE  Grows
<1>1. now \in Nat /\ now \in Times
  BY TimesNat DEF Inv, AccountInv
<1> QED BY <1>1 DEF Grows

\* saveCredential preserves the invariant: the challenge passes from the request
\* to the passkey.
LEMMA SaveStep ==
  ASSUME Inv, NEW r \in Requests, SaveCredential(r)
  PROVE  Inv'
<1>1. PICK q : q = req[r]
  OBVIOUS
<1>2. LocalOK(q) /\ q.pc = "save" /\ Via(r) = q.via
  BY <1>1, RequestFacts DEF SaveCredential
<1>3. Stop(r) /\ UNCHANGED <<now, account, access, contact, session, challenge>>
  BY DEF SaveCredential
<1>4. CASE ~Active(q.account)
  <2>1. UNCHANGED <<now, tables>>
    BY <1>1, <1>3, <1>4 DEF SaveCredential, tables
  <2>2. PICK n : n = None
    OBVIOUS
  <2>3. req' = [req EXCEPT ![r] = n]
    BY <1>3, <2>2 DEF Stop
  <2> QED BY <2>1, <2>2, <2>3, QuietStep
<1>5. CASE Active(q.account)
  <2>1. PICK row : row = [account |-> q.account, state |-> "active", via |-> q.via]
    OBVIOUS
  <2>2. passkey' = Append(passkey, row)
    BY <1>1, <1>5, <2>1 DEF SaveCredential
  <2>3. /\ q.account \in Accounts /\ q.via \in DOMAIN challenge /\ q.via \in Nat
        /\ q.via # None /\ challenge[q.via].state = "consumed"
        /\ challenge[q.via].kind = "passkey_registration"
        /\ challenge[q.via].account = q.account
    BY <1>2, RowFacts DEF LocalOK
  <2>4. row \in PasskeyRow /\ PasskeyOK(row)
    BY <2>1, <2>3 DEF PasskeyRow, PasskeyOK
  <2>5. /\ passkey' \in Seq(PasskeyRow) /\ Len(passkey) + 1 \notin DOMAIN passkey
        /\ DOMAIN passkey' = DOMAIN passkey \cup {Len(passkey) + 1}
        /\ \A p \in DOMAIN passkey : passkey'[p] = passkey[p]
        /\ passkey'[Len(passkey) + 1] = row
    BY <2>2, <2>4, Appended DEF Inv, PasskeyInv
  <2>6. PasskeyInv'
    <3>1. ASSUME NEW p \in DOMAIN passkey' PROVE PasskeyOK(passkey[p])'
      <4>1. PICK x : x = passkey'[p]
        OBVIOUS
      <4>2. PasskeyOK(x)
        BY <2>4, <2>5, <4>1, RowFacts
      <4>3. PasskeyOK(x)'
        BY <1>3, <4>2 DEF PasskeyOK
      <4> QED BY <4>1, <4>3
    <3> QED BY <2>5, <3>1 DEF PasskeyInv
  <2>7. Grows
    BY <1>3, <2>5, GrowsPasskey
  <2>8. AccountInv' /\ ContactInv' /\ SessionInv' /\ ChallengeInv'
    BY <1>3, <2>7, SessionsSame, OthersSame DEF Inv, AccountInv, ContactInv, Enabled
  <2>9. /\ DOMAIN req' = Requests /\ req'[r] = None /\ Via(r)' = None
        /\ \A u \in Requests : u # r => req'[u] = req[u] /\ Via(u)' = Via(u)
    BY <1>3, StopFacts DEF Inv
  <2>10. RequestInv'
    BY <2>7, <2>9, RequestsKept DEF Inv
  <2>11. SpentOnce'
    <3>1. row.via = Via(r) /\ Via(r) # None
      BY <1>2, <2>1, <2>3
    <3>2. \A p \in DOMAIN passkey : passkey[p].via # Via(r)
      BY <3>1 DEF Inv, SpentOnce
    <3>3. \A u \in Requests : u # r /\ Via(u) # None => Via(u) # Via(r)
      BY DEF Inv, SpentOnce
    <3> QED BY <1>3, <2>5, <2>9, <3>1, <3>2, <3>3 DEF Inv, SpentOnce
  <2> QED BY <2>6, <2>8, <2>10, <2>11 DEF Inv
<1> QED BY <1>4, <1>5

\* revokeCredential preserves the invariant.
LEMMA RevokeCredentialStep ==
  ASSUME Inv, NEW r \in Requests, RevokeCredential(r)
  PROVE  Inv'
<1>1. LocalOK(req[r]) /\ req[r].pc = "revoke"
  BY RequestFacts DEF RevokeCredential
<1>2. PICK p \in DOMAIN passkey : p = req[r].about
  BY <1>1 DEF LocalOK
<1>3. PICK x, row : x = passkey[p] /\ row = [x EXCEPT !.state = "revoked"]
  OBVIOUS
<1>4. x \in PasskeyRow /\ PasskeyOK(x)
  BY <1>3, RowFacts
<1>5. row \in PasskeyRow /\ row.account = x.account /\ row.via = x.via
  BY <1>3, <1>4 DEF PasskeyRow
<1>6. PasskeyOK(row)
  BY <1>4, <1>5 DEF PasskeyOK
<1>7. /\ passkey' = [passkey EXCEPT ![p] = row] /\ Stop(r)
      /\ UNCHANGED <<now, account, access, contact, session, challenge>>
  BY <1>2, <1>3 DEF RevokeCredential
<1>8. /\ passkey' \in Seq(PasskeyRow) /\ DOMAIN passkey' = DOMAIN passkey
      /\ passkey'[p] = row
      /\ \A q \in DOMAIN passkey : q # p => passkey'[q] = passkey[q]
  <2>1. passkey \in Seq(PasskeyRow)
    BY DEF Inv, PasskeyInv
  <2>2. p \in 1 .. Len(passkey)
    BY <2>1, LenProperties
  <2>3. passkey' \in Seq(PasskeyRow)
    BY <1>5, <1>7, <2>1, <2>2, ExceptSeq
  <2> QED BY <1>7, <2>3
<1>9. PasskeyInv'
  <2>1. ASSUME NEW q \in DOMAIN passkey' PROVE PasskeyOK(passkey[q])'
    <3>1. PICK y : y = passkey'[q]
      OBVIOUS
    <3>2. PasskeyOK(y)
      BY <1>6, <1>8, <3>1, RowFacts
    <3>3. PasskeyOK(y)'
      BY <1>7, <3>2 DEF PasskeyOK
    <3> QED BY <3>1, <3>3
  <2> QED BY <1>8, <2>1 DEF PasskeyInv
<1>10. Grows
  BY <1>7, <1>8, GrowsPasskey
<1>11. AccountInv' /\ ContactInv' /\ SessionInv' /\ ChallengeInv'
  BY <1>7, <1>10, SessionsSame, OthersSame DEF Inv, AccountInv, ContactInv, Enabled
<1>12. /\ DOMAIN req' = Requests /\ req'[r] = None /\ Via(r)' = None
       /\ \A u \in Requests : u # r => req'[u] = req[u] /\ Via(u)' = Via(u)
  BY <1>7, StopFacts DEF Inv
<1>13. \A q \in DOMAIN passkey : passkey'[q].via = passkey[q].via
  BY <1>3, <1>5, <1>8
<1>14. RequestInv' /\ SpentOnce'
  BY <1>7, <1>8, <1>10, <1>12, <1>13, RequestsKept, SpentKept DEF Inv
<1> QED BY <1>9, <1>11, <1>14 DEF Inv

-----------------------------------------------------------------------------
(* The account.                                                            *)

\* The requests when none of them takes a step.
LEMMA RequestsSame ==
  ASSUME Inv, Grows, req' = req,
         DOMAIN session' = DOMAIN session, DOMAIN passkey' = DOMAIN passkey,
         \A s \in DOMAIN session : session'[s].via = session[s].via,
         \A p \in DOMAIN passkey : passkey'[p].via = passkey[p].via
  PROVE  RequestInv' /\ SpentOnce'
<1>1. ASSUME NEW u \in Requests, req'[u] # None PROVE LocalOK(req[u])'
  <2>1. PICK q : q = req[u]
    OBVIOUS
  <2>2. req'[u] = q /\ LocalOK(q)
    BY <1>1, <2>1 DEF Inv, RequestInv
  <2>3. LocalOK(q)'
    BY <2>2, LocalKept DEF Inv
  <2> QED BY <2>2, <2>3
<1>2. RequestInv'
  BY <1>1 DEF Inv, RequestInv
<1>3. \A u \in Requests : Via(u)' = Via(u)
  BY DEF Via
<1>4. SpentOnce'
  BY <1>3 DEF Inv, SpentOnce
<1> QED BY <1>2, <1>4

\* Setting the state of an account leaves its trust domain, and other accounts.
LEMMA AccountPut ==
  ASSUME Inv, NEW a \in Accounts, NEW st \in AccountStates,
         account' = [account EXCEPT ![a].state = st]
  PROVE  /\ account' \in [Accounts -> AccountRow]
         /\ \A b \in Accounts : account'[b].domain = account[b].domain
         /\ account'[a].state = st
         /\ \A b \in Accounts : b # a => account'[b] = account[b]
<1>1. PICK x, row : x = account[a] /\ row = [x EXCEPT !.state = st]
  OBVIOUS
<1>2. x \in AccountRow
  BY <1>1 DEF Inv, AccountInv
<1>3. row \in AccountRow /\ row.domain = x.domain /\ row.state = st
  BY <1>1, <1>2 DEF AccountRow
<1>4. account' = [account EXCEPT ![a] = row]
  BY <1>1
<1> QED BY <1>1, <1>3, <1>4 DEF Inv, AccountInv

\* revokeAll and lockAccount preserve the invariant.
LEMMA LockStep ==
  ASSUME Inv, NEW a \in Accounts, RevokeAll(a) \/ LockAccount(a)
  PROVE  Inv'
<1>1. /\ session' = Revoked(a) /\ req' = req
      /\ UNCHANGED <<now, access, contact, challenge, passkey>>
  BY DEF RevokeAll, LockAccount
<1>2. /\ account' \in [Accounts -> AccountRow]
      /\ \A b \in Accounts : account'[b].domain = account[b].domain
      /\ \A b \in Accounts : b # a => account'[b] = account[b]
  <2>1. CASE RevokeAll(a)
    BY <2>1 DEF RevokeAll, Inv, AccountInv
  <2>2. CASE LockAccount(a)
    <3>1. "locked" \in AccountStates
      BY DEF AccountStates
    <3>2. account' = [account EXCEPT ![a].state = "locked"]
      BY <2>2 DEF LockAccount
    <3> QED BY <3>1, <3>2, AccountPut
  <2> QED BY <2>1, <2>2
<1>3. /\ session' = [s \in DOMAIN session |-> session'[s]]
      /\ \A s \in DOMAIN session :
           /\ Lessened(session[s], session'[s])
           /\ session'[s].state = "active" => session[s].account # a
  BY <1>1, RevokedFacts
<1>4. \A s \in DOMAIN session : session[s].account \in Accounts
  BY RowFacts DEF SessionRow
<1>5. /\ Grows /\ AccountInv' /\ SessionInv' /\ ChallengeInv' /\ PasskeyInv'
      /\ DOMAIN session' = DOMAIN session
      /\ \A s \in DOMAIN session : session'[s].via = session[s].via
  BY <1>1, <1>2, <1>3, <1>4, SessionsLessened
<1>6. ContactInv'
  BY <1>1 DEF Inv, ContactInv, Enabled
<1>7. RequestInv' /\ SpentOnce'
  BY <1>1, <1>5, RequestsSame
<1> QED BY <1>5, <1>6, <1>7 DEF Inv

\* recoverAndRevokeSessions preserves the invariant: the sessions of an account
\* that is suspended are revoked with it.
LEMMA RecoverStep ==
  ASSUME Inv, NEW r \in Requests, Recover(r)
  PROVE  Inv'
<1>1. LocalOK(req[r]) /\ req[r].pc = "recover" /\ Via(r) = req[r].via
  BY RequestFacts DEF Recover
<1>2. PICK a \in Accounts : a = req[r].account
  BY <1>1 DEF LocalOK
<1>3. UNCHANGED <<now, access, contact, challenge, passkey>>
  BY DEF Recover
<1>4. CASE account[a].state \notin {"active", "locked"}
  <2>1. Stop(r) /\ UNCHANGED <<now, tables>>
    BY <1>2, <1>3, <1>4 DEF Recover, tables
  <2>2. PICK q : q = None
    OBVIOUS
  <2>3. req' = [req EXCEPT ![r] = q]
    BY <2>1, <2>2 DEF Stop
  <2> QED BY <2>1, <2>2, <2>3, QuietStep
<1>5. CASE account[a].state \in {"active", "locked"}
  <2>1. PICK st \in AccountStates : st = IF Participant(a) THEN "active" ELSE "suspended"
    BY DEF AccountStates
  <2>2. session' = Revoked(a) /\ account' = [account EXCEPT ![a].state = st]
    BY <1>2, <1>5, <2>1 DEF Recover
  <2>3. PICK q : q = IF Participant(a)
                     THEN [req[r] EXCEPT !.pc = "create", !.kind = "recovery_grant",
                                         !.about = None]
                     ELSE None
    OBVIOUS
  <2>4. req' = [req EXCEPT ![r] = q]
    BY <1>2, <1>5, <2>3 DEF Recover, Stop
  <2>5. q # None => LocalOK(q) /\ q.via = Via(r)
    <3>1. SUFFICES ASSUME q # None PROVE LocalOK(q) /\ q.via = Via(r)
      OBVIOUS
    <3>2. q = [req[r] EXCEPT !.pc = "create", !.kind = "recovery_grant", !.about = None]
      BY <2>3, <3>1
    <3>3. /\ q.pc = "create" /\ q.kind = "recovery_grant" /\ q.about = None
          /\ q.account = req[r].account /\ q.via = req[r].via /\ q.at = req[r].at
          /\ DOMAIN q = Fields
      BY <1>1, <3>2 DEF LocalOK, Fields
    <3> QED BY <1>1, <1>2, <3>3 DEF LocalOK, Creates
  <2>6. /\ account' \in [Accounts -> AccountRow]
        /\ \A b \in Accounts : account'[b].domain = account[b].domain
        /\ \A b \in Accounts : b # a => account'[b] = account[b]
    BY <2>2, AccountPut
  <2>7. /\ session' = [s \in DOMAIN session |-> session'[s]]
        /\ \A s \in DOMAIN session :
             /\ Lessened(session[s], session'[s])
             /\ session'[s].state = "active" => session[s].account # a
    BY <2>2, RevokedFacts
  <2>8. \A s \in DOMAIN session : session[s].account \in Accounts
    BY RowFacts DEF SessionRow
  <2>9. /\ Grows /\ AccountInv' /\ SessionInv' /\ ChallengeInv' /\ PasskeyInv'
        /\ DOMAIN session' = DOMAIN session
        /\ \A s \in DOMAIN session : session'[s].via = session[s].via
    BY <1>3, <2>6, <2>7, <2>8, SessionsLessened
  <2>10. ContactInv'
    BY <1>3 DEF Inv, ContactInv, Enabled
  <2>11. /\ DOMAIN req' = Requests /\ req'[r] = q
         /\ Via(r)' = (IF q = None THEN None ELSE q.via)
         /\ \A u \in Requests : u # r => req'[u] = req[u] /\ Via(u)' = Via(u)
    BY <2>4, PutFacts DEF Inv
  <2>12. q # None => LocalOK(q)'
    BY <2>5, <2>9, LocalKept DEF Inv
  <2>13. RequestInv'
    BY <2>9, <2>11, <2>12, RequestsKept DEF Inv
  <2>14. SpentOnce'
    BY <1>3, <2>5, <2>9, <2>11, SpentKept DEF Inv
  <2> QED BY <2>9, <2>10, <2>13, <2>14 DEF Inv
<1> QED BY <1>4, <1>5

\* changeVerifiedEmail preserves the invariant: the new address becomes the only
\* enabled one of its account.
LEMMA ChangeEmailStep ==
  ASSUME Inv, NEW r \in Requests, ChangeVerifiedEmail(r)
  PROVE  Inv'
<1>1. LocalOK(req[r]) /\ req[r].pc = "change"
  BY RequestFacts DEF ChangeVerifiedEmail
<1>2. PICK a \in Accounts, e \in Emails : a = req[r].account /\ e = req[r].about
  BY <1>1 DEF LocalOK
<1>3. Stop(r) /\ UNCHANGED <<now, account, access, challenge, passkey>>
  BY DEF ChangeVerifiedEmail
<1>4. PICK q : q = None
  OBVIOUS
<1>5. req' = [req EXCEPT ![r] = q]
  BY <1>3, <1>4 DEF Stop
<1>6. CASE ~(Active(a) /\ contact[e] = None)
  <2>1. UNCHANGED <<now, tables>>
    BY <1>2, <1>3, <1>6 DEF ChangeVerifiedEmail, tables
  <2> QED BY <1>4, <1>5, <2>1, QuietStep
<1>7. CASE Active(a) /\ contact[e] = None
  <2>1. /\ contact' = [f \in Emails |->
             IF f = e THEN [account |-> a, enabled |-> TRUE]
             ELSE IF contact[f] # None /\ contact[f].account = a
             THEN [contact[f] EXCEPT !.enabled = FALSE]
             ELSE contact[f]]
        /\ session' = Revoked(a)
    BY <1>2, <1>7 DEF ChangeVerifiedEmail
  <2>2. None \notin ContactRow
    BY AccountsAssumption
  <2>3. /\ contact'[e] \in ContactRow /\ contact'[e].account = a /\ contact'[e].enabled
    <3>1. PICK row : row = [account |-> a, enabled |-> TRUE]
      OBVIOUS
    <3>2. row \in ContactRow /\ row.account = a /\ row.enabled = TRUE
      BY <3>1 DEF ContactRow
    <3> QED BY <2>1, <3>1, <3>2
  <2>4. ASSUME NEW f \in Emails, f # e
        PROVE  /\ contact'[f] \in ContactRow \cup {None}
               /\ contact'[f] = None \/ contact'[f].account # a \/ contact'[f].enabled = FALSE
               /\ \/ contact'[f] = contact[f]
                  \/ /\ contact[f] # None /\ contact'[f] # None
                     /\ contact[f].account = a /\ contact'[f].account = a
    <3>1. PICK x, row : x = contact[f] /\ row = [x EXCEPT !.enabled = FALSE]
      OBVIOUS
    <3>2. contact'[f] = IF x # None /\ x.account = a THEN row ELSE x
      BY <2>1, <2>4, <3>1
    <3>3. x \in ContactRow \cup {None}
      BY <3>1 DEF Inv, ContactInv
    <3>4. x # None => row \in ContactRow /\ row.account = x.account /\ row.enabled = FALSE
      BY <3>1, <3>3 DEF ContactRow
    <3> QED BY <2>2, <3>1, <3>2, <3>3, <3>4
  <2>5. contact' \in [Emails -> ContactRow \cup {None}]
    BY <2>1, <2>3, <2>4
  <2>6. Enabled(a)' = {e}
    BY <2>2, <2>3, <2>4 DEF Enabled
  <2>7. ASSUME NEW b \in Accounts, b # a PROVE Enabled(b)' = Enabled(b)
    <3>1. ASSUME NEW f \in Emails PROVE f \in Enabled(b)' <=> f \in Enabled(b)
      <4>1. CASE f = e
        BY <1>7, <2>3, <2>7, <4>1 DEF Enabled
      <4>2. CASE f # e
        BY <2>4, <2>7, <4>2 DEF Enabled
      <4> QED BY <4>1, <4>2
    <3> QED BY <3>1 DEF Enabled
  <2>8. ContactInv'
    <3>1. \A b \in Accounts : \E f \in Emails : Enabled(b)' = {f}
      BY <2>6, <2>7 DEF Inv, ContactInv
    <3> QED BY <2>5, <3>1 DEF ContactInv
  <2>9. /\ session' = [s \in DOMAIN session |-> session'[s]]
        /\ \A s \in DOMAIN session : Lessened(session[s], session'[s])
    BY <2>1, RevokedFacts
  <2>10. /\ Grows /\ AccountInv' /\ SessionInv' /\ ChallengeInv' /\ PasskeyInv'
         /\ DOMAIN session' = DOMAIN session
         /\ \A s \in DOMAIN session : session'[s].via = session[s].via
    BY <1>3, <2>9, SessionsLessened DEF Inv, AccountInv
  <2>11. /\ DOMAIN req' = Requests /\ req'[r] = None /\ Via(r)' = None
         /\ \A u \in Requests : u # r => req'[u] = req[u] /\ Via(u)' = Via(u)
    BY <1>3, StopFacts DEF Inv
  <2>12. RequestInv' /\ SpentOnce'
    BY <1>3, <2>10, <2>11, RequestsKept, SpentKept DEF Inv
  <2> QED BY <2>8, <2>10, <2>12 DEF Inv
<1> QED BY <1>6, <1>7

\* A step that changes only access and the accounts it makes active, or the
\* clock.
LEMMA OfficeStep ==
  ASSUME Inv, UNCHANGED <<contact, session, challenge, passkey, req>>,
         now' \in Times, now <= now', account' \in [Accounts -> AccountRow],
         access' \in [Accounts -> [Committees -> AccessRow]],
         \A b \in Accounts :
           /\ account'[b].domain = account[b].domain
           /\ account[b].state = "active" => account'[b].state = "active"
  PROVE  Inv'
<1>1. Grows
  BY DEF Grows
<1>2. AccountInv' /\ ContactInv'
  BY DEF AccountInv, Inv, ContactInv, Enabled
<1>3. SessionInv' /\ ChallengeInv' /\ PasskeyInv'
  BY <1>1, SessionsSame, OthersSame DEF Inv
<1>4. RequestInv' /\ SpentOnce'
  BY <1>1, RequestsSame
<1> QED BY <1>2, <1>3, <1>4 DEF Inv

\* The steps of the committees' staff, and of time, preserve the invariant.
LEMMA StaffStep ==
  ASSUME Inv,
         \/ Tick
         \/ \E a \in Accounts, m \in Committees :
              \/ \E by \in Staff : InviteCommittee(a, m, by) \/ ApproveCommittee(a, m, by)
              \/ ActivateCommittee(a, m)
  PROVE  Inv'
<1>0. now \in Nat /\ now \in Times /\ MaxTime \in Nat
  BY TimesNat, AccountsAssumption DEF Inv, AccountInv
<1>1. CASE Tick
  <2>1. now' \in Times /\ now <= now'
    BY <1>0, <1>1 DEF Tick, Times
  <2>2. UNCHANGED <<account, access, contact, session, challenge, passkey, req>>
    BY <1>1 DEF Tick, tables
  <2> QED BY <2>1, <2>2, OfficeStep DEF Inv, AccountInv
<1>2. ASSUME NEW a \in Accounts, NEW m \in Committees, NEW row \in AccessRow,
             access' = [access EXCEPT ![a][m] = row]
      PROVE  access' \in [Accounts -> [Committees -> AccessRow]]
  BY <1>2 DEF Inv, AccountInv
<1>3. ASSUME NEW a \in Accounts, NEW m \in Committees, NEW st,
             st \in {"approved", "active"},
             access' = [access EXCEPT ![a][m].state = st]
      PROVE  access' \in [Accounts -> [Committees -> AccessRow]]
  <2>1. PICK x, row : x = access[a][m] /\ row = [x EXCEPT !.state = st]
    OBVIOUS
  <2>2. x \in AccessRow
    BY <2>1 DEF Inv, AccountInv
  <2>3. row \in AccessRow
    BY <1>3, <2>1, <2>2 DEF AccessRow
  <2>4. access' = [access EXCEPT ![a][m] = row]
    BY <1>3, <2>1
  <2> QED BY <1>2, <2>3, <2>4
<1>4. ASSUME NEW a \in Accounts, NEW m \in Committees, NEW by \in Staff,
             InviteCommittee(a, m, by)
      PROVE  Inv'
  <2>1. PICK row \in AccessRow : row = [state |-> "invited", inviter |-> by]
    BY DEF AccessRow
  <2>2. access' = [access EXCEPT ![a][m] = row]
    BY <1>4, <2>1 DEF InviteCommittee
  <2>3. access' \in [Accounts -> [Committees -> AccessRow]]
    BY <1>2, <2>2
  <2> QED BY <1>0, <1>4, <2>3, OfficeStep DEF InviteCommittee, Inv, AccountInv
<1>5. ASSUME NEW a \in Accounts, NEW m \in Committees, NEW by \in Staff,
             ApproveCommittee(a, m, by)
      PROVE  Inv'
  <2>1. access' \in [Accounts -> [Committees -> AccessRow]]
    BY <1>3, <1>5 DEF ApproveCommittee
  <2> QED BY <1>0, <1>5, <2>1, OfficeStep DEF ApproveCommittee, Inv, AccountInv
<1>6. ASSUME NEW a \in Accounts, NEW m \in Committees, ActivateCommittee(a, m)
      PROVE  Inv'
  <2>1. access' \in [Accounts -> [Committees -> AccessRow]]
    BY <1>3, <1>6 DEF ActivateCommittee
  <2>2. PICK st \in AccountStates : st = "active"
    BY DEF AccountStates
  <2>3. account' = [account EXCEPT ![a].state = st]
    BY <1>6, <2>2 DEF ActivateCommittee
  <2>4. /\ account' \in [Accounts -> AccountRow]
        /\ \A b \in Accounts : account'[b].domain = account[b].domain
        /\ account'[a].state = st
        /\ \A b \in Accounts : b # a => account'[b] = account[b]
    BY <2>3, AccountPut
  <2> QED BY <1>0, <1>6, <2>1, <2>2, <2>4, OfficeStep DEF ActivateCommittee
<1> QED BY <1>1, <1>4, <1>5, <1>6

-----------------------------------------------------------------------------
(* The theorems.                                                           *)

\* The initial states satisfy the invariant.
LEMMA InvInit == Init => Inv
<1> SUFFICES ASSUME Init PROVE Inv
  OBVIOUS
<1>1. AccountInv
  <2>1. \A a \in Accounts : account[a] \in AccountRow
    BY DEF Init, AccountRow, Domains, AccountStates
  <2>2. [state |-> "none", inviter |-> None] \in AccessRow
    BY DEF AccessRow
  <2> QED BY <2>1, <2>2, TimesNat DEF Init, AccountInv
<1>2. ContactInv
  <2>1. None \notin ContactRow
    BY AccountsAssumption
  <2>2. ASSUME NEW a \in Accounts
        PROVE  /\ FirstEmail[a] \in Emails
               /\ contact[FirstEmail[a]] \in ContactRow
               /\ contact[FirstEmail[a]].account = a
               /\ contact[FirstEmail[a]].enabled = TRUE
    <3>1. PICK e : e = FirstEmail[a]
      OBVIOUS
    <3>2. PICK b : b = CHOOSE c \in Accounts : FirstEmail[c] = e
      OBVIOUS
    <3>3. b \in Accounts /\ FirstEmail[b] = e
      BY <3>1, <3>2
    <3>4. b = a /\ e \in Emails
      BY <3>1, <3>3, AccountsAssumption
    <3>5. contact[e] = [account |-> b, enabled |-> TRUE]
      BY <3>1, <3>2, <3>4 DEF Init
    <3>6. PICK row : row = [account |-> b, enabled |-> TRUE]
      OBVIOUS
    <3>7. row \in ContactRow /\ row.account = b /\ row.enabled = TRUE
      BY <3>3, <3>6 DEF ContactRow
    <3> QED BY <3>1, <3>4, <3>5, <3>6, <3>7
  <2>3. ASSUME NEW e \in Emails, \A a \in Accounts : FirstEmail[a] # e
        PROVE  contact[e] = None
    BY <2>3 DEF Init
  <2>5. contact \in [Emails -> ContactRow \cup {None}]
    <3>1. \A e \in Emails : contact[e] \in ContactRow \cup {None}
      BY <2>2, <2>3
    <3>2. contact = [e \in Emails |-> contact[e]]
      BY DEF Init
    <3> QED BY <3>1, <3>2
  <2>6. ASSUME NEW a \in Accounts PROVE Enabled(a) = {FirstEmail[a]}
    <3>1. FirstEmail[a] \in Enabled(a)
      BY <2>1, <2>2 DEF Enabled
    <3>2. ASSUME NEW e \in Enabled(a) PROVE e = FirstEmail[a]
      <4>1. e \in Emails /\ contact[e] # None /\ contact[e].account = a
        BY DEF Enabled
      <4>2. PICK b \in Accounts : FirstEmail[b] = e
        BY <2>3, <4>1
      <4>3. contact[e].account = b
        BY <2>2, <4>2
      <4> QED BY <4>1, <4>2, <4>3
    <3> QED BY <3>1, <3>2
  <2> QED BY <2>2, <2>5, <2>6 DEF ContactInv
<1>3. SessionInv /\ ChallengeInv
  BY DEF Init, SessionInv, ChallengeInv
<1>4. passkey \in Seq(PasskeyRow) /\ \A p \in DOMAIN passkey : p = 1 /\ passkey[p].via = None
  <2>1. CASE \E a \in Accounts : account[a].domain = "participant"
    <3>1. PICK a : a = CHOOSE c \in Accounts : account[c].domain = "participant"
      OBVIOUS
    <3>2. a \in Accounts
      BY <2>1, <3>1
    <3>3. PICK row : row = [account |-> a, state |-> "active", via |-> None]
      OBVIOUS
    <3>4. row \in PasskeyRow /\ row.via = None
      BY <3>2, <3>3 DEF PasskeyRow
    <3>5. passkey = <<row>>
      BY <2>1, <3>1, <3>3 DEF Init
    <3> QED BY <3>4, <3>5
  <2>2. CASE ~\E a \in Accounts : account[a].domain = "participant"
    BY <2>2 DEF Init
  <2> QED BY <2>1, <2>2
<1>5. PasskeyInv
  BY <1>4 DEF PasskeyInv, PasskeyOK
<1>6. RequestInv /\ SpentOnce
  BY <1>4 DEF Init, RequestInv, SpentOnce, Via
<1> QED BY <1>1, <1>2, <1>3, <1>5, <1>6 DEF Inv

\* Every step preserves the invariant.
LEMMA InvStep == Inv /\ [Next]_vars => Inv'
<1> SUFFICES ASSUME Inv, [Next]_vars PROVE Inv'
  OBVIOUS
<1>1. CASE UNCHANGED vars
  <2>1. UNCHANGED <<now, tables>> /\ req' = req
    BY <1>1 DEF vars
  <2>2. /\ Grows /\ AccountInv' /\ ContactInv' /\ SessionInv' /\ ChallengeInv'
        /\ PasskeyInv'
    BY <2>1, TablesSame
  <2>3. RequestInv' /\ SpentOnce'
    BY <2>1, <2>2, RequestsSame DEF tables
  <2> QED BY <2>2, <2>3 DEF Inv
<1>2. ASSUME NEW r \in Requests, Begin(r) PROVE Inv'
  BY <1>2, BeginStep
<1>3. ASSUME NEW r \in Requests, Step(r) PROVE Inv'
  BY <1>3, ReadStep, CreateChallengeStep, ConsumeStep, TouchStep, CreateSessionStep,
     SaveStep, RevokeCredentialStep, RecoverStep, ChangeEmailStep DEF Step
<1>4. ASSUME NEW a \in Accounts, RevokeAll(a) \/ LockAccount(a) PROVE Inv'
  BY <1>4, LockStep
<1> QED BY <1>1, <1>2, <1>3, <1>4, StaffStep DEF Next

\* The invariant holds in every reachable state.
LEMMA InvHolds == Spec => []Inv
  BY InvInit, InvStep, PTL DEF Spec

\* Every table always holds what its columns may hold, and satisfies its CHECK
\* constraints: what the requests carry from one transaction of the repository
\* to the next never makes a row that the database would refuse.
THEOREM AccountsTypeCorrect == Spec => []TypeOK
<1>1. Inv => TypeOK
  BY DEF Inv, TypeOK, AccountInv, ContactInv, SessionInv, ChallengeInv, PasskeyInv,
         SessionOK, ChallengeOK
<1> QED BY <1>1, InvHolds, PTL

\* An active session always belongs to an active account and every account has
\* exactly one enabled address: what lockAccount, recoverAndRevokeSessions and
\* changeVerifiedEmail do together is not undone by a sign-in that began before.
THEOREM AccountsRowsAgree == Spec => []AccountRowsAgree
<1>1. ASSUME Inv PROVE AccountRowsAgree
  <2>1. \A s \in DOMAIN session : session[s].state = "active" => Active(session[s].account)
    BY <1>1, RowFacts DEF SessionOK
  <2>2. ASSUME NEW a \in Accounts PROVE Cardinality(Enabled(a)) = 1
    <3>1. PICK e \in Emails : Enabled(a) = {e}
      BY <1>1 DEF Inv, ContactInv
    <3> QED BY <3>1, FS_Singleton
  <2> QED BY <2>1, <2>2 DEF AccountRowsAgree, Enabled
<1> QED BY <1>1, InvHolds, PTL

\* A session and a passkey always rest on a used challenge of their own, of the
\* right kind, account and trust domain: consume grants at most once, whoever
\* presents the challenge, and whatever dies before the grant is stored.
THEOREM AccountsProvenOnce == Spec => []ProvenOnce
<1>1. ASSUME Inv PROVE ProvenOnce
  <2>1. ASSUME NEW s \in DOMAIN session
        PROVE  LET k == challenge[session[s].via] IN
               /\ k.state = "consumed"
               /\ k.domain = account[session[s].account].domain
               /\ IF session[s].strength = "passkey" THEN k.kind = "passkey_authentication"
                  ELSE k.kind = "email_sign_in" /\ k.account = session[s].account
               /\ k.domain = "committee" => session[s].strength = "passkey"
               /\ \A t \in DOMAIN session : session[t].via = session[s].via => s = t
    <3>1. SessionOK(session[s])
      BY <1>1, RowFacts
    <3>2. \A t \in DOMAIN session : session[t].via = session[s].via => s = t
      BY <1>1 DEF Inv, SpentOnce
    <3> QED BY <3>1, <3>2 DEF SessionOK, Participant
  <2>2. ASSUME NEW p \in {p \in DOMAIN passkey : passkey[p].via # None}
        PROVE  LET k == challenge[passkey[p].via] IN
               /\ k.state = "consumed"
               /\ k.kind = "passkey_registration" /\ k.account = passkey[p].account
               /\ \A q \in DOMAIN passkey : passkey[q].via = passkey[p].via => p = q
    <3>1. PasskeyOK(passkey[p]) /\ passkey[p].via # None
      BY <1>1, RowFacts
    <3>2. \A q \in DOMAIN passkey : passkey[q].via = passkey[p].via => p = q
      BY <1>1, <3>1 DEF Inv, SpentOnce
    <3> QED BY <3>1, <3>2 DEF PasskeyOK
  <2> QED BY <2>1, <2>2 DEF ProvenOnce
<1> QED BY <1>1, InvHolds, PTL

\* A step of RevokedIsFinal.
Final ==
  /\ \A s \in DOMAIN session : session[s].state = "revoked" => session'[s] = session[s]
  /\ \A p \in DOMAIN passkey : passkey[p].state = "revoked" => passkey'[p] = passkey[p]
  /\ \A k \in DOMAIN challenge :
       challenge[k].state = "consumed" => challenge'[k] = challenge[k]

\* Revoking a row that is revoked changes nothing.
LEMMA RevokedAgain ==
  ASSUME NEW s \in SessionRow \cup PasskeyRow, s.state = "revoked"
  PROVE  [s EXCEPT !.state = "revoked"] = s
  BY DEF SessionRow, PasskeyRow

\* The revocation of sessions leaves the revoked ones alone.
LEMMA SessionsFinal ==
  ASSUME Inv,
         \/ session' = session
         \/ \E a \in Accounts : session' = Revoked(a)
         \/ \E s \in DOMAIN session : session' = [session EXCEPT ![s].state = "revoked"]
  PROVE  \A s \in DOMAIN session : session[s].state = "revoked" => session'[s] = session[s]
<1> SUFFICES ASSUME NEW s \in DOMAIN session, session[s].state = "revoked"
             PROVE  session'[s] = session[s]
  OBVIOUS
<1>1. PICK x : x = session[s]
  OBVIOUS
<1>2. x \in SessionRow \cup PasskeyRow /\ x.state = "revoked"
  BY <1>1, RowFacts
<1>3. [x EXCEPT !.state = "revoked"] = x
  BY <1>2, RevokedAgain
<1>4. ASSUME NEW a \in Accounts, session' = Revoked(a) PROVE session'[s] = session[s]
  <2>1. session'[s] = IF x.account = a THEN [x EXCEPT !.state = "revoked"] ELSE x
    BY <1>1, <1>4 DEF Revoked
  <2> QED BY <1>1, <1>3, <2>1
<1>5. ASSUME NEW t \in DOMAIN session, session' = [session EXCEPT ![t].state = "revoked"]
      PROVE  session'[s] = session[s]
  <2>1. CASE t = s
    <3>1. session'[s] = [x EXCEPT !.state = "revoked"]
      BY <1>1, <1>5, <2>1
    <3> QED BY <1>1, <1>3, <3>1
  <2>2. CASE t # s
    BY <1>5, <2>2
  <2> QED BY <2>1, <2>2
<1> QED BY <1>4, <1>5

\* A revoked session or passkey and a used challenge never change again: touch,
\* the rotation and the revocations, all of which act on a row that an earlier
\* transaction has read, bring none of them back.
THEOREM AccountsRevokedIsFinal == Spec => RevokedIsFinal
<1>1. ASSUME Inv, [Next]_vars PROVE Final \/ UNCHANGED vars
  <2>1. SUFFICES ASSUME Next PROVE Final
    BY <1>1
  <2>2. ASSUME UNCHANGED <<challenge, passkey>>,
               \/ session' = session
               \/ \E a \in Accounts : session' = Revoked(a)
               \/ \E s \in DOMAIN session : session' = [session EXCEPT ![s].state = "revoked"]
        PROVE  Final
    BY <1>1, <2>2, SessionsFinal DEF Final
  <2>3. ASSUME UNCHANGED <<now, tables>> PROVE Final
    BY <2>2, <2>3 DEF tables
  <2>4. CASE Tick
    BY <2>2, <2>4 DEF Tick, tables
  <2>5. ASSUME NEW r \in Requests, Begin(r) PROVE Final
    <3>1. UNCHANGED <<now, tables>>
      BY <2>5 DEF Begin, BeginEmail, BeginEmailChange, BeginRegistration,
                  BeginAuthentication, Arrive
    <3> QED BY <2>3, <3>1
  <2>6. ASSUME NEW r \in Requests, Step(r) PROVE Final
    <3>1. CASE \/ Die(r) \/ RegisterWithGrant(r) \/ UpdateUsage(r)
               \/ \E s \in DOMAIN session : Authenticate(r, s)
               \/ \E p \in DOMAIN passkey : FindCredential(r, p)
               \/ \E p \in DOMAIN passkey, alternate \in BOOLEAN : BeginRevoke(r, p, alternate)
      <4>1. UNCHANGED <<now, tables>>
        BY <3>1 DEF Die, RegisterWithGrant, UpdateUsage, Authenticate, FindCredential,
                    BeginRevoke, Arrive
      <4> QED BY <2>3, <4>1
    <3>2. CASE CreateChallenge(r)
      <4>1. /\ UNCHANGED <<session, passkey>>
            /\ \E x : challenge' = Append(challenge, x)
        BY <3>2 DEF CreateChallenge
      <4>2. \A k \in DOMAIN challenge : challenge'[k] = challenge[k]
        BY <1>1, <4>1 DEF Inv, ChallengeInv
      <4> QED BY <4>1, <4>2 DEF Final
    <3>3. ASSUME NEW k \in DOMAIN challenge, ConsumeChallenge(r, k) PROVE Final
      <4>1. /\ UNCHANGED <<session, passkey>> /\ challenge[k].state = "pending"
            /\ challenge' = [challenge EXCEPT ![k].state = "consumed"]
        BY <3>3 DEF ConsumeChallenge, Consumable
      <4>2. \A j \in DOMAIN challenge : j # k => challenge'[j] = challenge[j]
        BY <4>1
      <4> QED BY <4>1, <4>2 DEF Final
    <3>4. ASSUME NEW s \in DOMAIN session, RotateSession(r, s) PROVE Final
      BY <2>2, <3>4 DEF RotateSession
    <3>5. CASE CreateSession(r)
      <4>1. /\ UNCHANGED <<challenge, passkey>>
            /\ session' = session \/ \E x : session' = Append(session, x)
        BY <3>5 DEF CreateSession
      <4>2. \A s \in DOMAIN session : session'[s] = session[s]
        BY <1>1, <4>1 DEF Inv, SessionInv
      <4> QED BY <4>1, <4>2 DEF Final
    <3>6. CASE Touch(r)
      <4>1. PICK s, at : s = req[r].about /\ at = req[r].at
        OBVIOUS
      <4>2. /\ UNCHANGED <<challenge, passkey>>
            /\ session' = IF session[s].state = "active"
                          THEN [session EXCEPT ![s].idle = NextIdle(s, at)]
                          ELSE session
        BY <3>6, <4>1 DEF Touch
      <4>3. ASSUME NEW t \in DOMAIN session, session[t].state = "revoked"
            PROVE  session'[t] = session[t]
        <5>1. CASE session[s].state = "active"
          <6>1. t # s
            BY <4>3, <5>1
          <6> QED BY <4>2, <5>1, <6>1
        <5>2. CASE session[s].state # "active"
          BY <4>2, <5>2
        <5> QED BY <5>1, <5>2
      <4> QED BY <4>2, <4>3 DEF Final
    <3>7. CASE ExpireSession(r)
      <4>1. req[r].about \in DOMAIN session
        BY <1>1, <3>7, RequestFacts DEF ExpireSession, LocalOK
      <4> QED BY <2>2, <3>7, <4>1 DEF ExpireSession
    <3>8. CASE SaveCredential(r)
      <4>1. /\ UNCHANGED <<challenge, session>>
            /\ passkey' = passkey \/ \E x : passkey' = Append(passkey, x)
        BY <3>8 DEF SaveCredential
      <4>2. \A p \in DOMAIN passkey : passkey'[p] = passkey[p]
        BY <1>1, <4>1 DEF Inv, PasskeyInv
      <4> QED BY <4>1, <4>2 DEF Final
    <3>9. CASE RevokeCredential(r)
      <4>1. PICK p : p = req[r].about
        OBVIOUS
      <4>2. /\ UNCHANGED <<challenge, session>>
            /\ passkey' = [passkey EXCEPT ![p].state = "revoked"]
        BY <3>9, <4>1 DEF RevokeCredential
      <4>3. ASSUME NEW q \in DOMAIN passkey, passkey[q].state = "revoked"
            PROVE  passkey'[q] = passkey[q]
        <5>1. PICK x : x = passkey[q]
          OBVIOUS
        <5>2. x \in SessionRow \cup PasskeyRow /\ x.state = "revoked"
          BY <1>1, <4>3, <5>1, RowFacts
        <5>3. [x EXCEPT !.state = "revoked"] = x
          BY <5>2, RevokedAgain
        <5>4. CASE q = p
          <6>1. passkey'[q] = [x EXCEPT !.state = "revoked"]
            BY <4>2, <5>1, <5>4
          <6> QED BY <5>1, <5>3, <6>1
        <5>5. CASE q # p
          BY <4>2, <5>5
        <5> QED BY <5>4, <5>5
      <4> QED BY <4>2, <4>3 DEF Final
    <3>10. CASE Recover(r)
      <4>1. req[r].account \in Accounts
        BY <1>1, <3>10, RequestFacts DEF Recover, LocalOK
      <4> QED BY <2>2, <3>10, <4>1 DEF Recover
    <3>11. CASE ChangeVerifiedEmail(r)
      <4>1. req[r].account \in Accounts
        BY <1>1, <3>11, RequestFacts DEF ChangeVerifiedEmail, LocalOK
      <4> QED BY <2>2, <3>11, <4>1 DEF ChangeVerifiedEmail
    <3> QED BY <2>6, <3>1, <3>2, <3>3, <3>4, <3>5, <3>6, <3>7, <3>8, <3>9, <3>10, <3>11
            DEF Step
  <2>7. ASSUME NEW a \in Accounts, RevokeAll(a) \/ LockAccount(a) PROVE Final
    BY <2>2, <2>7 DEF RevokeAll, LockAccount
  <2>8. ASSUME NEW a \in Accounts, NEW m \in Committees,
               \/ \E by \in Staff : InviteCommittee(a, m, by) \/ ApproveCommittee(a, m, by)
               \/ ActivateCommittee(a, m)
        PROVE  Final
    BY <2>2, <2>8 DEF InviteCommittee, ApproveCommittee, ActivateCommittee
  <2> QED BY <2>1, <2>4, <2>5, <2>6, <2>7, <2>8 DEF Next
<1>2. Inv /\ [Next]_vars => [Final]_vars
  BY <1>1
<1>3. Spec => [][Final]_vars
  BY <1>2, InvHolds, PTL DEF Spec
<1> QED BY <1>3 DEF RevokedIsFinal, Final
=============================================================================
