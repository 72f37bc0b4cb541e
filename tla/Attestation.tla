---------------------------- MODULE Attestation -----------------------------
(***************************************************************************)
(* AttestationRepository (packages/db/src/attestation-repository.ts): an   *)
(* attestation is issued for an issued verification request, activated,    *)
(* and then expires, is revoked or is superseded by the activation of its  *)
(* renewal.  Every command moves the attestation, its status row and its   *)
(* verification request together.  The status that others see is computed  *)
(* from these rows and the clock by cbc_attestation_status_at.             *)
(*                                                                         *)
(* Requests start where VerificationRepository leaves them, issued at      *)
(* version 7.  One committee; references that it does not know are         *)
(* refused like those of another committee.                                *)
(***************************************************************************)
EXTENDS Commands, Machines

CONSTANTS Attestations,   \* external references of attestations
          Requests,       \* verification requests
          Owner,          \* the participant of each request
          MaxValidity     \* MAX_ATTESTATION_VALIDITY_DAYS

AttestationStates == {"issued", "active", "expired", "revoked", "superseded"}

\* A row of attestation with its row of attestation_status.
AttestationRow ==
  [request : Requests, version : 1 .. Cardinality(Attestations),
   from : Times, to : Times, supersedes : Attestations \cup {None},
   state : AttestationStates, complete : BOOLEAN, statusState : AttestationStates,
   statusVersion : 1 .. 3, effective : Times]

\* What a command answers.
AttestationAnswer == [state : AttestationStates, version : 1 .. 3]

\* None stands for what SQL calls NULL, and for a row that is not there.
ASSUME AttestationAssumption ==
  /\ MaxValidity \in Nat \ {0}
  /\ IsFiniteSet(Attestations)
  /\ None \notin Attestations \cup Times \cup AttestationRow \cup AttestationAnswer

VARIABLES att,       \* attestation rows with their attestation_status
          request,   \* verification_request rows
          revoked    \* effective_at of attestation_revocation rows, or None

vars == <<commandVars, att, request, revoked>>
rows == <<att, request, revoked>>

Issuable == 7   \* the version of a request that has just been issued

\* Each table holds what its columns may hold, and its CHECK constraints.
TypeOK ==
  /\ att \in [Attestations -> AttestationRow \cup {None}]
  /\ \A a \in Attestations : att[a] # None =>
       /\ att[a].from < att[a].to /\ att[a].to <= att[a].from + MaxValidity
       /\ (att[a].version = 1) = (att[a].supersedes = None)
  /\ request \in [Requests -> [state : AttestationStates, version : Nat]]
  /\ revoked \in [Attestations -> Times \cup {None}]

Init ==
  /\ CommandsInit
  /\ att = [a \in Attestations |-> None]
  /\ request = [q \in Requests |-> [state |-> "issued", version |-> Issuable]]
  /\ revoked = [a \in Attestations |-> None]

Stored == {a \in Attestations : att[a] # None}
Participant(a) == Owner[att[a].request]
RequestState(a) == request[att[a].request].state

-----------------------------------------------------------------------------
(* The status that a reader gets at an instant.                            *)

\* Mutant: a successor that is issued and not activated yet counts.
CurrentSuccessorIssued(a) == {b \in Stored : att[b].supersedes = a}

CurrentSuccessor(a) ==
  {b \in Stored : att[b].supersedes = a /\ att[b].complete /\ att[b].state = "active"}

\* Mutant: the expiry is looked at before the revocation.
StatusAtExpiryFirst(a, t) ==
  IF ~att[a].complete \/ t < att[a].from THEN "unavailable"
  ELSE IF t >= att[a].to THEN "expired"
  ELSE IF revoked[a] # None /\ revoked[a] <= t THEN "revoked"
  ELSE IF \E b \in CurrentSuccessor(a) : att[b].from <= t THEN "superseded"
  ELSE "active"

\* cbc_attestation_status_at, which statusAt and the view query.
StatusAt(a, t) ==
  IF ~att[a].complete \/ t < att[a].from THEN "unavailable"
  ELSE IF revoked[a] # None /\ revoked[a] <= t THEN "revoked"
  ELSE IF \E b \in CurrentSuccessor(a) : att[b].from <= t THEN "superseded"
  ELSE IF t >= att[a].to THEN "expired"
  ELSE "active"

\* attestationStatusAt of the domain, which the public projection reports.
AttestationStatusAt(a, supersededAt, t) ==
  IF ~att[a].complete \/ t < att[a].from THEN "unavailable"
  ELSE IF revoked[a] # None /\ revoked[a] <= t THEN "revoked"
  ELSE IF supersededAt # None /\ supersededAt <= t THEN "superseded"
  ELSE IF t >= att[a].to THEN "expired"
  ELSE "active"

-----------------------------------------------------------------------------
(* Callers.  They send what the rows they read allow; the rows may change  *)
(* before the command runs.                                                *)

SendIssue(c, a, q) ==
  /\ a \notin Stored
  /\ request[q].state = "issued"
  /\ \E prior \in Stored \cup {None}, from, to \in Times :
       /\ from \in now .. now + 1
       /\ Send(c, "issueAttestation", a, 0, now,
               [request |-> q, supersedes |-> prior, from |-> from, to |-> to])
  /\ UNCHANGED rows

SendChange(c, a) ==
  /\ a \in Stored
  /\ \E command \in {"activateAttestation", "expireAttestation", "revokeAttestation"} :
       /\ att[a].state \in AttestationCommands[command].expected
       /\ Send(c, command, a, att[a].statusVersion, now, None)
  /\ UNCHANGED rows

-----------------------------------------------------------------------------
(* issue.                                                                  *)

\* Mutant: the length of the window is not limited.
ValidWindowAnyLength(arg) == arg.from < arg.to

\* createAttestationValidity, and the CHECK of the table.
ValidWindow(arg) == arg.from < arg.to /\ arg.to <= arg.from + MaxValidity

\* The predecessor of a renewal is the participant's active attestation.
Renewable(arg) ==
  arg.supersedes # None =>
    /\ Participant(arg.supersedes) = Owner[arg.request]
    /\ att[arg.supersedes].state = "active"

NewVersion(arg) ==
  IF arg.supersedes = None THEN 1 ELSE att[arg.supersedes].version + 1

\* The unique indexes: external reference, predecessor, participant's version.
Unique(a, arg) ==
  /\ a \notin Stored
  /\ \A b \in Stored :
       /\ arg.supersedes # None => att[b].supersedes # arg.supersedes
       /\ Participant(b) = Owner[arg.request] => att[b].version # NewVersion(arg)

Issued(arg) ==
  [request |-> arg.request, version |-> NewVersion(arg), from |-> arg.from,
   to |-> arg.to, supersedes |-> arg.supersedes, state |-> "issued",
   complete |-> FALSE, statusState |-> "issued", statusVersion |-> 1,
   effective |-> arg.from]

Issues(c) ==
  LET arg == call[c].arg IN
  /\ Existing(c) = {}
  /\ request[arg.request].state = "issued"
  /\ Renewable(arg)
  /\ ValidWindow(arg)
  /\ Unique(call[c].ref, arg)

Issue(c) ==
  LET a == call[c].ref
      arg == call[c].arg IN
  /\ Runs(c, "issueAttestation")
  /\ \/ Replay(c) /\ UNCHANGED rows
     \/ /\ ~Issues(c) /\ Replayed(c) = {}
        /\ Refuse(c)
        /\ UNCHANGED rows
     \/ /\ Issues(c)
        /\ att' = [att EXCEPT ![a] = Issued(arg)]
        /\ Commit(c, 1, "issued",
             {AuditEvent(c, "issueAttestation", a, None, "issued")},
             {OutboxEvent(c, "AttestationIssued", a, NewVersion(arg), "issued")})
        /\ UNCHANGED <<request, revoked>>

-----------------------------------------------------------------------------
(* activate, expire and revoke.                                            *)

\* The row that a change writes; activation completes the issuance.
Changed(row, state, at) ==
  [row EXCEPT !.state = state, !.complete = @ \/ state = "active",
              !.statusState = state, !.statusVersion = @ + 1, !.effective = at]

\* The triggers on both tables accept the move.
Accepts(a, state) ==
  /\ Allows(AttestationGuard, att[a].state, state)
  /\ Allows(VerificationGuard, RequestState(a), state)

\* Mutant: the request is left as it is.
UpdateAttestationOnly(moves, at) ==
  /\ \A a \in DOMAIN moves : Accepts(a, moves[a])
  /\ att' = [a \in Attestations |->
               IF a \in DOMAIN moves THEN Changed(att[a], moves[a], at) ELSE att[a]]
  /\ UNCHANGED request

\* updateAttestationAndRequest, for every attestation that a command moves.
UpdateAttestationAndRequest(moves, at) ==
  /\ \A a \in DOMAIN moves : Accepts(a, moves[a])
  /\ att' = [a \in Attestations |->
               IF a \in DOMAIN moves THEN Changed(att[a], moves[a], at) ELSE att[a]]
  /\ request' = [q \in Requests |->
       LET moved == {a \in DOMAIN moves : att[a].request = q} IN
       IF moved = {} THEN request[q]
       ELSE [state |-> moves[CHOOSE a \in moved : TRUE],
             version |-> request[q].version + 1]]

\* Mutant: the renewal supersedes nothing.
PredecessorsNone(a) == {}

\* Mutant: a predecessor that is no longer active is passed over.
PredecessorsIfActive(a) ==
  IF att[a].supersedes # None /\ RequestState(att[a].supersedes) = "active"
  THEN {att[a].supersedes} ELSE {}

\* The attestation that the activation of a renewal supersedes.
Predecessors(a) == {att[a].supersedes} \ {None}

\* The states that a command moves attestations to.
Moves(command, a) ==
  LET state == AttestationCommands[command].next
      prior == IF command = "activateAttestation" THEN Predecessors(a) ELSE {} IN
  [b \in {a} \cup prior |-> IF b = a THEN state ELSE "superseded"]

\* The instant observed by the caller lies where the command needs it.
InWindow(command, row, at) ==
  CASE command = "activateAttestation" -> row.from <= at /\ at < row.to
    [] command = "expireAttestation"   -> at >= row.to
    [] OTHER                           -> TRUE

\* activate, expire and supersede ask for the request's state, revoke for the
\* attestation's own.
Expected(command, a) ==
  /\ (IF command = "revokeAttestation" THEN att[a].state ELSE RequestState(a))
       \in AttestationCommands[command].expected
  /\ command = "activateAttestation" =>
       \A b \in Predecessors(a) :
         RequestState(b) \in AttestationCommands["supersedeAttestation"].expected

Changes(c) ==
  LET a == call[c].ref
      command == call[c].command IN
  /\ Existing(c) = {}
  /\ att[a].statusVersion = call[c].version
  /\ InWindow(command, att[a], call[c].at)
  /\ Expected(command, a)
  /\ \A b \in DOMAIN Moves(command, a) : Accepts(b, Moves(command, a)[b])

EventNames ==
  [active |-> "AttestationActivated", expired |-> "AttestationExpired",
   revoked |-> "AttestationRevoked", superseded |-> "AttestationSuperseded"]

AuditName(command, state) ==
  IF state = "superseded" THEN "supersedePriorAttestation" ELSE command

Audited(c, moves) ==
  {AuditEvent(c, AuditName(call[c].command, moves[b]), b, att[b].state, moves[b]) :
     b \in DOMAIN moves}

\* Mutant: only the attestation that the command names is told of.
EnqueuedOwn(c, moves) ==
  {OutboxEvent(c, EventNames[moves[b]], b, att[b].version, moves[b]) :
     b \in {call[c].ref}}

Enqueued(c, moves) ==
  {OutboxEvent(c, EventNames[moves[b]], b, att[b].version, moves[b]) :
     b \in DOMAIN moves}

Change(c) ==
  LET a == call[c].ref
      command == call[c].command
      moves == Moves(command, a) IN
  /\ Open(c) /\ command # "issueAttestation"
  /\ \/ Replay(c) /\ UNCHANGED rows
     \/ /\ ~Changes(c) /\ Replayed(c) = {}
        /\ Refuse(c)
        /\ UNCHANGED rows
     \/ /\ Changes(c)
        /\ UpdateAttestationAndRequest(moves, call[c].at)
        /\ revoked' = IF command = "revokeAttestation"
                      THEN [revoked EXCEPT ![a] = call[c].at] ELSE revoked
        /\ Commit(c, att[a].statusVersion + 1, moves[a],
             Audited(c, moves), Enqueued(c, moves))

\* Time passes.
Tick ==
  /\ Advance
  /\ UNCHANGED <<call, ledgers, rows>>

Next ==
  \/ Tick
  \/ \E c \in Callers :
       \/ \E a \in Attestations : \/ \E q \in Requests : SendIssue(c, a, q)
                                  \/ SendChange(c, a)
       \/ Issue(c)
       \/ Change(c)

Spec == Init /\ [][Next]_vars

-----------------------------------------------------------------------------
(* Properties.                                                             *)

Lapsed == {"expired", "revoked"}

\* The three tables tell the same story, although only the state of one of
\* them is checked before a change: the attestation, its status row and its
\* verification request are in the same state, the status version counts the
\* changes of the request since its issuance, and no request carries two
\* attestations, which would move it twice.
RecordsAgree ==
  /\ \A a \in Stored :
       /\ att[a].statusState = att[a].state
       /\ RequestState(a) = att[a].state
       /\ request[att[a].request].version = Issuable + att[a].statusVersion - 1
  /\ \A a, b \in Stored : att[a].request = att[b].request => a = b

\* Superseding is one step with the renewal's activation (ADR 0004: "Activating
\* the successor supersedes the predecessor"): a renewal has left issued if and
\* only if its predecessor is superseded, a superseded attestation has such a
\* renewal, and a participant never holds two active attestations.
Succession ==
  /\ \A a, b \in Stored : att[b].supersedes = a =>
       /\ Participant(a) = Participant(b)
       /\ (att[b].state # "issued") = (att[a].state = "superseded")
  /\ \A a \in Stored : att[a].state = "superseded" =>
       \E b \in Stored : att[b].supersedes = a
  /\ \A a, b \in Stored :
       (Participant(a) = Participant(b)
          /\ att[a].state = "active" /\ att[b].state = "active") => a = b

\* An attestation that expired or was revoked ends its participant's chain:
\* whatever renewals had been issued before, or are asked for later, none of
\* them is ever activated.
LapsedIsLast ==
  \A a, b \in Stored :
    (Participant(a) = Participant(b) /\ att[a].state \in Lapsed
       /\ att[b].version > att[a].version) => att[b].state = "issued"

\* Every state an attestation has been in is told once by the outbox and by
\* the audit trail, the superseding of a predecessor included, though it is
\* another attestation's command that moves it.
MovesTold ==
  \A a \in Stored :
    LET path == {"issued"} \cup IF att[a].state = "issued" THEN {}
                                ELSE {"active", att[a].state} IN
    /\ {e.state : e \in {e \in outbox : e.ref = a}} = path
    /\ Cardinality({e \in outbox : e.ref = a}) = att[a].statusVersion
    /\ {e.to : e \in {e \in audit : e.ref = a}} = path
    /\ Cardinality({e \in audit : e.ref = a}) = att[a].statusVersion

\* The two definitions of the canonical status, in SQL and in the domain
\* package, agree at the present instant, with the recorded instant of the
\* superseding given to the latter, as long as the successor is active.
StatusAgrees ==
  \A a \in Stored :
    (att[a].state = "superseded" => CurrentSuccessor(a) # {}) =>
      StatusAt(a, now) =
        AttestationStatusAt(a, IF att[a].state = "superseded"
                               THEN att[a].effective ELSE None, now)

\* Once a reader was told that an attestation is revoked, no later command,
\* replay or passing of time makes it anything else.
RevokedForGood ==
  [][\A a \in Stored :
       StatusAt(a, now) = "revoked" => StatusAt(a, now)' = "revoked"]_vars

\* An attestation that has been superseded is never reported active
\* (docs/PRD.md, FR-ATT-002).  The code does not keep this: the status
\* function only sees a successor that is active itself.
SupersededStays ==
  \A a \in Stored : att[a].state = "superseded" => StatusAt(a, now) # "active"
=============================================================================
