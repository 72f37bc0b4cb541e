------------------------------ MODULE Records -------------------------------
(***************************************************************************)
(* VerificationRepository and LifecycleRepository                          *)
(* (packages/db/src/verification-repository.ts, lifecycle-repository.ts):  *)
(* versioned records that move by named commands.                          *)
(*                                                                         *)
(* Every record has a kind, chosen in Init, and follows the machine of its *)
(* kind.  Callers read a record, decide on a command and send it with the  *)
(* version they saw; the record may have moved before the command runs.    *)
(***************************************************************************)
EXTENDS Commands, Machines

CONSTANTS Refs,          \* references of records
          Members,       \* committee members who review
          Decisions,     \* outcomes a reviewer may record
          Expiry,        \* expires_at of a wallet challenge
          MaxVersion     \* bound: versions of a record

VARIABLES record,     \* the rows, of whatever table
          artifact,   \* rows that a renewal cycle's commands require
          member,     \* committee_member and conflict_declaration rows
          decision    \* review_decision rows

vars == <<commandVars, record, artifact, member, decision>>

Kinds == {"verification_request", "committee", "renewal_cycle",
          "wallet_challenge", "consent_receipt", "appeal",
          "privacy_rights_request", "notification", "relying_party_client"}

\* The machine each transition method hands to transition().
CommandsOf(kind) ==
  CASE kind = "verification_request"   -> VerificationCommands
    [] kind = "committee"              -> CommitteeCommands
    [] kind = "renewal_cycle"          -> RenewalCommands
    [] kind = "wallet_challenge"       -> WalletChallengeCommands
    [] kind = "consent_receipt"        -> ConsentCommands
    [] kind = "appeal"                 -> AppealCommands
    [] kind = "privacy_rights_request" -> PrivacyCommands
    [] kind = "notification"           -> NotificationCommands
    [] kind = "relying_party_client"   -> RelyingPartyCommands

\* The state a row is inserted in; verification requests are created here.
FirstState(kind) ==
  CASE kind = "verification_request"   -> "none"
    [] kind = "committee"              -> "proposed"
    [] kind = "renewal_cycle"          -> "draft"
    [] kind = "wallet_challenge"       -> "created"
    [] kind = "consent_receipt"        -> "pending"
    [] kind = "appeal"                 -> "opened"
    [] kind = "privacy_rights_request" -> "requested"
    [] kind = "notification"           -> "pending"
    [] kind = "relying_party_client"   -> "proposed"

\* The transition trigger of the kind's table, where it has one.  RowChecks
\* below has the constraints that every table has beside it.
GuardOf(kind, from, to) ==
  CASE kind = "verification_request" -> Allows(VerificationGuard, from, to)
    [] kind = "committee"            -> Allows(CommitteeGuard, from, to)
    [] OTHER                         -> TRUE

Artifacts == {"eligible_snapshot", "cycle_selection", "cycle_report"}

StatesOf(kind) ==
  {FirstState(kind), "requested"} \cup
  {CommandsOf(kind)[command].next : command \in DOMAIN CommandsOf(kind)}

Results == [state : Decisions \cup UNION {StatesOf(k) : k \in Kinds},
            version : 1 .. MaxVersion]

\* No result, time or record is the null value, and a review decision has a
\* reference of its own.
ASSUME RecordsAssumption ==
  /\ Expiry \in Nat
  /\ MaxVersion \in Nat \ {0}
  /\ None \notin Results /\ None \notin Times
  /\ \A r \in Refs, m \in Members : <<r, m>> \notin Refs

\* Each table holds what its columns may hold.
TypeOK ==
  /\ now \in Times
  /\ \A r \in Refs :
       /\ record[r].kind \in Kinds
       /\ record[r].state \in StatesOf(record[r].kind)
       /\ record[r].version \in 0 .. MaxVersion
       /\ record[r].began \in Times \cup {None}
       /\ record[r].ended \in Times \cup {None}
  /\ artifact \in [Refs -> SUBSET Artifacts]
  /\ member \in [Members -> [active : BOOLEAN, conflicted : BOOLEAN]]
  /\ decision \subseteq [request : Refs, reviewer : Members, state : Decisions]
  /\ \A c \in Callers :
       call[c] = None \/ call[c].answer \in Results \cup {None}

Init ==
  /\ CommandsInit
  /\ record \in [Refs -> {[kind |-> k, state |-> FirstState(k), version |->
                             IF k = "verification_request" THEN 0 ELSE 1,
                           began |-> None, ended |-> None] : k \in Kinds}]
  /\ artifact = [r \in Refs |-> {}]
  /\ member = [m \in Members |-> [active |-> TRUE, conflicted |-> FALSE]]
  /\ decision = {}

rows == <<record, artifact, member, decision>>

-----------------------------------------------------------------------------
(* Callers.  home: the caller's context names the record's own committee.  *)
(* A reviewer's authorization is decided before the command is sent.       *)

SendCommand(c, r) ==
  /\ record[r].version > 0
  /\ \E command \in DOMAIN CommandsOf(record[r].kind), home \in BOOLEAN :
       /\ record[r].state \in CommandsOf(record[r].kind)[command].expected
       /\ Send(c, command, r, record[r].version, now, home)
  /\ UNCHANGED rows

SendCreate(c, r) ==
  /\ record[r].kind = "verification_request"
  /\ Send(c, "createVerificationRequest", r, 0, now, TRUE)
  /\ UNCHANGED rows

SendDecision(c, r, m) ==
  /\ record[r].kind = "verification_request"
  /\ record[r].state = "under_review"
  /\ \E d \in Decisions :
       Send(c, "recordReviewDecision", r, record[r].version, now,
            [reviewer |-> m, state |-> d, authorized |-> member[m].active,
             conflicted |-> member[m].conflicted])
  /\ UNCHANGED rows

-----------------------------------------------------------------------------
(* createRequest.                                                          *)

\* Mutant: the row is inserted in a state of another table.
InsertedDraft(row) == [row EXCEPT !.state = "draft", !.version = 1]

Inserted(row) == [row EXCEPT !.state = "requested", !.version = 1]

CreateRequest(c) ==
  LET r == call[c].ref IN
  /\ Runs(c, "createVerificationRequest")
  /\ \/ Replay(c) /\ UNCHANGED rows
     \/ /\ Conflicts(c) \/ (Existing(c) = {} /\ record[r].state # "none")
        /\ Refuse(c)
        /\ UNCHANGED rows
     \/ /\ Existing(c) = {}
        /\ record[r].state = "none"
        /\ record' = [record EXCEPT ![r] = Inserted(@)]
        /\ Commit(c, 1, "requested",
             {AuditEvent(c, "createVerificationRequest", r, None, "requested")},
             {OutboxEvent(c, "VerificationRequested", r, 1, "requested")})
        /\ UNCHANGED <<artifact, member, decision>>

-----------------------------------------------------------------------------
(* transition.                                                             *)

Machine(c) == CommandsOf(record[call[c].ref].kind)
InMachine(c) == Open(c) /\ call[c].command \in DOMAIN Machine(c)
Target(c) == Machine(c)[call[c].command].next

\* applyTransition throws when the state is not one of the expected ones.
Applies(c) ==
  record[call[c].ref].state \in Machine(c)[call[c].command].expected

\* Mutant: the expected version is not compared.
FreshAny(c) == TRUE

Fresh(c) == record[call[c].ref].version = call[c].version

\* A record of another committee is not found, or is refused.
Reachable(c) ==
  call[c].arg \/ record[call[c].ref].kind = "wallet_challenge"

\* validatePreconditions.
Preconditions(c) ==
  LET row == record[call[c].ref]
      command == call[c].command IN
  /\ row.kind = "wallet_challenge" =>
       (command = "expireWalletChallenge") = (call[c].at >= Expiry)
  /\ command = "commitEligibleSnapshot" =>
       "eligible_snapshot" \in artifact[call[c].ref]
  /\ command = "recordRenewalSelection" =>
       "cycle_selection" \in artifact[call[c].ref]
  /\ command = "publishRenewalReport" => "cycle_report" \in artifact[call[c].ref]

\* Mutant: the resolution of a remanded appeal is not dated.
EndStampedNoRemand(kind, state) ==
  \/ kind = "wallet_challenge" /\ state = "consumed"
  \/ kind = "consent_receipt" /\ state = "withdrawn"
  \/ kind = "appeal" /\ state \in {"upheld", "denied"}
  \/ kind = "privacy_rights_request" /\ state \in {"completed", "denied"}
  \/ kind = "notification" /\ state = "delivered"

\* The states that write a time: acknowledged_at, and the column of the end
\* (consumed_at, withdrawn_at, resolved_at, completed_at, delivered_at).
EndStamped(kind, state) ==
  \/ kind = "wallet_challenge" /\ state = "consumed"
  \/ kind = "consent_receipt" /\ state = "withdrawn"
  \/ kind = "appeal" /\ state \in {"upheld", "denied", "remanded"}
  \/ kind = "privacy_rights_request" /\ state \in {"completed", "denied"}
  \/ kind = "notification" /\ state = "delivered"

Moved(row, state, at) ==
  [row EXCEPT !.state = state, !.version = @ + 1,
     !.began = IF row.kind = "consent_receipt" /\ state = "acknowledged"
               THEN at ELSE @,
     !.ended = IF EndStamped(row.kind, state) THEN at ELSE @]

\* rejection_reason of a wallet challenge: transition() assigns it in no state,
\* so the column keeps the NULL it was inserted with.
RejectionReason(row) == None

\* The CHECK constraints of the tables on these columns.
RowChecks(row) ==
  /\ row.kind = "consent_receipt" =>
       /\ (row.state = "pending") = (row.began = None)
       /\ (row.state = "withdrawn") = (row.ended # None)
       /\ row.ended # None => row.ended >= row.began
  /\ row.kind = "wallet_challenge" =>
       /\ (row.state = "consumed") = (row.ended # None)
       /\ (row.state \in {"rejected", "cancelled"}) = (RejectionReason(row) # None)
  /\ row.kind = "appeal" =>
       (row.state \in {"upheld", "denied", "remanded"}) = (row.ended # None)
  /\ row.kind = "notification" =>
       (row.state = "delivered") = (row.ended # None)

\* What the database says of the UPDATE.
DatabaseAllows(c) ==
  LET row == record[call[c].ref] IN
  /\ GuardOf(row.kind, row.state, Target(c))
  /\ RowChecks(Moved(row, Target(c), call[c].at))

Transitions(c) ==
  /\ Reachable(c)
  /\ Existing(c) = {}
  /\ Fresh(c)
  /\ Applies(c)
  /\ Preconditions(c)
  /\ DatabaseAllows(c)

Transition(c) ==
  LET r == call[c].ref
      row == record[r] IN
  /\ InMachine(c)
  /\ \/ Reachable(c) /\ Replay(c) /\ UNCHANGED rows
     \/ /\ ~Transitions(c)
        /\ ~(Reachable(c) /\ Replayed(c) # {})
        /\ Refuse(c)
        /\ UNCHANGED rows
     \/ /\ Transitions(c)
        /\ row.version < MaxVersion
        /\ record' = [record EXCEPT ![r] = Moved(row, Target(c), call[c].at)]
        /\ Commit(c, row.version + 1, Target(c),
             {AuditEvent(c, call[c].command, r, row.state, Target(c))},
             {OutboxEvent(c, call[c].command, r, row.version + 1, Target(c))})
        /\ UNCHANGED <<artifact, member, decision>>

-----------------------------------------------------------------------------
(* recordReviewDecision.                                                   *)

\* requireEligibleReviewer, on the authorization decided earlier.
Eligible(auth) == auth.authorized /\ ~auth.conflicted

\* Mutant: the declared conflicts are not read again.
DecidesUnread(c) ==
  LET r == call[c].ref
      m == call[c].arg.reviewer IN
  /\ Existing(c) = {}
  /\ Eligible(call[c].arg)
  /\ record[r].state = "under_review"
  /\ member[m].active
  /\ ~\E d \in decision : d.request = r /\ d.reviewer = m

Decides(c) ==
  LET r == call[c].ref
      m == call[c].arg.reviewer IN
  /\ Existing(c) = {}
  /\ Eligible(call[c].arg)
  /\ record[r].state = "under_review"
  /\ member[m].active
  /\ ~member[m].conflicted
  /\ ~\E d \in decision : d.request = r /\ d.reviewer = m

RecordReviewDecision(c) ==
  LET r == call[c].ref
      m == call[c].arg.reviewer
      d == call[c].arg.state
      ref == <<r, m>> IN
  /\ Runs(c, "recordReviewDecision")
  /\ \/ Eligible(call[c].arg) /\ Replay(c) /\ UNCHANGED rows
     \/ /\ ~Decides(c)
        /\ ~(Eligible(call[c].arg) /\ Replayed(c) # {})
        /\ Refuse(c)
        /\ UNCHANGED rows
     \/ /\ Decides(c)
        /\ decision' = decision \cup {[request |-> r, reviewer |-> m, state |-> d]}
        /\ Commit(c, 1, d,
             {AuditEvent(c, "recordReviewDecision", ref, None, d)},
             {OutboxEvent(c, "ReviewDecisionRecorded", ref, 1, d)})
        /\ UNCHANGED <<record, artifact, member>>

-----------------------------------------------------------------------------
(* The rest of the system.                                                 *)

\* Time passes.
Tick ==
  /\ Advance
  /\ UNCHANGED <<call, ledgers, rows>>

\* A snapshot, a selection or a report of a cycle is stored, for good.
StoreArtifact(r, a) ==
  /\ record[r].kind = "renewal_cycle"
  /\ a \notin artifact[r]
  /\ artifact' = [artifact EXCEPT ![r] = @ \cup {a}]
  /\ UNCHANGED <<commandVars, record, member, decision>>

\* A membership ends or resumes; a conflict is declared or resolved.
MemberChanges(m) ==
  /\ \E r \in Refs : record[r].kind = "verification_request"
  /\ \/ member' = [member EXCEPT ![m].active = ~@]
     \/ member' = [member EXCEPT ![m].conflicted = ~@]
  /\ UNCHANGED <<commandVars, record, artifact, decision>>

Next ==
  \/ Tick
  \/ \E r \in Refs, a \in Artifacts : StoreArtifact(r, a)
  \/ \E m \in Members : MemberChanges(m)
  \/ \E c \in Callers :
       \/ \E r \in Refs : \/ SendCommand(c, r)
                          \/ SendCreate(c, r)
                          \/ \E m \in Members : SendDecision(c, r, m)
       \/ CreateRequest(c)
       \/ Transition(c)
       \/ RecordReviewDecision(c)

Spec == Init /\ [][Next]_vars

-----------------------------------------------------------------------------
(* Properties.                                                             *)

EventsOf(ref) == {e \in outbox : e.ref = ref}
AuditOf(ref) == {e \in audit : e.ref = ref}
Start(r) == IF record[r].kind = "verification_request" THEN 0 ELSE 1

\* State, audit, idempotency result and outbox intent commit together
\* (docs/adr/0004, decision 6), however commands of several callers, lost
\* answers and repeated calls interleave: for every version a record has had
\* since its start there is exactly one outbox event and one audit event, the
\* events lead without a gap from state to state up to the present one, and
\* each belongs to a key whose stored result says the same.
CommitTogether ==
  \A r \in Refs :
    /\ {e.version : e \in EventsOf(r)} = Start(r) + 1 .. record[r].version
    /\ Cardinality(EventsOf(r)) = record[r].version - Start(r)
    /\ Cardinality(AuditOf(r)) = record[r].version - Start(r)
    /\ \A e \in EventsOf(r) :
         /\ e.version = record[r].version => e.state = record[r].state
         /\ \E a \in AuditOf(r) :
              /\ a.key = e.key /\ a.to = e.state
              /\ \A p \in EventsOf(r) : p.version = e.version - 1 => p.state = a.from
         /\ \E i \in idem :
              i.key = e.key /\ i.version = e.version /\ i.state = e.state

\* An answer is the truth about the caller's own command: whether it is the
\* first answer or the replay of a lost one, and whatever other callers have
\* done since, that very command moved that very record from the version the
\* caller had seen, once.
AnswersTruthful ==
  \A c \in Callers :
    (Answered(c) /\ call[c].command \notin {"recordReviewDecision"}) =>
      /\ call[c].answer.version = call[c].version + 1
      /\ \E e \in EventsOf(call[c].ref) :
           e.version = call[c].answer.version /\ e.state = call[c].answer.state
      /\ call[c].version > 0 =>
           call[c].answer.state = Machine(c)[call[c].command].next

\* No decision is recorded by a reviewer who, at that moment, has left the
\* committee or has declared a conflict, although the authorization that the
\* command carries was decided before it was sent.
DecidesUnconflicted ==
  [][\A d \in decision' \ decision :
       member[d.reviewer].active /\ ~member[d.reviewer].conflicted]_vars

\* The domain lets the command pass: the caller has seen the present version
\* and the record is in a state that the command expects.
DomainAllows(c) == InMachine(c) /\ Fresh(c) /\ Applies(c)

\* What the domain functions allow, the database allows: the machines are
\* encoded in TypeScript and again in triggers and CHECK constraints, and no
\* command that passed the first is thrown back by the second, however long ago
\* its caller read the clock.  (The callers read one clock; hosts whose clocks
\* disagree could withdraw a consent before its acknowledgement.)  There is one
\* exception, and no other: rejectWalletResponse, which the domain tests have as
\* a legal command, is refused always, for want of a rejection_reason.
DatabaseAgrees ==
  \A c \in Callers :
    DomainAllows(c) =>
      (DatabaseAllows(c) <=> call[c].command # "rejectWalletResponse")
=============================================================================
