---------------------------- MODULE RecordsProofs ---------------------------
(***************************************************************************)
(* Theorems about versioned records and review decisions, for any number   *)
(* of callers, records and members, any versions and any clock.            *)
(***************************************************************************)
EXTENDS Records, FiniteSetTheorems, TLAPS

Creating == "createVerificationRequest"
Deciding == "recordReviewDecision"

Record == [kind : Kinds, state : UNION {StatesOf(k) : k \in Kinds},
           version : 0 .. MaxVersion,
           began : Times \cup {None}, ended : Times \cup {None}]

\* A record is in a state of its kind, and only a verification request can
\* wait to be inserted.
RecordOK(r) ==
  /\ record[r].state \in StatesOf(record[r].kind)
  /\ Start(r) <= record[r].version
  /\ record[r].state = "none" =>
       record[r].kind = "verification_request" /\ record[r].version = 0

RowInv ==
  /\ now \in Times
  /\ record \in [Refs -> Record]
  /\ \A r \in Refs : RecordOK(r)
  /\ artifact \in [Refs -> SUBSET Artifacts]
  /\ member \in [Members -> [active : BOOLEAN, conflicted : BOOLEAN]]
  /\ decision \subseteq [request : Refs, reviewer : Members, state : Decisions]

-----------------------------------------------------------------------------
(* The ledgers.                                                            *)

\* That a command on ref, sent with the version it had seen, had this result.
Truth(command, ref, version, result) ==
  /\ result.version = version + 1
  /\ \E e \in EventsOf(ref) :
       e.version = result.version /\ e.state = result.state
  /\ version > 0 => result.state = CommandsOf(record[ref].kind)[command].next

\* A stored result can be answered, and is the truth.
StoredOK(i) ==
  /\ [state |-> i.state, version |-> i.version] \in Results
  /\ i.command # Deciding =>
       /\ i.digest[1] \in Refs
       /\ Truth(i.command, i.digest[1], i.digest[2], i)

\* The event is explained by an audit event and a result of its key.
Explained(r, e) ==
  /\ \E a \in AuditOf(r) :
       /\ a.key = e.key /\ a.to = e.state
       /\ \A p \in EventsOf(r) : p.version = e.version - 1 => p.state = a.from
  /\ \E i \in idem : i.key = e.key /\ i.version = e.version /\ i.state = e.state

\* What the ledgers say of one record.
HistoryOK(r) ==
  /\ IsFiniteSet(EventsOf(r)) /\ IsFiniteSet(AuditOf(r))
  /\ {e.version : e \in EventsOf(r)} = Start(r) + 1 .. record[r].version
  /\ Cardinality(EventsOf(r)) = record[r].version - Start(r)
  /\ Cardinality(AuditOf(r)) = record[r].version - Start(r)
  /\ \A e \in EventsOf(r) :
       /\ e.version = record[r].version => e.state = record[r].state
       /\ Explained(r, e)

\* A key that has no result has left no audit event either.
LedgerInv ==
  /\ \A a \in audit : \E i \in idem : i.key = a.key
  /\ \A i \in idem : StoredOK(i)
  /\ \A r \in Refs : HistoryOK(r)

-----------------------------------------------------------------------------
(* The calls.                                                              *)

CallFields == {"key", "command", "ref", "version", "at", "arg", "answer"}

Authorization == [reviewer : Members, state : Decisions,
                  authorized : BOOLEAN, conflicted : BOOLEAN]

\* A call names a command of its record's kind.
Asks(c) ==
  \/ call[c].command = Deciding
  \/ /\ call[c].command = Creating
     /\ record[call[c].ref].kind = "verification_request"
     /\ call[c].version = 0
  \/ /\ call[c].command \in DOMAIN CommandsOf(record[call[c].ref].kind)
     /\ call[c].version > 0

CallOK(c) ==
  call[c] # None =>
    /\ DOMAIN call[c] = CallFields
    /\ call[c].ref \in Refs /\ call[c].version \in Nat
    /\ Asks(c)
    /\ call[c].answer = None =>
         /\ call[c].at \in Times
         /\ call[c].command = Deciding => call[c].arg \in Authorization
    /\ call[c].answer # None =>
         /\ call[c].answer \in Results
         /\ call[c].command # Deciding =>
              Truth(call[c].command, call[c].ref, call[c].version, call[c].answer)

CallInv == DOMAIN call = Callers /\ \A c \in Callers : CallOK(c)

Inv == RowInv /\ LedgerInv /\ CallInv
-----------------------------------------------------------------------------
(* The machines.                                                           *)

\* What a machine must not do: use the names of the two commands that have a
\* method of their own, or lead from or to a record that is not there.
Sane(machine) ==
  \A command \in DOMAIN machine :
    /\ command \notin {Creating, Deciding}
    /\ machine[command].next # "none"
    /\ "none" \notin machine[command].expected

\* The commands of verification-request.ts.
LEMMA VerificationSane == Sane(VerificationCommands)
BY DEF Sane, VerificationCommands, From, Creating, Deciding

\* The commands of committee.ts.
LEMMA CommitteeSane == Sane(CommitteeCommands)
BY DEF Sane, CommitteeCommands, From, Creating, Deciding

\* The commands of renewal cycles.
LEMMA RenewalSane == Sane(RenewalCommands)
BY DEF Sane, RenewalCommands, From, Creating, Deciding

\* The commands of the other aggregates.
LEMMA OthersSane ==
  /\ Sane(WalletChallengeCommands) /\ Sane(ConsentCommands)
  /\ Sane(AppealCommands) /\ Sane(PrivacyCommands)
  /\ Sane(NotificationCommands) /\ Sane(RelyingPartyCommands)
<1>1. Sane(WalletChallengeCommands)
  BY DEF Sane, WalletChallengeCommands, From, Creating, Deciding
<1>2. Sane(ConsentCommands)
  BY DEF Sane, ConsentCommands, From, Creating, Deciding
<1>3. Sane(AppealCommands)
  BY DEF Sane, AppealCommands, From, Creating, Deciding
<1>4. Sane(PrivacyCommands)
  BY DEF Sane, PrivacyCommands, From, Creating, Deciding
<1>5. Sane(NotificationCommands)
  BY DEF Sane, NotificationCommands, From, Creating, Deciding
<1>6. Sane(RelyingPartyCommands)
  BY DEF Sane, RelyingPartyCommands, From, Creating, Deciding
<1> QED BY <1>1, <1>2, <1>3, <1>4, <1>5, <1>6

\* Every machine that a record can follow.
LEMMA MachinesSane ==
  ASSUME NEW kind \in Kinds
  PROVE  Sane(CommandsOf(kind))
<1>1. CASE kind = "verification_request"
  BY <1>1, VerificationSane DEF CommandsOf
<1>2. CASE kind = "committee"
  BY <1>2, CommitteeSane DEF CommandsOf
<1>3. CASE kind = "renewal_cycle"
  BY <1>3, RenewalSane DEF CommandsOf
<1>4. CASE kind = "wallet_challenge"
  BY <1>4, OthersSane DEF CommandsOf
<1>5. CASE kind = "consent_receipt"
  BY <1>5, OthersSane DEF CommandsOf
<1>6. CASE kind = "appeal"
  BY <1>6, OthersSane DEF CommandsOf
<1>7. CASE kind = "privacy_rights_request"
  BY <1>7, OthersSane DEF CommandsOf
<1>8. CASE kind = "notification"
  BY <1>8, OthersSane DEF CommandsOf
<1>9. CASE kind = "relying_party_client"
  BY <1>9, OthersSane DEF CommandsOf
<1> QED BY <1>1, <1>2, <1>3, <1>4, <1>5, <1>6, <1>7, <1>8, <1>9 DEF Kinds

\* The trigger of verification_request has every move of the domain functions.
LEMMA VerificationAccepted ==
  ASSUME NEW command \in DOMAIN VerificationCommands,
         NEW state \in VerificationCommands[command].expected
  PROVE  Allows(VerificationGuard, state, VerificationCommands[command].next)
BY DEF VerificationCommands, VerificationGuard, Allows, From

\* The trigger of committee has every move of the domain functions.
LEMMA CommitteeAccepted ==
  ASSUME NEW command \in DOMAIN CommitteeCommands,
         NEW state \in CommitteeCommands[command].expected
  PROVE  Allows(CommitteeGuard, state, CommitteeCommands[command].next)
BY DEF CommitteeCommands, CommitteeGuard, Allows, From

\* The triggers accept every move of every machine.
LEMMA MovesAccepted ==
  ASSUME NEW kind \in Kinds, NEW command \in DOMAIN CommandsOf(kind),
         NEW state \in CommandsOf(kind)[command].expected
  PROVE  GuardOf(kind, state, CommandsOf(kind)[command].next)
<1>1. CASE kind = "verification_request"
  <2>1. CommandsOf(kind) = VerificationCommands
    BY <1>1 DEF CommandsOf
  <2> QED BY <1>1, <2>1, VerificationAccepted DEF GuardOf
<1>2. CASE kind = "committee"
  <2>1. CommandsOf(kind) = CommitteeCommands
    BY <1>2 DEF CommandsOf
  <2> QED BY <1>2, <2>1, CommitteeAccepted DEF GuardOf
<1> QED BY <1>1, <1>2 DEF GuardOf

\* A move of a machine ends in a state of the kind.
LEMMA NextIsState ==
  ASSUME NEW kind \in Kinds, NEW command \in DOMAIN CommandsOf(kind)
  PROVE  CommandsOf(kind)[command].next \in StatesOf(kind)
BY DEF StatesOf
-----------------------------------------------------------------------------
(* The ledgers grow.                                                       *)

\* A record keeps its kind.
KindsKept == \A r \in Refs : record'[r].kind = record[r].kind

\* What was true of a command stays true: events are never removed.
LEMMA TruthKept ==
  ASSUME NEW command, NEW ref \in Refs, NEW version, NEW result,
         Truth(command, ref, version, result), KindsKept, outbox \subseteq outbox'
  PROVE  Truth(command, ref, version, result)'
<1>1. EventsOf(ref) \subseteq EventsOf(ref)'
  BY DEF EventsOf
<1>2. record'[ref].kind = record[ref].kind
  BY DEF KindsKept
<1> QED BY <1>1, <1>2 DEF Truth

\* Stored results stay the truth.
LEMMA StoredKept ==
  ASSUME NEW i, StoredOK(i), KindsKept, outbox \subseteq outbox'
  PROVE  StoredOK(i)'
BY TruthKept DEF StoredOK

\* A set with one more element has one more.
LEMMA OneMore ==
  ASSUME NEW S, IsFiniteSet(S), NEW x, x \notin S, NEW n \in Int,
         Cardinality(S) = n
  PROVE  IsFiniteSet(S \cup {x}) /\ Cardinality(S \cup {x}) = n + 1
BY FS_AddElement

\* The ledgers do not say anything new of a record that is not touched.
LEMMA HistoryKept ==
  ASSUME NEW r \in Refs, HistoryOK(r), record'[r] = record[r],
         EventsOf(r)' = EventsOf(r), AuditOf(r)' = AuditOf(r), idem \subseteq idem'
  PROVE  HistoryOK(r)'
<1>1. Start(r)' = Start(r)
  BY DEF Start
<1>2. \A e : Explained(r, e) => Explained(r, e)'
  BY DEF Explained
<1> QED BY <1>1, <1>2 DEF HistoryOK

\* A step that leaves the ledgers and the records alone.
LEMMA LedgerKept ==
  ASSUME LedgerInv, UNCHANGED <<ledgers, record>>
  PROVE  LedgerInv'
<1>1. idem' = idem /\ audit' = audit /\ outbox' = outbox /\ record' = record
  BY DEF ledgers
<1>2. KindsKept
  BY <1>1 DEF KindsKept
<1>3. \A r \in Refs : EventsOf(r)' = EventsOf(r) /\ AuditOf(r)' = AuditOf(r)
  BY <1>1 DEF EventsOf, AuditOf
<1>4. \A r \in Refs : HistoryOK(r)'
  BY <1>1, <1>3, HistoryKept DEF LedgerInv
<1>5. \A i \in idem' : StoredOK(i)'
  BY <1>1, <1>2, StoredKept DEF LedgerInv
<1> QED BY <1>1, <1>4, <1>5 DEF LedgerInv

\* The transaction that moves a record: its event has the next version, its
\* audit event a key that no audit event has, and its result is the truth.
LEMMA MoveLedger ==
  ASSUME RowInv, LedgerInv, NEW c \in Callers, NEW q, q = call[c],
         NEW r \in Refs, q.ref = r, q.version = record[r].version,
         q.command # Deciding, Existing(c) = {},
         NEW row \in Record, NEW state, NEW from, NEW command, NEW event,
         record' = [record EXCEPT ![r] = row],
         row.kind = record[r].kind, row.state = state,
         row.version = record[r].version + 1,
         record[r].version > Start(r) => from = record[r].state,
         q.version > 0 => state = CommandsOf(record[r].kind)[q.command].next,
         [state |-> state, version |-> row.version] \in Results,
         CompleteIdempotency(c, row.version, state),
         audit' = audit \cup {AuditEvent(c, command, r, from, state)},
         outbox' = outbox \cup {OutboxEvent(c, event, r, row.version, state)}
  PROVE  /\ LedgerInv' /\ KindsKept
         /\ Truth(q.command, r, q.version, [state |-> state, version |-> row.version])'
<1> DEFINE v == record[r].version
           res == [state |-> state, version |-> row.version]
<1>0. PICK e : e = [key |-> q.key, event |-> event, ref |-> r,
                    version |-> row.version, state |-> state]
  OBVIOUS
<1>1. PICK a : a = [key |-> q.key, command |-> command, ref |-> r,
                    from |-> from, to |-> state]
  OBVIOUS
<1>2. PICK i : i = [key |-> q.key, command |-> q.command, digest |-> <<r, q.version>>,
                    version |-> row.version, state |-> state]
  OBVIOUS
<1>3. /\ outbox' = outbox \cup {e} /\ audit' = audit \cup {a}
      /\ idem' = idem \cup {i}
  BY <1>0, <1>1, <1>2 DEF OutboxEvent, AuditEvent, CompleteIdempotency, Digest
<1>4. /\ e.key = q.key /\ e.ref = r /\ e.version = row.version /\ e.state = state
      /\ a.key = q.key /\ a.ref = r /\ a.from = from /\ a.to = state
      /\ i.key = q.key /\ i.command = q.command /\ i.digest = <<r, q.version>>
      /\ i.version = row.version /\ i.state = state
  BY <1>0, <1>1, <1>2
<1>5. /\ DOMAIN record = Refs /\ record'[r] = row
      /\ \A x \in Refs : x # r => record'[x] = record[x]
  BY DEF RowInv
<1>6. KindsKept
  BY <1>5 DEF KindsKept
<1>7. Start(r)' = Start(r) /\ Start(r) \in Int /\ v \in Nat /\ row.version = v + 1
  BY <1>5, RecordsAssumption DEF Start, RowInv, Record
<1>8. /\ EventsOf(r)' = EventsOf(r) \cup {e} /\ AuditOf(r)' = AuditOf(r) \cup {a}
      /\ \A x \in Refs : x # r => EventsOf(x)' = EventsOf(x) /\ AuditOf(x)' = AuditOf(x)
  BY <1>3, <1>4 DEF EventsOf, AuditOf
<1>9. HistoryOK(r)
  BY DEF LedgerInv
<1>10. \A p \in EventsOf(r) : p.version \in Start(r) + 1 .. v
  BY <1>9 DEF HistoryOK
<1>11. e \notin EventsOf(r)
  BY <1>4, <1>7, <1>10
<1>12. a \notin AuditOf(r)
  <2>1. \A j \in idem : j.key # q.key
    BY DEF Existing
  <2> QED BY <1>4, <2>1 DEF AuditOf, LedgerInv
<1>13. HistoryOK(r)'
  <2>1. v - Start(r) \in Int /\ v - Start(r) + 1 = row.version - Start(r)
    BY <1>7
  <2>2. /\ IsFiniteSet(EventsOf(r)') /\ Cardinality(EventsOf(r)') = row.version - Start(r)
    <3>1. PICK S : S = EventsOf(r)
      OBVIOUS
    <3>2. PICK n \in Int : n = v - Start(r)
      BY <2>1
    <3>3. IsFiniteSet(S) /\ e \notin S /\ Cardinality(S) = n
      BY <1>9, <1>11, <3>1, <3>2 DEF HistoryOK
    <3>4. IsFiniteSet(S \cup {e}) /\ Cardinality(S \cup {e}) = n + 1
      BY <3>3, OneMore
    <3>5. EventsOf(r)' = S \cup {e}
      BY <1>8, <3>1
    <3> QED BY <2>1, <3>2, <3>4, <3>5
  <2>3. /\ IsFiniteSet(AuditOf(r)') /\ Cardinality(AuditOf(r)') = row.version - Start(r)
    <3>1. PICK S : S = AuditOf(r)
      OBVIOUS
    <3>2. PICK n \in Int : n = v - Start(r)
      BY <2>1
    <3>3. IsFiniteSet(S) /\ a \notin S /\ Cardinality(S) = n
      BY <1>9, <1>12, <3>1, <3>2 DEF HistoryOK
    <3>4. IsFiniteSet(S \cup {a}) /\ Cardinality(S \cup {a}) = n + 1
      BY <3>3, OneMore
    <3>5. AuditOf(r)' = S \cup {a}
      BY <1>8, <3>1
    <3> QED BY <2>1, <3>2, <3>4, <3>5
  <2>4. {p.version : p \in EventsOf(r)'} = {p.version : p \in EventsOf(r)} \cup {v + 1}
    BY <1>4, <1>7, <1>8
  <2>5. {p.version : p \in EventsOf(r)} = Start(r) + 1 .. v /\ Start(r) <= v
    BY <1>9 DEF HistoryOK, RowInv, RecordOK
  <2>6. (Start(r) + 1 .. v) \cup {v + 1} = Start(r) + 1 .. v + 1
    BY <1>7, <2>5
  <2>7. {p.version : p \in EventsOf(r)'} = Start(r) + 1 .. row.version
    BY <1>7, <2>4, <2>5, <2>6
  <2>8. Explained(r, e)'
    <3>1. \A p \in EventsOf(r)' : p.version = e.version - 1 => p.state = from
      <4> SUFFICES ASSUME NEW p \in EventsOf(r)', p.version = e.version - 1
                   PROVE  p.state = from
        OBVIOUS
      <4>1. p.version = v /\ p \in EventsOf(r)
        BY <1>4, <1>7, <1>8
      <4>2. v > Start(r)
        BY <1>7, <1>10, <4>1
      <4> QED BY <1>9, <4>1, <4>2 DEF HistoryOK
    <3> QED BY <1>3, <1>4, <1>8, <3>1 DEF Explained
  <2>9. ASSUME NEW p \in EventsOf(r) PROVE Explained(r, p)' /\ p.version # row.version
    <3>1. p.version \in Int /\ p.version <= v
      BY <1>7, <1>10
    <3>2. e.version # p.version - 1
      BY <1>4, <1>7, <3>1
    <3>3. Explained(r, p)
      BY <1>9 DEF HistoryOK
    <3>4. \A o \in EventsOf(r)' : o.version = p.version - 1 => o \in EventsOf(r)
      BY <1>8, <3>2
    <3> QED BY <1>3, <1>7, <1>8, <3>1, <3>3, <3>4 DEF Explained
  <2> QED BY <1>4, <1>5, <1>7, <1>8, <2>2, <2>3, <2>7, <2>8, <2>9 DEF HistoryOK
<1>14. ASSUME NEW x \in Refs PROVE HistoryOK(x)'
  <2>1. CASE x # r
    BY <1>3, <1>5, <1>8, <2>1, HistoryKept DEF LedgerInv
  <2> QED BY <1>13, <2>1
<1>15. Truth(q.command, r, q.version, res)'
  BY <1>4, <1>5, <1>7, <1>8 DEF Truth
<1>16. StoredOK(i)'
  <2>1. Truth(i.command, i.digest[1], i.digest[2], i)'
    BY <1>4, <1>5, <1>7, <1>8 DEF Truth
  <2> QED BY <1>4, <2>1 DEF StoredOK
<1>17. \A j \in idem' : StoredOK(j)'
  BY <1>3, <1>6, <1>16, StoredKept DEF LedgerInv
<1>18. \A b \in audit' : \E j \in idem' : j.key = b.key
  BY <1>3, <1>4 DEF LedgerInv
<1> QED BY <1>6, <1>14, <1>15, <1>17, <1>18 DEF LedgerInv

\* The transaction that stores a decision says nothing of any record.
LEMMA DecisionLedger ==
  ASSUME LedgerInv, NEW c \in Callers, call[c].command = Deciding,
         NEW ref, ref \notin Refs, NEW state, record' = record,
         [state |-> state, version |-> 1] \in Results,
         CompleteIdempotency(c, 1, state),
         audit' = audit \cup {AuditEvent(c, Deciding, ref, None, state)},
         outbox' = outbox \cup {OutboxEvent(c, "ReviewDecisionRecorded", ref, 1, state)}
  PROVE  LedgerInv'
<1>1. PICK i : i = [key |-> call[c].key, command |-> Deciding, digest |-> Digest(c),
                    version |-> 1, state |-> state]
  OBVIOUS
<1>2. idem' = idem \cup {i} /\ i.key = call[c].key
  BY <1>1 DEF CompleteIdempotency
<1>3. StoredOK(i)'
  BY <1>1 DEF StoredOK
<1>4. \A r \in Refs : EventsOf(r)' = EventsOf(r) /\ AuditOf(r)' = AuditOf(r)
  BY DEF EventsOf, AuditOf, OutboxEvent, AuditEvent
<1>5. \A r \in Refs : HistoryOK(r)'
  BY <1>2, <1>4, HistoryKept DEF LedgerInv
<1>6. \A j \in idem' : StoredOK(j)'
  BY <1>2, <1>3, StoredKept DEF LedgerInv, KindsKept
<1>7. \A b \in audit' : \E j \in idem' : j.key = b.key
  BY <1>2 DEF LedgerInv, AuditEvent
<1> QED BY <1>5, <1>6, <1>7 DEF LedgerInv
-----------------------------------------------------------------------------
(* The calls.                                                              *)

\* A call that is left alone stays well-formed, and its answer true.
LEMMA CallKept ==
  ASSUME NEW c \in Callers, CallOK(c), call'[c] = call[c], KindsKept,
         outbox \subseteq outbox'
  PROVE  CallOK(c)'
<1> SUFFICES ASSUME call[c] # None PROVE CallOK(c)'
  BY DEF CallOK
<1>1. PICK q : q = call[c]
  OBVIOUS
<1>2. call'[c] = q /\ q.ref \in Refs
  BY <1>1 DEF CallOK
<1>3. record'[q.ref].kind = record[q.ref].kind
  BY <1>2 DEF KindsKept
<1>4. Asks(c)'
  BY <1>1, <1>2, <1>3 DEF CallOK, Asks
<1>5. ASSUME q.answer # None, q.command # Deciding
      PROVE  Truth(q.command, q.ref, q.version, q.answer)'
  <2>1. Truth(q.command, q.ref, q.version, q.answer)
    BY <1>1, <1>5 DEF CallOK
  <2> QED BY <1>2, <2>1, TruthKept
<1>6. Truth(call[c].command, call[c].ref, call[c].version, call[c].answer)'
      = Truth(q.command, q.ref, q.version, q.answer)'
  BY <1>2 DEF Truth
<1> QED BY <1>1, <1>2, <1>4, <1>5, <1>6 DEF CallOK

\* The other callers' calls, when one caller's call is well-formed.
LEMMA CallsKept ==
  ASSUME CallInv, NEW c \in Callers, CallOK(c)', DOMAIN call' = Callers,
         \A d \in Callers : d # c => call'[d] = call[d],
         KindsKept, outbox \subseteq outbox'
  PROVE  CallInv'
<1>1. ASSUME NEW d \in Callers PROVE CallOK(d)'
  BY CallKept DEF CallInv
<1> QED BY <1>1 DEF CallInv

\* Nobody's call changes.
LEMMA CallsAlone ==
  ASSUME CallInv, UNCHANGED call, KindsKept, outbox \subseteq outbox'
  PROVE  CallInv'
BY CallKept DEF CallInv

\* A new call.
LEMMA SendOK ==
  ASSUME CallInv, now \in Times, NEW c \in Callers, NEW command, NEW ref \in Refs,
         NEW version \in Nat, NEW arg,
         \/ command = Deciding /\ arg \in Authorization
         \/ /\ command = Creating /\ version = 0
            /\ record[ref].kind = "verification_request"
         \/ /\ command \in DOMAIN CommandsOf(record[ref].kind) /\ version > 0
            /\ command # Deciding,
         Send(c, command, ref, version, now, arg), UNCHANGED rows
  PROVE  CallInv' /\ UNCHANGED <<now, ledgers, rows>>
<1>1. PICK key :
        call' = [call EXCEPT ![c] =
                   [key |-> key, command |-> command, ref |-> ref, version |-> version,
                    at |-> now, arg |-> arg, answer |-> None]]
  BY DEF Send
<1>2. PICK q : q = [key |-> key, command |-> command, ref |-> ref,
                    version |-> version, at |-> now, arg |-> arg, answer |-> None]
  OBVIOUS
<1>3. /\ call'[c] = q /\ DOMAIN call' = Callers
      /\ \A d \in Callers : d # c => call'[d] = call[d]
  BY <1>1, <1>2 DEF CallInv
<1>4. /\ DOMAIN q = CallFields /\ q.command = command /\ q.ref = ref
      /\ q.version = version /\ q.at = now /\ q.arg = arg /\ q.answer = None
  BY <1>2 DEF CallFields
<1>5. UNCHANGED <<now, ledgers, rows>> /\ record' = record /\ outbox' = outbox
  BY DEF Send, ledgers, rows
<1>6. Asks(c)'
  BY <1>3, <1>4, <1>5 DEF Asks
<1>7. command = Deciding => arg \in Authorization
  BY DEF Creating, Deciding
<1>8. CallOK(c)'
  BY <1>3, <1>4, <1>6, <1>7 DEF CallOK
<1> QED BY <1>3, <1>5, <1>8, CallsKept DEF KindsKept

\* An answer, delivered or lost.
LEMMA ReplyOK ==
  ASSUME CallInv, NEW c \in Callers, Open(c), NEW q, q = call[c],
         NEW answer \in Results, Reply(c, answer),
         q.command # Deciding => Truth(q.command, q.ref, q.version, answer)',
         KindsKept, outbox \subseteq outbox'
  PROVE  CallInv'
<1>1. CASE UNCHANGED call
  BY <1>1, CallsAlone
<1>2. CASE call' = [call EXCEPT ![c].answer = answer, ![c].at = None, ![c].arg = None]
  <2>1. /\ DOMAIN q = CallFields /\ q.ref \in Refs /\ q.version \in Nat /\ Asks(c)
    BY DEF CallInv, CallOK, Open
  <2>2. /\ DOMAIN call' = Callers
        /\ \A d \in Callers : d # c => call'[d] = call[d]
        /\ call'[c] = [q EXCEPT !.answer = answer, !.at = None, !.arg = None]
    BY <1>2 DEF CallInv
  <2>3. PICK p : p = [q EXCEPT !.answer = answer, !.at = None, !.arg = None]
    OBVIOUS
  <2>4. /\ DOMAIN p = CallFields /\ p.command = q.command /\ p.ref = q.ref
        /\ p.version = q.version /\ p.answer = answer
    BY <2>1, <2>3 DEF CallFields
  <2>5. call'[c] = p /\ answer # None
    BY <2>2, <2>3, RecordsAssumption
  <2>6. record'[q.ref].kind = record[q.ref].kind
    BY <2>1 DEF KindsKept
  <2>7. Asks(c)'
    BY <2>1, <2>4, <2>5, <2>6 DEF Asks
  <2>8. Truth(call[c].command, call[c].ref, call[c].version, call[c].answer)'
        = Truth(q.command, q.ref, q.version, answer)'
    BY <2>4, <2>5 DEF Truth
  <2>9. CallOK(c)'
    BY <2>1, <2>4, <2>5, <2>7, <2>8 DEF CallOK
  <2> QED BY <2>2, <2>9, CallsKept
<1> QED BY <1>1, <1>2 DEF Reply

\* A transaction that throws, or that answers what it had stored.
LEMMA QuietOK ==
  ASSUME LedgerInv, CallInv, NEW c \in Callers, Open(c), Replay(c) \/ Refuse(c),
         UNCHANGED rows
  PROVE  CallInv' /\ UNCHANGED <<now, ledgers, rows>>
<1>1. UNCHANGED <<now, ledgers, rows>> /\ record' = record /\ outbox' = outbox
  BY DEF Replay, Refuse, ledgers, rows
<1>2. KindsKept
  BY <1>1 DEF KindsKept
<1>3. CASE Replay(c)
  <2>1. PICK i \in Replayed(c) : Reply(c, [state |-> i.state, version |-> i.version])
    BY <1>3 DEF Replay
  <2>2. PICK q : q = call[c]
    OBVIOUS
  <2>3. PICK answer : answer = [state |-> i.state, version |-> i.version]
    OBVIOUS
  <2>4. answer.state = i.state /\ answer.version = i.version
    BY <2>3
  <2>5. StoredOK(i) /\ i.command = q.command /\ i.digest = <<q.ref, q.version>>
    BY <2>2 DEF Replayed, Existing, Digest, LedgerInv
  <2>6. i.digest[1] = q.ref /\ i.digest[2] = q.version
    BY <2>5
  <2>7. answer \in Results
    BY <2>3, <2>5 DEF StoredOK
  <2>8. ASSUME q.command # Deciding PROVE Truth(q.command, q.ref, q.version, answer)'
    <3>1. q.ref \in Refs /\ Truth(i.command, i.digest[1], i.digest[2], i)
      BY <2>5, <2>6, <2>8 DEF StoredOK
    <3>2. Truth(q.command, q.ref, q.version, answer)
      BY <2>4, <2>5, <2>6, <3>1 DEF Truth
    <3> QED BY <1>1, <1>2, <3>1, <3>2, TruthKept
  <2>9. Reply(c, answer)
    BY <2>1, <2>3
  <2> QED BY <1>1, <1>2, <2>2, <2>7, <2>8, <2>9, ReplyOK
<1>4. CASE Refuse(c)
  <2>1. CASE call' = [call EXCEPT ![c] = None]
    <3>1. /\ DOMAIN call' = Callers /\ call'[c] = None
          /\ \A d \in Callers : d # c => call'[d] = call[d]
      BY <2>1 DEF CallInv
    <3>2. CallOK(c)'
      BY <3>1 DEF CallOK
    <3> QED BY <1>1, <1>2, <3>1, <3>2, CallsKept
  <2>2. CASE UNCHANGED call
    BY <1>1, <1>2, <2>2, CallsAlone
  <2> QED BY <1>4, <2>1, <2>2 DEF Refuse
<1> QED BY <1>1, <1>3, <1>4

\* Rows that are left alone.
LEMMA RowsKept ==
  ASSUME RowInv, UNCHANGED <<now, rows>>
  PROVE  RowInv'
<1>1. /\ now' = now /\ record' = record /\ artifact' = artifact
      /\ member' = member /\ decision' = decision
  BY DEF rows
<1>2. \A r \in Refs : RecordOK(r)'
  BY <1>1 DEF RowInv, RecordOK, Start
<1> QED BY <1>1, <1>2 DEF RowInv

\* A step that only concerns a call.
LEMMA QuietInv ==
  ASSUME RowInv, LedgerInv, CallInv', UNCHANGED <<now, ledgers, rows>>
  PROVE  Inv'
<1>1. UNCHANGED <<now, rows>> /\ UNCHANGED <<ledgers, record>>
  BY DEF rows
<1> QED BY <1>1, RowsKept, LedgerKept DEF Inv
-----------------------------------------------------------------------------
(* The transactions that commit.                                           *)

\* A record that moves to the next version, in a state of its kind.
LEMMA RowMoved ==
  ASSUME RowInv, NEW r \in Refs, NEW row \in Record,
         record' = [record EXCEPT ![r] = row], row.kind = record[r].kind,
         row.state \in StatesOf(row.kind), row.state # "none",
         row.version = record[r].version + 1,
         UNCHANGED <<now, artifact, member, decision>>
  PROVE  RowInv'
<1>1. /\ record' \in [Refs -> Record] /\ record'[r] = row
      /\ \A x \in Refs : x # r => record'[x] = record[x]
  BY DEF RowInv
<1>2. record[r].version \in Nat /\ Start(r) \in Nat /\ Start(r) <= record[r].version
  BY RecordsAssumption DEF RowInv, Record, RecordOK, Start
<1>3. Start(r)' = Start(r) /\ Start(r) <= row.version
  BY <1>1, <1>2 DEF Start
<1>4. ASSUME NEW x \in Refs PROVE RecordOK(x)'
  <2>1. CASE x = r
    BY <1>1, <1>3, <2>1 DEF RecordOK
  <2>2. CASE x # r
    <3>1. RecordOK(x) /\ record'[x] = record[x]
      BY <1>1, <2>2 DEF RowInv
    <3> QED BY <3>1 DEF RecordOK, Start
  <2> QED BY <2>1, <2>2
<1> QED BY <1>1, <1>4 DEF RowInv

\* A transaction that moves the record of the call keeps the invariant.
LEMMA MoveInv ==
  ASSUME Inv, NEW c \in Callers, Open(c), NEW q, q = call[c],
         NEW r \in Refs, q.ref = r, q.version = record[r].version,
         q.command # Deciding, Existing(c) = {},
         NEW row \in Record, NEW state, NEW from, NEW command, NEW event,
         record' = [record EXCEPT ![r] = row],
         row.kind = record[r].kind, row.state = state,
         state \in StatesOf(row.kind), state # "none",
         row.version = record[r].version + 1,
         record[r].version > Start(r) => from = record[r].state,
         q.version > 0 => state = CommandsOf(record[r].kind)[q.command].next,
         Commit(c, row.version, state, {AuditEvent(c, command, r, from, state)},
                {OutboxEvent(c, event, r, row.version, state)}),
         UNCHANGED <<artifact, member, decision>>
  PROVE  Inv'
<1>1. PICK answer : answer = [state |-> state, version |-> row.version]
  OBVIOUS
<1>2. answer \in Results
  <2>1. row.version \in 1 .. MaxVersion
    <3>1. record[r].version \in Nat /\ row.version \in 0 .. MaxVersion
      BY RecordsAssumption DEF Inv, RowInv, Record
    <3> QED BY <3>1, RecordsAssumption
  <2>2. row.kind \in Kinds
    BY DEF Record
  <2> QED BY <1>1, <2>1, <2>2 DEF Results
<1>3. /\ CompleteIdempotency(c, row.version, state)
      /\ audit' = audit \cup {AuditEvent(c, command, r, from, state)}
      /\ outbox' = outbox \cup {OutboxEvent(c, event, r, row.version, state)}
      /\ Reply(c, answer) /\ now' = now
  BY <1>1 DEF Commit
<1>4. RowInv'
  BY <1>3, RowMoved DEF Inv
<1>5. LedgerInv' /\ KindsKept /\ Truth(q.command, r, q.version, answer)'
  BY <1>1, <1>2, <1>3, MoveLedger DEF Inv
<1>6. CallInv'
  BY <1>2, <1>3, <1>5, ReplyOK DEF Inv
<1> QED BY <1>4, <1>5, <1>6 DEF Inv

\* What is known of an open call.
LEMMA OpenCall ==
  ASSUME CallInv, NEW c \in Callers, Open(c)
  PROVE  /\ call[c].ref \in Refs /\ call[c].version \in Nat /\ Asks(c)
         /\ call[c].at \in Times
         /\ call[c].command = Deciding => call[c].arg \in Authorization
BY DEF CallInv, CallOK, Open

\* createRequest: the row is inserted with version 1.
LEMMA CreateInv ==
  ASSUME Inv, NEW c \in Callers, CreateRequest(c)
  PROVE  Inv'
<1>0. Open(c) /\ call[c].command = Creating
  BY DEF CreateRequest, Runs, Creating
<1>1. CASE (Replay(c) \/ Refuse(c)) /\ UNCHANGED rows
  BY <1>0, <1>1, QuietOK, QuietInv DEF Inv
<1>2. CASE ~((Replay(c) \/ Refuse(c)) /\ UNCHANGED rows)
  <2>1. PICK q : q = call[c]
    OBVIOUS
  <2>2. PICK r : r = q.ref
    OBVIOUS
  <2>3. /\ Existing(c) = {} /\ record[r].state = "none"
        /\ record' = [record EXCEPT ![r] = Inserted(record[r])]
        /\ Commit(c, 1, "requested",
             {AuditEvent(c, Creating, r, None, "requested")},
             {OutboxEvent(c, "VerificationRequested", r, 1, "requested")})
        /\ UNCHANGED <<artifact, member, decision>>
    BY <1>2, <2>1, <2>2 DEF CreateRequest, Creating
  <2>4. r \in Refs /\ Asks(c)
    BY <1>0, <2>1, <2>2, OpenCall DEF Inv
  <2>5. record[r] \in Record /\ RecordOK(r)
    BY <2>4 DEF Inv, RowInv
  <2>6. record[r].kind = "verification_request" /\ record[r].version = 0 /\ Start(r) = 0
    BY <2>3, <2>5 DEF RecordOK, Start
  <2>7. q.version = 0 /\ q.command # Deciding
    <3>1. \A k \in Kinds : Creating \notin DOMAIN CommandsOf(k)
      BY MachinesSane DEF Sane
    <3>2. record[r].kind \in Kinds
      BY <2>5 DEF Record
    <3> QED BY <1>0, <2>1, <2>2, <2>4, <3>1, <3>2 DEF Asks, Creating, Deciding
  <2>8. PICK row : row = Inserted(record[r])
    OBVIOUS
  <2>9. /\ row \in Record /\ row.kind = record[r].kind /\ row.state = "requested"
        /\ row.version = 1
    <3>1. "requested" \in UNION {StatesOf(k) : k \in Kinds} /\ 1 \in 0 .. MaxVersion
      <4>1. "requested" \in StatesOf(record[r].kind) /\ record[r].kind \in Kinds
        BY <2>5 DEF StatesOf, Record
      <4> QED BY <4>1, RecordsAssumption
    <3> QED BY <2>5, <2>8, <3>1 DEF Inserted, Record
  <2>10. "requested" \in StatesOf(row.kind)
    BY DEF StatesOf
  <2>11. /\ record' = [record EXCEPT ![r] = row]
         /\ Commit(c, row.version, "requested",
              {AuditEvent(c, Creating, r, None, "requested")},
              {OutboxEvent(c, "VerificationRequested", r, row.version, "requested")})
         /\ row.version = record[r].version + 1 /\ q.version = record[r].version
         /\ ~(record[r].version > Start(r)) /\ ~(q.version > 0)
    BY <2>3, <2>6, <2>7, <2>8, <2>9
  <2> QED BY <1>0, <2>1, <2>2, <2>3, <2>4, <2>7, <2>9, <2>10, <2>11, MoveInv
<1> QED BY <1>1, <1>2

\* The row that a transition writes.
LEMMA MovedRow ==
  ASSUME NEW row \in Record, NEW state \in StatesOf(row.kind), NEW at \in Times,
         row.version < MaxVersion
  PROVE  /\ Moved(row, state, at) \in Record
         /\ Moved(row, state, at).kind = row.kind
         /\ Moved(row, state, at).state = state
         /\ Moved(row, state, at).version = row.version + 1
<1>1. row.kind \in Kinds /\ row.version \in 0 .. MaxVersion
  BY DEF Record
<1>2. state \in UNION {StatesOf(k) : k \in Kinds}
  BY <1>1
<1>3. row.version + 1 \in 0 .. MaxVersion
  BY <1>1, RecordsAssumption
<1>4. PICK b \in Times \cup {None} :
        b = IF row.kind = "consent_receipt" /\ state = "acknowledged"
            THEN at ELSE row.began
  BY DEF Record
<1>5. PICK d \in Times \cup {None} :
        d = IF EndStamped(row.kind, state) THEN at ELSE row.ended
  BY DEF Record
<1>6. Moved(row, state, at) = [row EXCEPT !.state = state, !.version = row.version + 1,
                                 !.began = b, !.ended = d]
  BY <1>4, <1>5 DEF Moved, Record
<1> QED BY <1>2, <1>3, <1>6 DEF Record

\* transition: the record moves as its machine says.
LEMMA TransitionInv ==
  ASSUME Inv, NEW c \in Callers, Transition(c)
  PROVE  Inv'
<1>0. Open(c) /\ call[c].command \in DOMAIN CommandsOf(record[call[c].ref].kind)
  BY DEF Transition, InMachine, Machine
<1>1. CASE (Replay(c) \/ Refuse(c)) /\ UNCHANGED rows
  BY <1>0, <1>1, QuietOK, QuietInv DEF Inv
<1>2. CASE ~((Replay(c) \/ Refuse(c)) /\ UNCHANGED rows)
  <2>1. PICK q : q = call[c]
    OBVIOUS
  <2>2. PICK r : r = q.ref
    OBVIOUS
  <2>3. PICK state : state = CommandsOf(record[r].kind)[q.command].next
    OBVIOUS
  <2>4. Target(c) = state
    BY <2>1, <2>2, <2>3 DEF Target, Machine
  <2>5. /\ Transitions(c) /\ record[r].version < MaxVersion
        /\ record' = [record EXCEPT ![r] = Moved(record[r], state, q.at)]
        /\ Commit(c, record[r].version + 1, state,
             {AuditEvent(c, q.command, r, record[r].state, state)},
             {OutboxEvent(c, q.command, r, record[r].version + 1, state)})
        /\ UNCHANGED <<artifact, member, decision>>
    BY <1>2, <2>1, <2>2, <2>4 DEF Transition
  <2>6. r \in Refs /\ q.at \in Times
    BY <1>0, <2>1, <2>2, OpenCall DEF Inv
  <2>7. record[r] \in Record /\ record[r].kind \in Kinds
    BY <2>6 DEF Inv, RowInv, Record
  <2>8. q.command # Deciding /\ state # "none" /\ state \in StatesOf(record[r].kind)
    BY <1>0, <2>1, <2>2, <2>3, <2>7, MachinesSane, NextIsState DEF Sane
  <2>9. Existing(c) = {} /\ q.version = record[r].version
    BY <2>1, <2>2, <2>5 DEF Transitions, Fresh
  <2>10. PICK row : row = Moved(record[r], state, q.at)
    OBVIOUS
  <2>11. /\ row \in Record /\ row.kind = record[r].kind /\ row.state = state
         /\ row.version = record[r].version + 1
    BY <2>5, <2>6, <2>7, <2>8, <2>10, MovedRow
  <2>12. PICK from : from = record[r].state
    OBVIOUS
  <2>13. PICK command : command = q.command
    OBVIOUS
  <2>14. /\ record' = [record EXCEPT ![r] = row]
         /\ Commit(c, row.version, state, {AuditEvent(c, command, r, from, state)},
              {OutboxEvent(c, command, r, row.version, state)})
         /\ state \in StatesOf(row.kind)
    BY <2>5, <2>8, <2>10, <2>11, <2>12, <2>13
  <2>15. UNCHANGED <<artifact, member, decision>> /\ Open(c)
    BY <1>0, <2>5
  <2> QED BY <2>1, <2>2, <2>3, <2>6, <2>8, <2>9, <2>11, <2>12, <2>14, <2>15, MoveInv
<1> QED BY <1>1, <1>2

\* recordReviewDecision: a row of its own, and no record moves.
LEMMA DecisionInv ==
  ASSUME Inv, NEW c \in Callers, RecordReviewDecision(c)
  PROVE  Inv'
<1>0. Open(c) /\ call[c].command = Deciding
  BY DEF RecordReviewDecision, Runs, Deciding
<1>1. CASE (Replay(c) \/ Refuse(c)) /\ UNCHANGED rows
  BY <1>0, <1>1, QuietOK, QuietInv DEF Inv
<1>2. CASE ~((Replay(c) \/ Refuse(c)) /\ UNCHANGED rows)
  <2>1. PICK q : q = call[c]
    OBVIOUS
  <2>2. PICK d : d = q.arg.state
    OBVIOUS
  <2>3. PICK ref : ref = <<q.ref, q.arg.reviewer>>
    OBVIOUS
  <2>4. /\ decision' = decision \cup
             {[request |-> q.ref, reviewer |-> q.arg.reviewer, state |-> d]}
        /\ Commit(c, 1, d, {AuditEvent(c, Deciding, ref, None, d)},
             {OutboxEvent(c, "ReviewDecisionRecorded", ref, 1, d)})
        /\ UNCHANGED <<record, artifact, member>>
    BY <1>2, <2>1, <2>2, <2>3 DEF RecordReviewDecision, Deciding
  <2>5. /\ q.ref \in Refs /\ q.arg.reviewer \in Members /\ d \in Decisions
    BY <1>0, <2>1, <2>2, OpenCall DEF Inv, Authorization
  <2>6. ref \notin Refs
    BY <2>3, <2>5, RecordsAssumption
  <2>7. PICK answer : answer = [state |-> d, version |-> 1]
    OBVIOUS
  <2>8. answer \in Results
    <3>1. 1 \in 1 .. MaxVersion
      BY RecordsAssumption
    <3> QED BY <2>5, <2>7, <3>1 DEF Results
  <2>9. /\ CompleteIdempotency(c, 1, d)
        /\ audit' = audit \cup {AuditEvent(c, Deciding, ref, None, d)}
        /\ outbox' = outbox \cup {OutboxEvent(c, "ReviewDecisionRecorded", ref, 1, d)}
        /\ Reply(c, answer) /\ now' = now
    BY <2>4, <2>7 DEF Commit
  <2>10. LedgerInv'
    BY <1>0, <2>4, <2>6, <2>7, <2>8, <2>9, DecisionLedger DEF Inv
  <2>11. KindsKept
    BY <2>4 DEF KindsKept
  <2>12. CallInv'
    BY <1>0, <2>1, <2>8, <2>9, <2>11, ReplyOK DEF Inv
  <2>13. \A r \in Refs : RecordOK(r)'
    BY <2>4 DEF Inv, RowInv, RecordOK, Start
  <2>14. RowInv'
    BY <2>4, <2>5, <2>9, <2>13 DEF Inv, RowInv
  <2> QED BY <2>10, <2>12, <2>14 DEF Inv
<1> QED BY <1>1, <1>2
-----------------------------------------------------------------------------
(* The invariant.                                                          *)

\* A command is sent for a record that has the state it expects.
LEMMA SendCommandInv ==
  ASSUME Inv, NEW c \in Callers, NEW r \in Refs, SendCommand(c, r)
  PROVE  Inv'
<1>1. PICK command \in DOMAIN CommandsOf(record[r].kind), home \in BOOLEAN :
        Send(c, command, r, record[r].version, now, home)
  BY DEF SendCommand
<1>2. /\ record[r].kind \in Kinds /\ record[r].version \in Nat /\ now \in Times
      /\ record[r].version > 0
  BY RecordsAssumption DEF SendCommand, Inv, RowInv, Record
<1>3. command # Deciding
  BY <1>2, MachinesSane DEF Sane
<1>4. PICK version \in Nat : version = record[r].version
  BY <1>2
<1>5. CallInv' /\ UNCHANGED <<now, ledgers, rows>>
  BY <1>1, <1>2, <1>3, <1>4, SendOK DEF Inv, SendCommand
<1> QED BY <1>5, QuietInv DEF Inv

\* A verification request is asked for.
LEMMA SendCreateInv ==
  ASSUME Inv, NEW c \in Callers, NEW r \in Refs, SendCreate(c, r)
  PROVE  Inv'
<1>1. now \in Times
  BY DEF Inv, RowInv
<1>2. CallInv' /\ UNCHANGED <<now, ledgers, rows>>
  BY <1>1, SendOK DEF Inv, SendCreate, Creating
<1> QED BY <1>2, QuietInv DEF Inv

\* A reviewer's decision is sent, with the authorization of that moment.
LEMMA SendDecisionInv ==
  ASSUME Inv, NEW c \in Callers, NEW r \in Refs, NEW m \in Members,
         SendDecision(c, r, m)
  PROVE  Inv'
<1>1. PICK d \in Decisions :
        Send(c, Deciding, r, record[r].version, now,
             [reviewer |-> m, state |-> d, authorized |-> member[m].active,
              conflicted |-> member[m].conflicted])
  BY DEF SendDecision, Deciding
<1>2. PICK arg : arg = [reviewer |-> m, state |-> d, authorized |-> member[m].active,
                        conflicted |-> member[m].conflicted]
  OBVIOUS
<1>3. arg \in Authorization
  BY <1>2 DEF Inv, RowInv, Authorization
<1>4. record[r].version \in Nat /\ now \in Times
  BY RecordsAssumption DEF Inv, RowInv, Record
<1>5. PICK version \in Nat : version = record[r].version
  BY <1>4
<1>6. CallInv' /\ UNCHANGED <<now, ledgers, rows>>
  BY <1>1, <1>2, <1>3, <1>4, <1>5, SendOK DEF Inv, SendDecision
<1> QED BY <1>6, QuietInv DEF Inv

\* Steps of the rest of the system: no call, no ledger and no record changes.
LEMMA OutsideInv ==
  ASSUME Inv, UNCHANGED <<call, ledgers, record>>,
         now' \in Times, artifact' \in [Refs -> SUBSET Artifacts],
         member' \in [Members -> [active : BOOLEAN, conflicted : BOOLEAN]],
         decision' = decision
  PROVE  Inv'
<1>1. LedgerInv'
  BY LedgerKept DEF Inv
<1>2. KindsKept /\ outbox' = outbox
  BY DEF KindsKept, ledgers
<1>3. CallInv'
  BY <1>2, CallsAlone DEF Inv
<1>4. \A r \in Refs : RecordOK(r)'
  BY DEF Inv, RowInv, RecordOK, Start
<1>5. RowInv'
  BY <1>4 DEF Inv, RowInv
<1> QED BY <1>1, <1>3, <1>5 DEF Inv

\* The invariant holds at first: no event, no result and no call.
LEMMA InitInv == Init => Inv
<1> SUFFICES ASSUME Init PROVE Inv
  OBVIOUS
<1>1. /\ now = 0 /\ call = [c \in Callers |-> None]
      /\ idem = {} /\ audit = {} /\ outbox = {}
  BY DEF Init, CommandsInit
<1>2. ASSUME NEW r \in Refs
      PROVE  /\ record[r] \in Record /\ RecordOK(r)
             /\ record[r].version = Start(r) /\ Start(r) \in Int
  <2>1. PICK k \in Kinds :
          record[r] = [kind |-> k, state |-> FirstState(k), version |->
                         IF k = "verification_request" THEN 0 ELSE 1,
                       began |-> None, ended |-> None]
    BY DEF Init
  <2>2. FirstState(k) \in StatesOf(k)
    BY DEF StatesOf
  <2>3. FirstState(k) \in UNION {StatesOf(j) : j \in Kinds}
    BY <2>2
  <2>4. PICK v \in 0 .. MaxVersion : v = IF k = "verification_request" THEN 0 ELSE 1
    BY RecordsAssumption
  <2>5. /\ record[r].kind = k /\ record[r].state = FirstState(k)
        /\ record[r].version = v /\ record[r] \in Record
    BY <2>1, <2>3, <2>4 DEF Record
  <2>6. Start(r) = v /\ v \in Int
    BY <2>4, <2>5 DEF Start
  <2>7. FirstState(k) = "none" => k = "verification_request"
    BY DEF FirstState, Kinds
  <2> QED BY <2>2, <2>4, <2>5, <2>6, <2>7 DEF RecordOK
<1>3. record \in [Refs -> Record]
  BY <1>2 DEF Init
<1>4. RowInv
  BY <1>1, <1>2, <1>3, CommandsAssumption DEF RowInv, Init, Times
<1>5. ASSUME NEW r \in Refs PROVE HistoryOK(r)
  <2>1. EventsOf(r) = {} /\ AuditOf(r) = {}
    BY <1>1 DEF EventsOf, AuditOf
  <2>2. IsFiniteSet({}) /\ Cardinality({}) = 0
    BY FS_EmptySet
  <2>3. Start(r) + 1 .. record[r].version = {} /\ record[r].version - Start(r) = 0
    BY <1>2
  <2>4. {e.version : e \in EventsOf(r)} = {}
    BY <2>1
  <2> QED BY <2>1, <2>2, <2>3, <2>4 DEF HistoryOK
<1>6. LedgerInv
  BY <1>1, <1>5 DEF LedgerInv
<1>7. CallInv
  BY <1>1 DEF CallInv, CallOK
<1> QED BY <1>4, <1>6, <1>7 DEF Inv

\* Every step keeps the invariant.
LEMMA NextInv == Inv /\ [Next]_vars => Inv'
<1> SUFFICES ASSUME Inv, [Next]_vars PROVE Inv'
  OBVIOUS
<1>0. /\ now \in Times /\ artifact \in [Refs -> SUBSET Artifacts]
      /\ member \in [Members -> [active : BOOLEAN, conflicted : BOOLEAN]]
  BY DEF Inv, RowInv
<1>1. CASE Tick
  <2>1. now' \in Times
    BY <1>0, <1>1, CommandsAssumption DEF Tick, Advance, Times
  <2> QED BY <1>0, <1>1, <2>1, OutsideInv DEF Tick, rows
<1>2. CASE \E r \in Refs, a \in Artifacts : StoreArtifact(r, a)
  <2>1. PICK r \in Refs, a \in Artifacts : StoreArtifact(r, a)
    BY <1>2
  <2>2. artifact' \in [Refs -> SUBSET Artifacts]
    BY <1>0, <2>1 DEF StoreArtifact
  <2>3. UNCHANGED <<now, call, ledgers, record, member, decision>>
    BY <2>1 DEF StoreArtifact, commandVars, ledgers
  <2> QED BY <1>0, <2>2, <2>3, OutsideInv
<1>3. CASE \E m \in Members : MemberChanges(m)
  <2>1. PICK m \in Members : MemberChanges(m)
    BY <1>3
  <2>2. member' \in [Members -> [active : BOOLEAN, conflicted : BOOLEAN]]
    <3>1. member[m] \in [active : BOOLEAN, conflicted : BOOLEAN]
      BY <1>0
    <3>2. /\ [member[m] EXCEPT !.active = ~@] \in [active : BOOLEAN, conflicted : BOOLEAN]
          /\ [member[m] EXCEPT !.conflicted = ~@] \in [active : BOOLEAN, conflicted : BOOLEAN]
      BY <3>1
    <3>3. \/ member' = [member EXCEPT ![m] = [member[m] EXCEPT !.active = ~@]]
          \/ member' = [member EXCEPT ![m] = [member[m] EXCEPT !.conflicted = ~@]]
      BY <1>0, <2>1 DEF MemberChanges
    <3> QED BY <1>0, <3>2, <3>3
  <2>3. UNCHANGED <<now, call, ledgers, record, artifact, decision>>
    BY <2>1 DEF MemberChanges, commandVars, ledgers
  <2> QED BY <1>0, <2>2, <2>3, OutsideInv
<1>4. CASE \E c \in Callers, r \in Refs :
             \/ SendCommand(c, r) \/ SendCreate(c, r)
             \/ \E m \in Members : SendDecision(c, r, m)
  BY <1>4, SendCommandInv, SendCreateInv, SendDecisionInv
<1>5. CASE \E c \in Callers :
             CreateRequest(c) \/ Transition(c) \/ RecordReviewDecision(c)
  BY <1>5, CreateInv, TransitionInv, DecisionInv
<1>6. CASE UNCHANGED vars
  <2>1. UNCHANGED <<now, call, ledgers, record, artifact, member, decision>>
    BY <1>6 DEF vars, commandVars, ledgers
  <2> QED BY <1>0, <2>1, OutsideInv
<1> QED BY <1>1, <1>2, <1>3, <1>4, <1>5, <1>6 DEF Next

\* The invariant holds throughout.
LEMMA Invariance == Spec => []Inv
BY InitInv, NextInv, PTL DEF Spec

-----------------------------------------------------------------------------
(* Domain and database.                                                    *)

\* The rows satisfy the constraints of their tables, and a command that has
\* seen the present version was sent after what that version is dated with.
RowDated(r) ==
  RowChecks(record[r]) /\ (record[r].began # None => record[r].began <= now)

CallDated(c) ==
  LET row == record[call[c].ref]
  IN  Open(c) => /\ call[c].at <= now /\ call[c].version <= row.version
                 /\ call[c].version = row.version /\ row.began # None =>
                      row.began <= call[c].at

CheckInv ==
  /\ \A r \in Refs : RowDated(r)
  /\ \A c \in Callers : CallDated(c)

\* What a transition writes into the columns that the constraints are about.
LEMMA MovedStamps ==
  ASSUME NEW row \in Record, NEW state, NEW at
  PROVE  /\ Moved(row, state, at).kind = row.kind
         /\ Moved(row, state, at).state = state
         /\ Moved(row, state, at).began =
              IF row.kind = "consent_receipt" /\ state = "acknowledged"
              THEN at ELSE row.began
         /\ Moved(row, state, at).ended =
              IF EndStamped(row.kind, state) THEN at ELSE row.ended
BY DEF Moved, Record

\* A consent is acknowledged, then withdrawn.
LEMMA ConsentMoves ==
  ASSUME NEW command \in DOMAIN ConsentCommands
  PROVE  \/ /\ ConsentCommands[command].expected = {"pending"}
            /\ ConsentCommands[command].next = "acknowledged"
         \/ /\ ConsentCommands[command].expected = {"acknowledged"}
            /\ ConsentCommands[command].next = "withdrawn"
BY DEF ConsentCommands, From

\* A consumed wallet challenge stays so; only rejectWalletResponse rejects one.
LEMMA WalletMoves ==
  ASSUME NEW command \in DOMAIN WalletChallengeCommands
  PROVE  /\ "consumed" \notin WalletChallengeCommands[command].expected
         /\ command # "rejectWalletResponse" =>
              WalletChallengeCommands[command].next \notin {"rejected", "cancelled"}
BY DEF WalletChallengeCommands, From

\* rejectWalletResponse is a command of wallet challenges and of nothing else.
LEMMA OnlyWalletsReject ==
  ASSUME NEW kind \in Kinds, "rejectWalletResponse" \in DOMAIN CommandsOf(kind)
  PROVE  kind = "wallet_challenge" /\ CommandsOf(kind)["rejectWalletResponse"].next = "rejected"
BY DEF Kinds, CommandsOf, VerificationCommands, CommitteeCommands, RenewalCommands,
       WalletChallengeCommands, ConsentCommands, AppealCommands, PrivacyCommands,
       NotificationCommands, RelyingPartyCommands, From

\* A resolved appeal stays resolved.
LEMMA AppealMoves ==
  ASSUME NEW command \in DOMAIN AppealCommands
  PROVE  \A state \in {"upheld", "denied", "remanded"} :
           state \notin AppealCommands[command].expected
BY DEF AppealCommands, From

\* A delivered notification stays delivered.
LEMMA NotificationMoves ==
  ASSUME NEW command \in DOMAIN NotificationCommands
  PROVE  "delivered" \notin NotificationCommands[command].expected
BY DEF NotificationCommands, From

\* The constraints accept what every command but rejectWalletResponse writes
\* into a row that satisfies them.
LEMMA ChecksAccept ==
  ASSUME NEW row \in Record, RowChecks(row), NEW at \in Times,
         row.began # None => row.began <= at,
         NEW command \in DOMAIN CommandsOf(row.kind),
         command # "rejectWalletResponse",
         row.state \in CommandsOf(row.kind)[command].expected
  PROVE  RowChecks(Moved(row, CommandsOf(row.kind)[command].next, at))
<1>1. PICK next : next = CommandsOf(row.kind)[command].next
  OBVIOUS
<1>2. PICK new : new = Moved(row, next, at)
  OBVIOUS
<1>3. /\ new.kind = row.kind /\ new.state = next
      /\ new.began = IF row.kind = "consent_receipt" /\ next = "acknowledged"
                     THEN at ELSE row.began
      /\ new.ended = IF EndStamped(row.kind, next) THEN at ELSE row.ended
  BY <1>2, MovedStamps
<1>4. at # None /\ at \in Nat
  BY RecordsAssumption, CommandsAssumption DEF Times
<1>5. ASSUME row.kind = "consent_receipt"
      PROVE  /\ (next = "pending") = (new.began = None)
             /\ (next = "withdrawn") = (new.ended # None)
             /\ new.ended # None => new.ended >= new.began
  <2>0. CommandsOf(row.kind) = ConsentCommands
    BY <1>5 DEF CommandsOf
  <2>1. /\ (row.state = "pending") = (row.began = None)
        /\ (row.state = "withdrawn") = (row.ended # None)
        /\ row.began \in Times \cup {None}
    BY <1>5 DEF RowChecks, Record
  <2>2. CASE row.state = "pending" /\ next = "acknowledged"
    BY <1>3, <1>4, <1>5, <2>1, <2>2 DEF EndStamped
  <2>3. CASE row.state = "acknowledged" /\ next = "withdrawn"
    <3>1. new.ended = at /\ new.began = row.began /\ row.began \in Times
      BY <1>3, <1>5, <2>1, <2>3 DEF EndStamped
    <3>2. row.began <= at /\ row.began # None
      BY <2>1, <2>3
    <3> QED BY <1>4, <2>3, <3>1, <3>2 DEF Times
  <2> QED BY <1>1, <2>0, <2>2, <2>3, ConsentMoves
<1>6. ASSUME row.kind = "wallet_challenge"
      PROVE  /\ (next = "consumed") = (new.ended # None)
             /\ (next \in {"rejected", "cancelled"}) = (RejectionReason(new) # None)
  <2>0. CommandsOf(row.kind) = WalletChallengeCommands
    BY <1>6 DEF CommandsOf
  <2>1. row.state # "consumed" /\ next \notin {"rejected", "cancelled"}
    BY <1>1, <2>0, WalletMoves
  <2>2. row.ended = None
    BY <1>6, <2>1 DEF RowChecks
  <2> QED BY <1>3, <1>4, <1>6, <2>1, <2>2 DEF EndStamped, RejectionReason
<1>7. ASSUME row.kind = "appeal"
      PROVE  (next \in {"upheld", "denied", "remanded"}) = (new.ended # None)
  <2>0. CommandsOf(row.kind) = AppealCommands
    BY <1>7 DEF CommandsOf
  <2>1. row.state \notin {"upheld", "denied", "remanded"}
    BY <2>0, AppealMoves
  <2>2. row.ended = None
    BY <1>7, <2>1 DEF RowChecks
  <2> QED BY <1>3, <1>4, <1>7, <2>2 DEF EndStamped
<1>8. ASSUME row.kind = "notification"
      PROVE  (next = "delivered") = (new.ended # None)
  <2>0. CommandsOf(row.kind) = NotificationCommands
    BY <1>8 DEF CommandsOf
  <2>1. row.state # "delivered"
    BY <2>0, NotificationMoves
  <2>2. row.ended = None
    BY <1>8, <2>1 DEF RowChecks
  <2> QED BY <1>3, <1>4, <1>8, <2>2 DEF EndStamped
<1>9. RowChecks(new)
  BY <1>3, <1>5, <1>6, <1>7, <1>8 DEF RowChecks
<1> QED BY <1>1, <1>2, <1>9

\* What a step does to the rows and the open calls: a row that changes gets the
\* next version and satisfies its constraints; a call is sent with the present
\* time and a version that its record has had.
RowShape ==
  \A r \in Refs :
    \/ record'[r] = record[r]
    \/ /\ record'[r].version = record[r].version + 1
       /\ RowChecks(record'[r])
       /\ record'[r].began # None => record'[r].began <= now

CallShape ==
  \A c \in Callers : Open(c)' =>
    \/ Open(c) /\ call'[c] = call[c]
    \/ /\ call'[c].at = now /\ record' = record /\ call'[c].ref \in Refs
       /\ call'[c].version <= record[call'[c].ref].version

\* A new call.
LEMMA SendShape ==
  ASSUME Inv, NEW c \in Callers, NEW command, NEW ref \in Refs, NEW version, NEW arg,
         version <= record[ref].version,
         Send(c, command, ref, version, now, arg), record' = record
  PROVE  CallShape
<1>1. PICK key :
        call' = [call EXCEPT ![c] =
                   [key |-> key, command |-> command, ref |-> ref, version |-> version,
                    at |-> now, arg |-> arg, answer |-> None]]
  BY DEF Send
<1>2. PICK q : q = [key |-> key, command |-> command, ref |-> ref,
                    version |-> version, at |-> now, arg |-> arg, answer |-> None]
  OBVIOUS
<1>3. call'[c] = q /\ \A d \in Callers : d # c => call'[d] = call[d]
  BY <1>1, <1>2 DEF Inv, CallInv
<1>4. q.at = now /\ q.ref = ref /\ q.version = version
  BY <1>2
<1> QED BY <1>3, <1>4 DEF CallShape, Open

\* A transaction leaves its call as it was, or ends it.
LEMMA ReplyShape ==
  ASSUME Inv, NEW c \in Callers, Open(c), NEW answer \in Results, Reply(c, answer)
  PROVE  CallShape
<1>1. CASE UNCHANGED call
  BY <1>1 DEF CallShape, Open
<1>2. CASE call' = [call EXCEPT ![c].answer = answer, ![c].at = None, ![c].arg = None]
  <2>1. PICK q : q = call[c]
    OBVIOUS
  <2>2. DOMAIN q = CallFields
    BY <2>1 DEF Inv, CallInv, CallOK, Open
  <2>3. /\ \A d \in Callers : d # c => call'[d] = call[d]
        /\ call'[c] = [q EXCEPT !.answer = answer, !.at = None, !.arg = None]
    BY <1>2, <2>1 DEF Inv, CallInv
  <2>4. call'[c].answer = answer /\ answer # None
    BY <2>2, <2>3, RecordsAssumption DEF CallFields
  <2> QED BY <2>3, <2>4 DEF CallShape, Open
<1> QED BY <1>1, <1>2 DEF Reply

\* A call that replays or is refused keeps its shape.
LEMMA QuietShape ==
  ASSUME Inv, NEW c \in Callers, Open(c), Replay(c) \/ Refuse(c)
  PROVE  CallShape
<1>1. CASE Replay(c)
  <2>1. PICK i \in Replayed(c) : Reply(c, [state |-> i.state, version |-> i.version])
    BY <1>1 DEF Replay
  <2>2. PICK answer : answer = [state |-> i.state, version |-> i.version]
    OBVIOUS
  <2>3. answer \in Results /\ Reply(c, answer)
    BY <2>1, <2>2 DEF Inv, LedgerInv, StoredOK, Replayed, Existing
  <2> QED BY <2>3, ReplyShape
<1>2. CASE Refuse(c)
  BY <1>2 DEF Refuse, CallShape, Open, Inv, CallInv
<1> QED BY <1>1, <1>2

\* transition: the constraints are the database's condition for the UPDATE.
LEMMA TransitionShape ==
  ASSUME Inv, CheckInv, NEW c \in Callers, Transition(c)
  PROVE  RowShape /\ CallShape
<1>0. Open(c) /\ call[c].command \in DOMAIN CommandsOf(record[call[c].ref].kind)
  BY DEF Transition, InMachine, Machine
<1>1. CASE (Replay(c) \/ Refuse(c)) /\ UNCHANGED rows
  BY <1>0, <1>1, QuietShape DEF RowShape, rows
<1>2. CASE ~((Replay(c) \/ Refuse(c)) /\ UNCHANGED rows)
  <2>1. PICK q, r, state :
          q = call[c] /\ r = q.ref /\ state = CommandsOf(record[r].kind)[q.command].next
    OBVIOUS
  <2>2. Target(c) = state
    BY <2>1 DEF Target, Machine
  <2>3. /\ Transitions(c) /\ record[r].version < MaxVersion
        /\ record' = [record EXCEPT ![r] = Moved(record[r], state, q.at)]
        /\ Reply(c, [state |-> state, version |-> record[r].version + 1])
    BY <1>2, <2>1, <2>2 DEF Transition, Commit
  <2>4. r \in Refs /\ q.at \in Times /\ q.at <= now
    BY <1>0, <2>1, OpenCall DEF Inv, CheckInv, CallDated
  <2>5. record[r] \in Record /\ record[r].kind \in Kinds /\ DOMAIN record = Refs
    BY <2>4 DEF Inv, RowInv, Record
  <2>6. state \in StatesOf(record[r].kind)
    BY <1>0, <2>1, <2>5, NextIsState
  <2>7. PICK row : row = Moved(record[r], state, q.at)
    OBVIOUS
  <2>8. /\ row.version = record[r].version + 1
        /\ row.began \in {q.at, record[r].began}
    BY <2>3, <2>4, <2>5, <2>6, <2>7, MovedRow, MovedStamps
  <2>9. RowChecks(row)
    BY <2>1, <2>2, <2>3, <2>7 DEF Transitions, DatabaseAllows
  <2>10. row.began # None => row.began <= now
    BY <2>4, <2>8 DEF CheckInv, RowDated
  <2>11. RowShape
    BY <2>3, <2>5, <2>7, <2>8, <2>9, <2>10 DEF RowShape
  <2>12. PICK answer : answer = [state |-> state, version |-> record[r].version + 1]
    OBVIOUS
  <2>13. answer \in Results
    <3>1. record[r].version + 1 \in 1 .. MaxVersion
      BY <2>3, <2>5, RecordsAssumption DEF Record
    <3> QED BY <2>5, <2>6, <2>12, <3>1 DEF Results
  <2>14. CallShape
    BY <1>0, <2>3, <2>12, <2>13, ReplyShape
  <2> QED BY <2>11, <2>14
<1> QED BY <1>1, <1>2

\* createRequest inserts a row that no constraint is about.
LEMMA CreateShape ==
  ASSUME Inv, CheckInv, NEW c \in Callers, CreateRequest(c)
  PROVE  RowShape /\ CallShape
<1>0. Open(c) /\ call[c].command = Creating
  BY DEF CreateRequest, Runs, Creating
<1>1. CASE (Replay(c) \/ Refuse(c)) /\ UNCHANGED rows
  BY <1>0, <1>1, QuietShape DEF RowShape, rows
<1>2. CASE ~((Replay(c) \/ Refuse(c)) /\ UNCHANGED rows)
  <2>1. PICK r : r = call[c].ref
    OBVIOUS
  <2>2. /\ record[r].state = "none"
        /\ record' = [record EXCEPT ![r] = Inserted(record[r])]
        /\ Reply(c, [state |-> "requested", version |-> 1])
    BY <1>2, <2>1 DEF CreateRequest, Commit
  <2>3. r \in Refs
    BY <1>0, <2>1, OpenCall DEF Inv
  <2>4. /\ record[r] \in Record /\ DOMAIN record = Refs
        /\ record[r].kind = "verification_request" /\ record[r].version = 0
    BY <2>2, <2>3 DEF Inv, RowInv, RecordOK
  <2>5. PICK row : row = Inserted(record[r])
    OBVIOUS
  <2>6. /\ row.kind = "verification_request" /\ row.version = 1
        /\ row.began = record[r].began
    BY <2>4, <2>5 DEF Inserted, Record
  <2>7. RowChecks(row)
    BY <2>6 DEF RowChecks
  <2>8. RowShape
    BY <2>2, <2>3, <2>4, <2>5, <2>6, <2>7 DEF RowShape, CheckInv, RowDated
  <2>9. PICK answer : answer = [state |-> "requested", version |-> 1]
    OBVIOUS
  <2>10. answer \in Results
    <3>1. "requested" \in StatesOf("verification_request") /\ "verification_request" \in Kinds
      BY DEF StatesOf, Kinds
    <3>2. 1 \in 1 .. MaxVersion
      BY RecordsAssumption
    <3> QED BY <2>9, <3>1, <3>2 DEF Results
  <2>11. CallShape
    BY <1>0, <2>2, <2>9, <2>10, ReplyShape
  <2> QED BY <2>8, <2>11
<1> QED BY <1>1, <1>2

\* recordReviewDecision moves no record.
LEMMA DecisionShape ==
  ASSUME Inv, NEW c \in Callers, RecordReviewDecision(c)
  PROVE  RowShape /\ CallShape
<1>0. Open(c) /\ call[c].command = Deciding /\ record' = record
  BY DEF RecordReviewDecision, Runs, Deciding, rows
<1>1. CASE Replay(c) \/ Refuse(c)
  BY <1>0, <1>1, QuietShape DEF RowShape
<1>2. CASE ~(Replay(c) \/ Refuse(c))
  <2>1. PICK d : d = call[c].arg.state
    OBVIOUS
  <2>2. PICK answer : answer = [state |-> d, version |-> 1]
    OBVIOUS
  <2>3. Reply(c, answer)
    BY <1>2, <2>1, <2>2 DEF RecordReviewDecision, Commit
  <2>4. d \in Decisions /\ 1 \in 1 .. MaxVersion
    BY <1>0, <2>1, OpenCall, RecordsAssumption DEF Inv, Authorization
  <2>5. answer \in Results
    BY <2>2, <2>4 DEF Results
  <2> QED BY <1>0, <2>3, <2>5, ReplyShape DEF RowShape
<1> QED BY <1>1, <1>2

\* Every step has that shape.
LEMMA StepShape ==
  ASSUME Inv, CheckInv, [Next]_vars
  PROVE  RowShape /\ CallShape /\ now' \in Times /\ now <= now'
<1>0. now \in Times /\ \A r \in Refs : record[r].version \in Nat
  BY RecordsAssumption DEF Inv, RowInv, Record
<1>t. now' \in Times /\ now <= now'
  <2>1. Inv'
    BY NextInv
  <2>2. now' = now \/ now' = now + 1
    <3>1. CASE Tick \/ UNCHANGED vars
      BY <3>1 DEF Tick, Advance, vars, commandVars
    <3>2. ASSUME NEW r \in Refs, NEW a \in Artifacts, StoreArtifact(r, a)
          PROVE  now' = now
      BY <3>2 DEF StoreArtifact, commandVars
    <3>3. ASSUME NEW m \in Members, MemberChanges(m) PROVE now' = now
      BY <3>3 DEF MemberChanges, commandVars
    <3>4. ASSUME NEW c \in Callers, NEW r \in Refs, SendCommand(c, r) PROVE now' = now
      BY <3>4 DEF SendCommand, Send
    <3>5. ASSUME NEW c \in Callers, NEW r \in Refs, SendCreate(c, r) PROVE now' = now
      BY <3>5 DEF SendCreate, Send
    <3>6. ASSUME NEW c \in Callers, NEW r \in Refs, NEW m \in Members,
                 SendDecision(c, r, m)
          PROVE  now' = now
      BY <3>6 DEF SendDecision, Send
    <3>7. ASSUME NEW c \in Callers, CreateRequest(c) PROVE now' = now
      BY <3>7 DEF CreateRequest, Replay, Refuse, Commit
    <3>8. ASSUME NEW c \in Callers, Transition(c) PROVE now' = now
      BY <3>8 DEF Transition, Replay, Refuse, Commit
    <3>9. ASSUME NEW c \in Callers, RecordReviewDecision(c) PROVE now' = now
      BY <3>9 DEF RecordReviewDecision, Replay, Refuse, Commit
    <3> QED
      BY <3>1, <3>2, <3>3, <3>4, <3>5, <3>6, <3>7, <3>8, <3>9 DEF Next
  <2> QED BY <1>0, <2>1, <2>2, CommandsAssumption DEF Inv, RowInv, Times
<1>1. CASE UNCHANGED <<call, record>>
  BY <1>1, <1>t DEF RowShape, CallShape, Open
<1>2. ASSUME NEW c \in Callers, NEW r \in Refs,
             \/ SendCommand(c, r) \/ SendCreate(c, r)
             \/ \E m \in Members : SendDecision(c, r, m)
      PROVE  RowShape /\ CallShape
  <2>1. record' = record
    BY <1>2 DEF SendCommand, SendCreate, SendDecision, rows
  <2>2. 0 <= record[r].version /\ record[r].version <= record[r].version
    BY <1>0
  <2>3. CASE SendCommand(c, r)
    <3>1. PICK command, home : Send(c, command, r, record[r].version, now, home)
      BY <2>3 DEF SendCommand
    <3> QED BY <2>1, <2>2, <3>1, SendShape DEF RowShape
  <2>4. CASE SendCreate(c, r)
    <3>1. Send(c, Creating, r, 0, now, TRUE)
      BY <2>4 DEF SendCreate, Creating
    <3> QED BY <2>1, <2>2, <3>1, SendShape DEF RowShape
  <2>5. CASE \E m \in Members : SendDecision(c, r, m)
    <3>1. PICK arg : Send(c, Deciding, r, record[r].version, now, arg)
      BY <2>5 DEF SendDecision, Deciding
    <3> QED BY <2>1, <2>2, <3>1, SendShape DEF RowShape
  <2> QED BY <1>2, <2>3, <2>4, <2>5
<1>3. ASSUME NEW c \in Callers,
             CreateRequest(c) \/ Transition(c) \/ RecordReviewDecision(c)
      PROVE  RowShape /\ CallShape
  BY <1>3, CreateShape, TransitionShape, DecisionShape
<1> QED
  BY <1>1, <1>2, <1>3, <1>t
  DEF Next, vars, commandVars, Tick, StoreArtifact, MemberChanges, rows

\* The constraints hold at first.
LEMMA InitChecks == Init => CheckInv
<1> SUFFICES ASSUME Init PROVE CheckInv
  OBVIOUS
<1>1. \A c \in Callers : CallDated(c)
  BY DEF Init, CommandsInit, CallDated, Open
<1>2. ASSUME NEW r \in Refs PROVE RowDated(r)
  <2>1. PICK k \in Kinds :
          record[r] = [kind |-> k, state |-> FirstState(k), version |->
                         IF k = "verification_request" THEN 0 ELSE 1,
                       began |-> None, ended |-> None]
    BY DEF Init
  <2>2. /\ record[r].kind = k /\ record[r].state = FirstState(k)
        /\ record[r].began = None /\ record[r].ended = None
    BY <2>1
  <2>3. RowChecks(record[r])
    BY <2>2 DEF RowChecks, FirstState, RejectionReason
  <2> QED BY <2>2, <2>3 DEF RowDated
<1> QED BY <1>1, <1>2 DEF CheckInv

\* Every step keeps them: a call that a step overtakes has an old version.
LEMMA NextChecks == Inv /\ CheckInv /\ [Next]_vars => CheckInv'
<1> SUFFICES ASSUME Inv, CheckInv, [Next]_vars PROVE CheckInv'
  OBVIOUS
<1>0. RowShape /\ CallShape /\ now' \in Times /\ now <= now' /\ Inv'
  BY StepShape, NextInv
<1>1. now \in Nat /\ now' \in Nat
  BY <1>0 DEF Inv, RowInv, Times
<1>2. \A r \in Refs : /\ record[r].version \in Nat
                      /\ record[r].began \in Nat \cup {None}
                      /\ record'[r].began \in Nat \cup {None}
  BY <1>0, RecordsAssumption DEF Inv, RowInv, Record, Times
<1>3. ASSUME NEW r \in Refs PROVE RowDated(r)'
  <2>1. /\ RowChecks(record'[r])
        /\ record'[r].began # None => record'[r].began <= now
    BY <1>0 DEF RowShape, CheckInv, RowDated
  <2>2. record'[r].began # None => record'[r].began <= now'
    BY <1>0, <1>1, <1>2, <2>1
  <2>3. RowChecks(record[r])'
    BY <2>1 DEF RowChecks, RejectionReason
  <2> QED BY <2>2, <2>3 DEF RowDated
<1>4. ASSUME NEW c \in Callers, Open(c)' PROVE CallDated(c)'
  <2>1. PICK q, r : q = call'[c] /\ r = q.ref
    OBVIOUS
  <2>2. CASE Open(c) /\ call'[c] = call[c]
    <3>1. r \in Refs /\ q.at \in Times /\ q.version \in Nat
      BY <2>1, <2>2, OpenCall DEF Inv, CallInv, CallOK, Open
    <3>2. /\ q.at <= now /\ q.version <= record[r].version
          /\ q.version = record[r].version /\ record[r].began # None =>
               record[r].began <= q.at
      BY <2>1, <2>2 DEF CheckInv, CallDated
    <3>3. q.at <= now'
      BY <1>0, <1>1, <3>1, <3>2 DEF Times
    <3>4. CASE record'[r] = record[r]
      BY <2>1, <3>2, <3>3, <3>4 DEF CallDated
    <3>5. CASE record'[r].version = record[r].version + 1
      <4>1. q.version < record'[r].version
        BY <1>2, <3>1, <3>2, <3>5
      <4> QED BY <1>2, <2>1, <3>1, <3>3, <3>5, <4>1 DEF CallDated
    <3> QED BY <1>0, <3>1, <3>4, <3>5 DEF RowShape
  <2>3. CASE /\ call'[c].at = now /\ record' = record /\ call'[c].ref \in Refs
             /\ call'[c].version <= record[call'[c].ref].version
    <3>1. record[r].began # None => record[r].began <= now
      BY <2>1, <2>3 DEF CheckInv, RowDated
    <3> QED BY <1>0, <2>1, <2>3, <3>1 DEF CallDated
  <2> QED BY <1>0, <1>4, <2>2, <2>3 DEF CallShape
<1>5. \A c \in Callers : CallDated(c)'
  BY <1>4 DEF CallDated
<1> QED BY <1>3, <1>5 DEF CheckInv

-----------------------------------------------------------------------------
(* The theorems.                                                           *)

\* Every table holds what its columns may hold.
THEOREM RecordsTypeCorrect == Spec => []TypeOK
<1>1. Inv => TypeOK
  <2> SUFFICES ASSUME Inv PROVE TypeOK
    OBVIOUS
  <2>1. ASSUME NEW r \in Refs
        PROVE  /\ record[r].kind \in Kinds
               /\ record[r].state \in StatesOf(record[r].kind)
               /\ record[r].version \in 0 .. MaxVersion
               /\ record[r].began \in Times \cup {None}
               /\ record[r].ended \in Times \cup {None}
    BY DEF Inv, RowInv, RecordOK, Record
  <2>2. ASSUME NEW c \in Callers
        PROVE  call[c] = None \/ call[c].answer \in Results \cup {None}
    BY DEF Inv, CallInv, CallOK
  <2> QED BY <2>1, <2>2 DEF TypeOK, Inv, RowInv
<1> QED BY <1>1, Invariance, PTL

\* State, audit, idempotency result and outbox intent commit together: the
\* events of a record lead without a gap from its first version to its present
\* one, one for every version, each with its audit event and stored result.
THEOREM RecordsCommitTogether == Spec => []CommitTogether
<1>1. Inv => CommitTogether
  BY DEF Inv, LedgerInv, HistoryOK, Explained, CommitTogether
<1> QED BY <1>1, Invariance, PTL

\* An answer, first or replayed, is the truth about the caller's own command.
THEOREM RecordsAnswersTruthful == Spec => []AnswersTruthful
<1>1. Inv => AnswersTruthful
  <2> SUFFICES ASSUME Inv, NEW c \in Callers, Answered(c),
                      call[c].command # Deciding
               PROVE  /\ call[c].answer.version = call[c].version + 1
                      /\ \E e \in EventsOf(call[c].ref) :
                           /\ e.version = call[c].answer.version
                           /\ e.state = call[c].answer.state
                      /\ call[c].version > 0 =>
                           call[c].answer.state = Machine(c)[call[c].command].next
    BY DEF AnswersTruthful, Deciding
  <2>1. Truth(call[c].command, call[c].ref, call[c].version, call[c].answer)
    BY DEF Inv, CallInv, CallOK, Answered
  <2> QED BY <2>1 DEF Truth, Machine
<1> QED BY <1>1, Invariance, PTL

\* Of what a domain function allows, triggers and CHECK constraints refuse
\* rejectWalletResponse and nothing else, whatever the other callers did since
\* the command was sent and however late it arrives.
THEOREM RecordsDatabaseAgrees == Spec => []DatabaseAgrees
<1>1. Spec => []CheckInv
  BY InitChecks, NextChecks, Invariance, PTL DEF Spec
<1>2. Inv /\ CheckInv => DatabaseAgrees
  <2> SUFFICES ASSUME Inv, CheckInv, NEW c \in Callers, DomainAllows(c)
               PROVE  DatabaseAllows(c) <=> call[c].command # "rejectWalletResponse"
    BY DEF DatabaseAgrees
  <2>1. PICK q, r, row : q = call[c] /\ r = q.ref /\ row = record[r]
    OBVIOUS
  <2>2. /\ Open(c) /\ q.command \in DOMAIN CommandsOf(row.kind)
        /\ row.version = q.version
        /\ row.state \in CommandsOf(row.kind)[q.command].expected
    BY <2>1 DEF DomainAllows, InMachine, Machine, Fresh, Applies
  <2>3. r \in Refs /\ q.at \in Times
    BY <2>1, <2>2, OpenCall DEF Inv
  <2>4. row \in Record /\ row.kind \in Kinds /\ RowChecks(row)
    BY <2>1, <2>3 DEF Inv, RowInv, Record, CheckInv, RowDated
  <2>5. row.began # None => row.began <= q.at
    BY <2>1, <2>2 DEF CheckInv, CallDated
  <2>6. PICK command : command = q.command
    OBVIOUS
  <2>7. Target(c) = CommandsOf(row.kind)[command].next
    BY <2>1, <2>6 DEF Target, Machine
  <2>8. GuardOf(row.kind, row.state, CommandsOf(row.kind)[command].next)
    BY <2>2, <2>4, <2>6, MovesAccepted
  <2>9. CASE command # "rejectWalletResponse"
    <3>1. RowChecks(Moved(row, CommandsOf(row.kind)[command].next, q.at))
      BY <2>1, <2>2, <2>3, <2>4, <2>5, <2>6, <2>9, ChecksAccept
    <3> QED BY <2>1, <2>6, <2>7, <2>8, <2>9, <3>1 DEF DatabaseAllows
  <2>10. CASE command = "rejectWalletResponse"
    <3>1. row.kind = "wallet_challenge" /\ CommandsOf(row.kind)[command].next = "rejected"
      BY <2>2, <2>4, <2>6, <2>10, OnlyWalletsReject
    <3>2. ~RowChecks(Moved(row, "rejected", q.at))
      BY <2>4, <3>1, MovedStamps DEF RowChecks, RejectionReason
    <3> QED BY <2>1, <2>6, <2>7, <2>10, <3>1, <3>2 DEF DatabaseAllows
  <2> QED BY <2>9, <2>10
<1> QED BY <1>1, <1>2, Invariance, PTL

\* No decision is recorded by a reviewer who at that moment has left the
\* committee or has declared a conflict.
THEOREM RecordsDecidesUnconflicted == Spec => DecidesUnconflicted
<1>1. ASSUME [Next]_vars, NEW d \in decision' \ decision
      PROVE  member[d.reviewer].active /\ ~member[d.reviewer].conflicted
  <2>1. decision' # decision
    OBVIOUS
  <2>2. PICK c \in Callers : RecordReviewDecision(c)
    BY <1>1, <2>1 DEF Next, vars, Tick, StoreArtifact, MemberChanges, SendCommand,
       SendCreate, SendDecision, CreateRequest, Transition, rows
  <2>3. /\ Decides(c)
        /\ decision' = decision \cup {[request |-> call[c].ref,
                                       reviewer |-> call[c].arg.reviewer,
                                       state |-> call[c].arg.state]}
    BY <2>1, <2>2 DEF RecordReviewDecision, rows
  <2>4. d.reviewer = call[c].arg.reviewer
    BY <1>1, <2>3
  <2> QED BY <2>3, <2>4 DEF Decides
<1>2. [Next]_vars => [\A d \in decision' \ decision :
                        member[d.reviewer].active /\ ~member[d.reviewer].conflicted]_vars
  BY <1>1
<1> QED BY <1>2, PTL DEF Spec, DecidesUnconflicted
=============================================================================
