-------------------------- MODULE AttestationProofs -------------------------
(***************************************************************************)
(* Theorems about attestations, for any number of callers, attestations,   *)
(* requests and participants, any validity and any clock.                  *)
(***************************************************************************)
EXTENDS Attestation, FiniteSetTheorems, TLAPS

Changing == {"activateAttestation", "expireAttestation", "revokeAttestation"}

Arguments == [request : Requests, supersedes : Attestations \cup {None},
              from : Times, to : Times]

\* A call that is open was sent at an instant that has passed; a renewal names
\* an attestation that is stored, and so does every other command.
CallOK(c) ==
  Open(c) =>
    /\ "answer" \in DOMAIN call[c]
    /\ call[c].at \in Times /\ call[c].at <= now
    /\ call[c].ref \in Attestations
    /\ \/ /\ call[c].command = "issueAttestation"
          /\ call[c].arg \in Arguments
          /\ call[c].arg.supersedes \in Stored \cup {None}
       \/ call[c].command \in Changing /\ call[c].ref \in Stored

CallInv ==
  /\ now \in Times
  /\ DOMAIN call = Callers
  /\ \A c \in Callers : CallOK(c)
  /\ \A i \in idem : i.state \in AttestationStates /\ i.version \in 1 .. 3

Rank(state) == IF state = "issued" THEN 1 ELSE IF state = "active" THEN 2 ELSE 3

\* What the rows of one attestation say.
RowOK(a) ==
  /\ att[a].from < att[a].to /\ att[a].to <= att[a].from + MaxValidity
  /\ (att[a].version = 1) = (att[a].supersedes = None)
  /\ att[a].statusState = att[a].state
  /\ att[a].statusVersion = Rank(att[a].state)
  /\ att[a].complete = (att[a].state # "issued")
  /\ request[att[a].request].state = att[a].state
  /\ request[att[a].request].version = Issuable + Rank(att[a].state) - 1
  /\ att[a].state = "active" => att[a].from <= now
  /\ att[a].state = "superseded" => att[a].effective <= now

RowInv ==
  /\ att \in [Attestations -> AttestationRow \cup {None}]
  /\ request \in [Requests -> [state : AttestationStates, version : Nat]]
  /\ revoked \in [Attestations -> Times \cup {None}]
  /\ \A q \in Requests : request[q].state = "issued" => request[q].version = Issuable
  /\ \A a \in Stored : RowOK(a)
  /\ \A a \in Attestations : revoked[a] # None => a \in Stored /\ att[a].state = "revoked"

Same(a, b) == Participant(a) = Participant(b)

\* The attestations of a participant form one chain: versions number it, each
\* renewal supersedes the version before it, and of two versions the later one
\* is issued only when the earlier is not, and activated only by superseding it.
ChainInv ==
  /\ \A a, b \in Stored : att[a].request = att[b].request => a = b
  /\ \A a, b \in Stored : Same(a, b) /\ att[a].version = att[b].version => a = b
  /\ \A a \in Stored : att[a].supersedes # None =>
       /\ att[a].supersedes \in Stored
       /\ Same(att[a].supersedes, a)
       /\ att[a].version = att[att[a].supersedes].version + 1
  /\ \A a, b \in Stored : Same(a, b) /\ att[a].version < att[b].version =>
       /\ att[a].state # "issued"
       /\ att[b].state # "issued" => att[a].state = "superseded"
  /\ \A a \in Stored : \E b \in Stored : Same(a, b) /\ att[b].version = 1
  /\ \A a \in Stored : att[a].state = "superseded" =>
       \E b \in Stored : att[b].supersedes = a /\ att[b].state # "issued"
  /\ \A a \in Stored : att[a].version <= Cardinality(Stored)

Path(state) == {"issued"} \cup IF state = "issued" THEN {} ELSE {"active", state}

Told(a) == {e \in outbox : e.ref = a}
Trail(a) == {e \in audit : e.ref = a}

\* The events of an attestation are as many as its states, and name them.
ToldOK(a) ==
  /\ IsFiniteSet(Told(a)) /\ IsFiniteSet(Trail(a))
  /\ a \notin Stored => Told(a) = {} /\ Trail(a) = {}
  /\ a \in Stored =>
       /\ {e.state : e \in Told(a)} = Path(att[a].state)
       /\ Cardinality(Told(a)) = Rank(att[a].state)
       /\ {e.to : e \in Trail(a)} = Path(att[a].state)
       /\ Cardinality(Trail(a)) = Rank(att[a].state)

ToldInv == \A a \in Attestations : ToldOK(a)

Inv == CallInv /\ RowInv /\ ChainInv /\ ToldInv

-----------------------------------------------------------------------------
(* Calls.                                                                  *)

\* A call that is left alone stays well-formed: stored rows stay and the clock
\* does not go back.
LEMMA CallKept ==
  ASSUME NEW c \in Callers, CallOK(c), call'[c] = call[c], Stored \subseteq Stored',
         now \in Times, now' \in Times, now <= now'
  PROVE  CallOK(c)'
<1>1. Open(c)' => Open(c)
  BY DEF Open
<1> QED BY <1>1, CommandsAssumption DEF CallOK, Times

\* The other callers' calls, when one caller's call is well-formed.
LEMMA CallsKept ==
  ASSUME CallInv, NEW c \in Callers, CallOK(c)', DOMAIN call' = Callers,
         \A d \in Callers : d # c => call'[d] = call[d],
         Stored \subseteq Stored', now' = now,
         \A i \in idem' : i.state \in AttestationStates /\ i.version \in 1 .. 3
  PROVE  CallInv'
<1>1. now \in Times /\ now' \in Times /\ now <= now'
  BY CommandsAssumption DEF CallInv, Times
<1>2. ASSUME NEW d \in Callers PROVE CallOK(d)'
  BY <1>1, CallKept DEF CallInv
<1> QED BY <1>1, <1>2 DEF CallInv

\* A new call.
LEMMA SendOK ==
  ASSUME CallInv, NEW c \in Callers, NEW command, NEW ref \in Attestations,
         NEW version, NEW arg,
         \/ /\ command = "issueAttestation" /\ arg \in Arguments
            /\ arg.supersedes \in Stored \cup {None}
         \/ command \in Changing /\ ref \in Stored,
         Send(c, command, ref, version, now, arg), UNCHANGED rows
  PROVE  CallInv'
<1>1. PICK key :
        call' = [call EXCEPT ![c] =
                   [key |-> key, command |-> command, ref |-> ref, version |-> version,
                    at |-> now, arg |-> arg, answer |-> None]]
  BY DEF Send
<1>2. /\ call'[c] = [key |-> key, command |-> command, ref |-> ref,
                     version |-> version, at |-> now, arg |-> arg, answer |-> None]
      /\ DOMAIN call' = Callers
      /\ \A d \in Callers : d # c => call'[d] = call[d]
  BY <1>1 DEF CallInv
<1>3. now' = now /\ idem' = idem /\ Stored' = Stored
  BY DEF Send, ledgers, rows, Stored
<1>4. now \in Times /\ now <= now
  BY CommandsAssumption DEF CallInv, Times
<1>5. CallOK(c)'
  BY <1>2, <1>3, <1>4 DEF CallOK
<1> QED BY <1>2, <1>3, <1>5, CallsKept DEF CallInv

\* An answer, delivered or lost.
LEMMA ReplyOK ==
  ASSUME CallInv, NEW c \in Callers, Open(c), NEW answer \in AttestationAnswer,
         Reply(c, answer), Stored \subseteq Stored', now' = now,
         \A i \in idem' : i.state \in AttestationStates /\ i.version \in 1 .. 3
  PROVE  CallInv'
<1>0. now \in Times /\ now <= now
  BY CommandsAssumption DEF CallInv, Times
<1>1. answer # None
  BY AttestationAssumption
<1>2. CASE UNCHANGED call
  <2>1. CallOK(c)'
    BY <1>0, <1>2, CallKept DEF CallInv
  <2> QED BY <1>2, <2>1, CallsKept DEF CallInv
<1>3. CASE call' = [call EXCEPT ![c].answer = answer, ![c].at = None, ![c].arg = None]
  <2>1. "answer" \in DOMAIN call[c]
    BY DEF CallInv, CallOK
  <2>2. /\ DOMAIN call' = Callers
        /\ \A d \in Callers : d # c => call'[d] = call[d]
        /\ call'[c].answer = answer
    BY <1>3, <2>1 DEF CallInv
  <2>3. CallOK(c)'
    BY <1>1, <2>2 DEF CallOK, Open
  <2> QED BY <2>2, <2>3, CallsKept
<1> QED BY <1>2, <1>3 DEF Reply

\* A transaction that throws, or that answers what it had stored.
LEMMA QuietOK ==
  ASSUME CallInv, NEW c \in Callers, Open(c), Replay(c) \/ Refuse(c), UNCHANGED rows
  PROVE  CallInv' /\ UNCHANGED <<now, ledgers>>
<1>1. /\ now' = now /\ idem' = idem /\ Stored' = Stored
      /\ UNCHANGED <<now, ledgers>>
  BY DEF Replay, Refuse, ledgers, rows, Stored
<1>2. CASE Replay(c)
  <2>1. PICK i \in idem : Reply(c, [state |-> i.state, version |-> i.version])
    BY <1>2 DEF Replay, Replayed, Existing
  <2>2. [state |-> i.state, version |-> i.version] \in AttestationAnswer
    BY DEF CallInv, AttestationAnswer
  <2> QED BY <1>1, <2>1, <2>2, ReplyOK DEF CallInv
<1>3. CASE Refuse(c)
  <2>1. CASE call' = [call EXCEPT ![c] = None]
    <3>1. /\ DOMAIN call' = Callers /\ call'[c] = None
          /\ \A d \in Callers : d # c => call'[d] = call[d]
      BY <2>1 DEF CallInv
    <3>2. CallOK(c)'
      BY <3>1 DEF CallOK, Open
    <3> QED BY <1>1, <3>1, <3>2, CallsKept DEF CallInv
  <2>2. CASE UNCHANGED call
    <3>1. CallOK(c)'
      BY <1>1, <2>2, CallKept, CommandsAssumption DEF CallInv, Times
    <3> QED BY <1>1, <2>2, <3>1, CallsKept DEF CallInv
  <2> QED BY <1>3, <2>1, <2>2 DEF Refuse
<1> QED BY <1>1, <1>2, <1>3

\* A transaction that commits.
LEMMA CommitOK ==
  ASSUME CallInv, NEW c \in Callers, Open(c), NEW version \in 1 .. 3,
         NEW state \in AttestationStates,
         NEW audits, NEW events, Commit(c, version, state, audits, events),
         Stored \subseteq Stored'
  PROVE  CallInv' /\ now' = now
<1>1. now' = now /\ Reply(c, [state |-> state, version |-> version])
  BY DEF Commit
<1>2. \A i \in idem' : i.state \in AttestationStates /\ i.version \in 1 .. 3
  BY DEF Commit, CompleteIdempotency, CallInv
<1>3. [state |-> state, version |-> version] \in AttestationAnswer
  BY DEF AttestationAnswer
<1> QED BY <1>1, <1>2, <1>3, ReplyOK

-----------------------------------------------------------------------------
(* Rows that a command changes.                                            *)

\* The states before and after a change.
Step(from, to) ==
  \/ from = "issued" /\ to = "active"
  \/ from = "active" /\ to \in {"expired", "revoked", "superseded"}

\* What a command changes: moves gives the new states of some stored rows.
Movable(moves, at) ==
  /\ at \in Times /\ at <= now
  /\ DOMAIN moves \subseteq Stored
  /\ \A b \in DOMAIN moves :
       /\ Step(att[b].state, moves[b])
       /\ moves[b] = "active" => att[b].from <= at

\* The state of an attestation after the change.
After(moves, b) == IF b \in DOMAIN moves THEN moves[b] ELSE att[b].state

\* Only the states of attestations change.
Reshaped(moves) ==
  /\ Stored' = Stored
  /\ \A b \in Stored :
       /\ att'[b].request = att[b].request /\ att'[b].version = att[b].version
       /\ att'[b].supersedes = att[b].supersedes
       /\ att'[b].from = att[b].from /\ att'[b].to = att[b].to
       /\ att'[b].state = After(moves, b)

\* What is known of a stored row.
LEMMA RowFacts ==
  ASSUME RowInv, NEW a \in Stored
  PROVE  /\ a \in Attestations /\ att[a] \in AttestationRow /\ RowOK(a)
         /\ att[a].request \in Requests
  BY DEF RowInv, Stored, AttestationRow

\* A row that a change writes is well-formed.
LEMMA ChangedOK ==
  ASSUME NEW row \in AttestationRow, row.statusVersion = Rank(row.state),
         NEW state, Step(row.state, state), NEW at \in Times
  PROVE  /\ Changed(row, state, at) \in AttestationRow
         /\ Changed(row, state, at).request = row.request
         /\ Changed(row, state, at).version = row.version
         /\ Changed(row, state, at).supersedes = row.supersedes
         /\ Changed(row, state, at).from = row.from
         /\ Changed(row, state, at).to = row.to
         /\ Changed(row, state, at).state = state
         /\ Changed(row, state, at).statusState = state
         /\ Changed(row, state, at).statusVersion = Rank(row.state) + 1
         /\ Rank(state) = Rank(row.state) + 1
         /\ Changed(row, state, at).effective = at
         /\ Changed(row, state, at).complete = (row.complete \/ state = "active")
<1>1. /\ Rank(row.state) + 1 \in 1 .. 3
      /\ Rank(state) = Rank(row.state) + 1
  BY DEF Step, Rank
<1>2. state \in AttestationStates
  BY DEF Step, AttestationStates
<1> QED BY <1>1, <1>2 DEF Changed, AttestationRow

\* The rows after a change.
LEMMA RowsChanged ==
  ASSUME RowInv, ChainInv, NEW moves, NEW at, Movable(moves, at),
         UpdateAttestationAndRequest(moves, at), now \in Times, now' = now
  PROVE  /\ att' \in [Attestations -> AttestationRow \cup {None}]
         /\ request' \in [Requests -> [state : AttestationStates, version : Nat]]
         /\ \A q \in Requests :
              request'[q].state = "issued" => request'[q].version = Issuable
         /\ \A b \in Stored : RowOK(b)'
         /\ Reshaped(moves)
<1>1. ASSUME NEW b \in DOMAIN moves
      PROVE  /\ att'[b] = Changed(att[b], moves[b], at)
             /\ att[b] \in AttestationRow /\ att[b].statusVersion = Rank(att[b].state)
             /\ Step(att[b].state, moves[b]) /\ b \in Attestations
  BY RowFacts DEF Movable, UpdateAttestationAndRequest, RowOK
<1>0. ASSUME NEW b \in DOMAIN moves
      PROVE  /\ att'[b] \in AttestationRow
             /\ att'[b].from = att[b].from /\ att'[b].to = att[b].to
             /\ att'[b].version = att[b].version /\ att'[b].supersedes = att[b].supersedes
             /\ att'[b].request = att[b].request
             /\ att'[b].state = moves[b] /\ att'[b].statusState = moves[b]
             /\ att'[b].effective = at
             /\ att'[b].statusVersion = Rank(att[b].state) + 1
             /\ Rank(moves[b]) = Rank(att[b].state) + 1
             /\ att'[b].complete = (att[b].complete \/ moves[b] = "active")
  <2>1. PICK row \in AttestationRow : row = att[b]
    BY <1>1
  <2>2. PICK state : state = moves[b]
    OBVIOUS
  <2>3. /\ row.statusVersion = Rank(row.state) /\ Step(row.state, state) /\ at \in Times
        /\ att'[b] = Changed(row, state, at)
    BY <1>1, <2>1, <2>2 DEF Movable
  <2>4. /\ att'[b] \in AttestationRow
        /\ att'[b].from = row.from /\ att'[b].to = row.to
        /\ att'[b].version = row.version /\ att'[b].supersedes = row.supersedes
        /\ att'[b].request = row.request
        /\ att'[b].state = state /\ att'[b].statusState = state
        /\ att'[b].effective = at
        /\ att'[b].statusVersion = Rank(row.state) + 1
        /\ Rank(state) = Rank(row.state) + 1
        /\ att'[b].complete = (row.complete \/ state = "active")
    BY <2>3, ChangedOK
  <2> QED BY <2>1, <2>2, <2>4
<1>2. ASSUME NEW b \in Attestations, b \notin DOMAIN moves PROVE att'[b] = att[b]
  BY <1>2 DEF UpdateAttestationAndRequest
<1>3. att' \in [Attestations -> AttestationRow \cup {None}]
  <2>1. ASSUME NEW b \in Attestations PROVE att'[b] \in AttestationRow \cup {None}
    <3>1. CASE b \in DOMAIN moves
      BY <1>0, <3>1
    <3>2. CASE b \notin DOMAIN moves
      BY <1>2, <3>2 DEF RowInv
    <3> QED BY <3>1, <3>2
  <2> QED BY <2>1 DEF UpdateAttestationAndRequest
<1>4. Stored' = Stored
  <2>1. ASSUME NEW b \in DOMAIN moves PROVE att'[b] # None /\ b \in Stored
    BY <1>0, AttestationAssumption DEF Movable
  <2> QED BY <1>2, <2>1 DEF Stored
<1>5. Reshaped(moves)
  <2>1. ASSUME NEW b \in Stored
        PROVE  /\ att'[b].request = att[b].request /\ att'[b].version = att[b].version
               /\ att'[b].supersedes = att[b].supersedes
               /\ att'[b].from = att[b].from /\ att'[b].to = att[b].to
               /\ att'[b].state = After(moves, b)
    <3>1. CASE b \in DOMAIN moves
      BY <1>0, <3>1 DEF After
    <3>2. CASE b \notin DOMAIN moves
      BY <1>2, <3>2, RowFacts DEF After
    <3> QED BY <3>1, <3>2
  <2> QED BY <1>4, <2>1 DEF Reshaped
<1>6. ASSUME NEW b \in DOMAIN moves
      PROVE  /\ att[b].request \in Requests
             /\ request'[att[b].request] =
                  [state |-> moves[b], version |-> request[att[b].request].version + 1]
  <2> DEFINE q == att[b].request
             moved == {a \in DOMAIN moves : att[a].request = q}
  <2>1. q \in Requests
    BY RowFacts DEF Movable
  <2>2. moved = {b}
    BY DEF Movable, ChainInv
  <2>3. (CHOOSE a \in moved : TRUE) = b
    BY <2>2
  <2>4. request'[q] = IF moved = {} THEN request[q]
                      ELSE [state |-> moves[CHOOSE a \in moved : TRUE],
                            version |-> request[q].version + 1]
    BY <2>1 DEF UpdateAttestationAndRequest
  <2> HIDE DEF moved
  <2> QED BY <2>1, <2>2, <2>3, <2>4
<1>7. ASSUME NEW q \in Requests, \A b \in DOMAIN moves : att[b].request # q
      PROVE  request'[q] = request[q]
  BY <1>7 DEF UpdateAttestationAndRequest
<1>8. /\ request' \in [Requests -> [state : AttestationStates, version : Nat]]
      /\ \A q \in Requests :
           request'[q].state = "issued" => request'[q].version = Issuable
  <2>1. ASSUME NEW q \in Requests
        PROVE  /\ request'[q] \in [state : AttestationStates, version : Nat]
               /\ request'[q].state = "issued" => request'[q].version = Issuable
    <3>0. request[q] \in [state : AttestationStates, version : Nat]
      BY DEF RowInv
    <3>1. CASE \A b \in DOMAIN moves : att[b].request # q
      BY <1>7, <3>0, <3>1 DEF RowInv
    <3>2. CASE \E b \in DOMAIN moves : att[b].request = q
      <4>1. PICK b \in DOMAIN moves : att[b].request = q
        BY <3>2
      <4>2. moves[b] \in AttestationStates /\ moves[b] # "issued"
        BY <1>1 DEF Step, AttestationStates
      <4>3. request'[q] = [state |-> moves[b], version |-> request[q].version + 1]
        BY <1>6, <4>1
      <4>4. request[q].version + 1 \in Nat
        BY <3>0
      <4> QED BY <4>2, <4>3, <4>4
    <3> QED BY <3>1, <3>2
  <2>2. request' = [q \in Requests |-> request'[q]]
    BY DEF UpdateAttestationAndRequest
  <2> QED BY <2>1, <2>2
<1>9. ASSUME NEW b \in Stored PROVE RowOK(b)'
  <2>0. /\ RowOK(b) /\ att[b] \in AttestationRow /\ att[b].request \in Requests
        /\ b \in Attestations
    BY RowFacts
  <2>1. CASE b \in DOMAIN moves
    <3>1. /\ at \in Times /\ at <= now /\ Step(att[b].state, moves[b])
          /\ moves[b] = "active" => att[b].from <= at
      BY <2>1 DEF Movable
    <3>2. /\ att'[b].from = att[b].from /\ att'[b].to = att[b].to
          /\ att'[b].version = att[b].version /\ att'[b].supersedes = att[b].supersedes
          /\ att'[b].request = att[b].request
          /\ att'[b].state = moves[b] /\ att'[b].statusState = moves[b]
          /\ att'[b].effective = at
          /\ att'[b].statusVersion = Rank(att[b].state) + 1
          /\ Rank(moves[b]) = Rank(att[b].state) + 1
          /\ att'[b].complete = (att[b].complete \/ moves[b] = "active")
      BY <1>0, <2>1
    <3>3. /\ att[b].from < att[b].to /\ att[b].to <= att[b].from + MaxValidity
          /\ (att[b].version = 1) = (att[b].supersedes = None)
          /\ att[b].complete = (att[b].state # "issued")
          /\ request[att[b].request].version = Issuable + Rank(att[b].state) - 1
      BY <2>0 DEF RowOK
    <3>4. att'[b].complete = (att'[b].state # "issued")
      BY <3>1, <3>2, <3>3 DEF Step
    <3>5. /\ request'[att'[b].request].state = att'[b].state
          /\ request'[att'[b].request].version = Issuable + Rank(att'[b].state) - 1
      <4>1. /\ request'[att[b].request].state = moves[b]
            /\ request'[att[b].request].version = request[att[b].request].version + 1
        <5>1. request'[att[b].request] =
                [state |-> moves[b], version |-> request[att[b].request].version + 1]
          BY <1>6, <2>1
        <5> QED BY <5>1
      <4>2. Rank(att[b].state) \in Nat
        BY DEF Rank
      <4> QED BY <3>2, <3>3, <4>1, <4>2 DEF Issuable
    <3>6. /\ att'[b].state = "active" => att'[b].from <= now'
          /\ att'[b].state = "superseded" => att'[b].effective <= now'
      <4>1. now \in Nat /\ at \in Nat /\ att[b].from \in Nat
        BY <2>0, <3>1, CommandsAssumption DEF AttestationRow, Times
      <4> QED BY <3>1, <3>2, <4>1
    <3> QED BY <3>2, <3>3, <3>4, <3>5, <3>6 DEF RowOK
  <2>2. CASE b \notin DOMAIN moves
    <3>1. att'[b] = att[b]
      BY <1>2, <2>0, <2>2
    <3>2. \A a \in DOMAIN moves : att[a].request # att[b].request
      BY <2>2 DEF Movable, ChainInv
    <3>3. request'[att[b].request] = request[att[b].request]
      BY <1>7, <2>0, <3>2
    <3> QED BY <2>0, <3>1, <3>3 DEF RowOK
  <2> QED BY <2>1, <2>2
<1> QED BY <1>3, <1>5, <1>8, <1>9

-----------------------------------------------------------------------------
(* The chain of a participant.                                             *)

\* A change of states keeps the chain if it keeps the order of the states.
LEMMA ChainReshaped ==
  ASSUME ChainInv, NEW moves, Reshaped(moves),
         \A a, b \in Stored : Same(a, b) /\ att[a].version < att[b].version =>
           /\ After(moves, a) # "issued"
           /\ After(moves, b) # "issued" => After(moves, a) = "superseded",
         \A a \in Stored : After(moves, a) = "superseded" =>
           \E b \in Stored : att[b].supersedes = a /\ After(moves, b) # "issued"
  PROVE  ChainInv'
<1>0. Stored' = Stored
  BY DEF Reshaped
<1>1. \A a \in Stored :
        /\ att'[a].request = att[a].request /\ att'[a].version = att[a].version
        /\ att'[a].supersedes = att[a].supersedes
        /\ att'[a].state = After(moves, a)
  BY DEF Reshaped
<1>2. \A a, b \in Stored : Same(a, b)' <=> Same(a, b)
  BY <1>1 DEF Same, Participant
<1>3. \A a, b \in Stored : att'[a].request = att'[b].request => a = b
  BY <1>1 DEF ChainInv
<1>4. \A a, b \in Stored : Same(a, b)' /\ att'[a].version = att'[b].version => a = b
  BY <1>1, <1>2 DEF ChainInv
<1>5. ASSUME NEW a \in Stored, att'[a].supersedes # None
      PROVE  /\ att'[a].supersedes \in Stored
             /\ Owner[att'[att'[a].supersedes].request] = Owner[att'[a].request]
             /\ att'[a].version = att'[att'[a].supersedes].version + 1
  <2>1. PICK p : p = att[a].supersedes
    OBVIOUS
  <2>2. p \in Stored /\ Same(p, a) /\ att[a].version = att[p].version + 1
    BY <1>1, <1>5, <2>1 DEF ChainInv
  <2>3. att'[a].supersedes = p /\ Same(p, a)' /\ att'[a].version = att'[p].version + 1
    BY <1>1, <1>2, <2>1, <2>2
  <2> QED BY <2>2, <2>3 DEF Same, Participant
<1>6. \A a, b \in Stored : Same(a, b)' /\ att'[a].version < att'[b].version =>
        /\ att'[a].state # "issued"
        /\ att'[b].state # "issued" => att'[a].state = "superseded"
  BY <1>1, <1>2
<1>7. \A a \in Stored : \E b \in Stored : Same(a, b)' /\ att'[b].version = 1
  BY <1>1, <1>2 DEF ChainInv
<1>8. \A a \in Stored : att'[a].state = "superseded" =>
        \E b \in Stored : att'[b].supersedes = a /\ att'[b].state # "issued"
  BY <1>1
<1>9. \A a \in Stored : att'[a].version <= Cardinality(Stored)
  BY <1>1 DEF ChainInv
<1> QED BY <1>0, <1>3, <1>4, <1>5, <1>6, <1>7, <1>8, <1>9 DEF ChainInv, Same, Participant

\* The version of a stored attestation is a number.
LEMMA VersionNat ==
  ASSUME RowInv, NEW a \in Stored PROVE att[a].version \in Nat \ {0}
<1>1. att[a].version \in 1 .. Cardinality(Attestations)
  BY RowFacts DEF AttestationRow
<1>2. Cardinality(Attestations) \in Nat
  BY AttestationAssumption, FS_CardinalityType
<1> QED BY <1>1, <1>2

\* An active attestation expires or is revoked.
LEMMA LapseChain ==
  ASSUME RowInv, ChainInv, NEW a \in Stored, att[a].state = "active", NEW moves,
         Reshaped(moves), DOMAIN moves = {a}, moves[a] \in Lapsed
  PROVE  ChainInv'
<1>1. moves[a] # "issued" /\ moves[a] # "superseded"
  BY DEF Lapsed
<1>2. ASSUME NEW x \in Stored, NEW y \in Stored, Same(x, y), att[x].version < att[y].version
      PROVE  /\ After(moves, x) # "issued"
             /\ After(moves, y) # "issued" => After(moves, x) = "superseded"
  <2>1. /\ att[x].state # "issued"
        /\ att[y].state # "issued" => att[x].state = "superseded"
    BY <1>2 DEF ChainInv
  <2> QED BY <1>1, <2>1 DEF After
<1>3. ASSUME NEW x \in Stored, After(moves, x) = "superseded"
      PROVE  \E b \in Stored : att[b].supersedes = x /\ After(moves, b) # "issued"
  <2>1. att[x].state = "superseded"
    BY <1>1, <1>3 DEF After
  <2> QED BY <1>1, <2>1 DEF ChainInv, After
<1> QED BY <1>2, <1>3, ChainReshaped

\* An attestation is activated and supersedes its predecessor.
LEMMA ActivateChain ==
  ASSUME RowInv, ChainInv, NEW a \in Stored, att[a].state = "issued", NEW moves,
         Reshaped(moves), DOMAIN moves = {a} \cup Predecessors(a), moves[a] = "active",
         \A p \in Predecessors(a) : moves[p] = "superseded" /\ att[p].state = "active"
  PROVE  ChainInv'
<1>0. \A x \in Stored : att[x].version \in Nat \ {0}
  BY VersionNat
<1>1. \A y \in Stored : ~(Same(a, y) /\ att[a].version < att[y].version)
  BY DEF ChainInv
<1>2. CASE att[a].supersedes = None
  <2>1. DOMAIN moves = {a} /\ att[a].version = 1
    BY <1>2, RowFacts DEF Predecessors, RowOK
  <2>2. ASSUME NEW x \in Stored, NEW y \in Stored, Same(x, y),
               att[x].version < att[y].version
        PROVE  /\ After(moves, x) # "issued"
               /\ After(moves, y) # "issued" => After(moves, x) = "superseded"
    <3>1. /\ att[x].state # "issued"
          /\ att[y].state # "issued" => att[x].state = "superseded"
      BY <2>2 DEF ChainInv
    <3>2. x # a /\ y # a
      BY <1>0, <1>1, <2>1, <2>2
    <3> QED BY <2>1, <3>1, <3>2 DEF After
  <2>3. ASSUME NEW x \in Stored, After(moves, x) = "superseded"
        PROVE  \E b \in Stored : att[b].supersedes = x /\ After(moves, b) # "issued"
    <3>1. att[x].state = "superseded"
      BY <2>1, <2>3 DEF After
    <3> QED BY <2>1, <3>1 DEF ChainInv, After
  <2> QED BY <2>2, <2>3, ChainReshaped
<1>3. CASE att[a].supersedes # None
  <2>1. PICK p : p = att[a].supersedes
    OBVIOUS
  <2>2. p \in Stored /\ Same(p, a) /\ att[a].version = att[p].version + 1
    BY <1>3, <2>1 DEF ChainInv
  <2>3. /\ DOMAIN moves = {a, p} /\ moves[p] = "superseded" /\ att[p].state = "active"
    BY <1>3, <2>1 DEF Predecessors
  <2>4. ASSUME NEW x \in Stored, NEW y \in Stored, Same(x, y),
               att[x].version < att[y].version
        PROVE  /\ After(moves, x) # "issued"
               /\ After(moves, y) # "issued" => After(moves, x) = "superseded"
    <3>1. /\ att[x].state # "issued"
          /\ att[y].state # "issued" => att[x].state = "superseded"
      BY <2>4 DEF ChainInv
    <3>2. x # a
      BY <1>1, <2>4
    <3>3. CASE y = a
      <4>1. x = p \/ att[x].version < att[p].version
        <5>1. att[x].version = att[p].version => x = p
          BY <2>2, <2>4, <3>3 DEF ChainInv, Same
        <5> QED BY <1>0, <2>2, <2>4, <3>3, <5>1
      <4>2. x # p => att[x].state = "superseded"
        BY <2>2, <2>3, <2>4, <3>3, <4>1 DEF ChainInv, Same
      <4> QED BY <2>3, <3>2, <4>2 DEF After
    <3>4. CASE y # a
      BY <2>3, <3>1, <3>2, <3>4 DEF After
    <3> QED BY <3>3, <3>4
  <2>5. ASSUME NEW x \in Stored, After(moves, x) = "superseded"
        PROVE  \E b \in Stored : att[b].supersedes = x /\ After(moves, b) # "issued"
    <3>1. CASE x = p
      BY <2>1, <2>3, <3>1 DEF After
    <3>2. CASE x # p
      <4>1. att[x].state = "superseded"
        BY <2>3, <2>5, <3>2 DEF After
      <4> QED BY <2>3, <4>1 DEF ChainInv, After
    <3> QED BY <3>1, <3>2
  <2> QED BY <2>4, <2>5, ChainReshaped
<1> QED BY <1>2, <1>3

\* Nothing newer than an active attestation exists but its issued renewal.
LEMMA OnlyRenewal ==
  ASSUME RowInv, ChainInv, NEW s \in Stored, att[s].state = "active",
         NEW b \in Stored, Same(s, b), att[s].version < att[b].version
  PROVE  att[b].supersedes = s /\ att[b].version = att[s].version + 1
<1>0. /\ att[s].version \in Nat \ {0} /\ att[b].version \in Nat \ {0}
      /\ att[b].version # 1
  BY VersionNat
<1>1. PICK p : p = att[b].supersedes
  OBVIOUS
<1>2. p # None
  BY <1>0, <1>1, RowFacts DEF RowOK
<1>3. p \in Stored /\ Same(p, b) /\ att[b].version = att[p].version + 1
  BY <1>1, <1>2 DEF ChainInv
<1>4. att[p].version \in Nat /\ Same(s, p)
  BY <1>3, VersionNat DEF Same
<1>5. att[s].version <= att[p].version
  BY <1>0, <1>3, <1>4
<1>6. ~(att[s].version < att[p].version)
  <2>1. SUFFICES ASSUME att[s].version < att[p].version PROVE FALSE
    OBVIOUS
  <2>2. att[p].version < att[b].version
    BY <1>3, <1>4
  <2>3. att[p].state # "issued"
    BY <1>3, <2>2 DEF ChainInv
  <2> QED BY <1>3, <1>4, <2>1, <2>3 DEF ChainInv
<1>7. s = p
  <2>1. att[s].version = att[p].version
    BY <1>0, <1>4, <1>5, <1>6
  <2> QED BY <1>3, <1>4, <2>1 DEF ChainInv
<1> QED BY <1>1, <1>3, <1>7

-----------------------------------------------------------------------------
(* Issuance.                                                               *)

\* What the checks of an issuance say about its argument.
Issuing(a, arg) ==
  /\ a \in Attestations
  /\ arg \in Arguments
  /\ arg.supersedes \in Stored \cup {None}
  /\ request[arg.request].state = "issued"
  /\ Renewable(arg) /\ ValidWindow(arg) /\ Unique(a, arg)

\* Every attestation of the participant is older than the new one and has been
\* activated: with a predecessor because that one is active, without one because
\* there is none.
LEMMA OthersOlder ==
  ASSUME RowInv, ChainInv, NEW a, NEW arg, Issuing(a, arg)
  PROVE  /\ NewVersion(arg) \in Nat \ {0}
         /\ \A b \in Stored : Participant(b) = Owner[arg.request] =>
              /\ att[b].version < NewVersion(arg)
              /\ att[b].state # "issued"
<1>1. CASE arg.supersedes = None
  <2>1. NewVersion(arg) = 1
    BY <1>1 DEF NewVersion
  <2>2. ASSUME NEW b \in Stored, Participant(b) = Owner[arg.request] PROVE FALSE
    <3>1. PICK d \in Stored : Same(b, d) /\ att[d].version = 1
      BY DEF ChainInv
    <3> QED BY <2>1, <2>2, <3>1 DEF Same, Issuing, Unique
  <2> QED BY <2>1, <2>2
<1>2. CASE arg.supersedes # None
  <2>1. PICK s : s = arg.supersedes
    OBVIOUS
  <2>2. /\ s \in Stored /\ att[s].state = "active" /\ Participant(s) = Owner[arg.request]
        /\ NewVersion(arg) = att[s].version + 1
    BY <1>2, <2>1 DEF Issuing, Renewable, NewVersion
  <2>3. att[s].version \in Nat \ {0}
    BY <2>2, VersionNat
  <2>4. ASSUME NEW b \in Stored, Participant(b) = Owner[arg.request]
        PROVE  att[b].version < NewVersion(arg) /\ att[b].state # "issued"
    <3>1. Same(s, b) /\ Same(b, s) /\ att[b].version \in Nat
      BY <2>2, <2>4, VersionNat DEF Same
    <3>2. att[b].version # NewVersion(arg)
      BY <2>4 DEF Issuing, Unique
    <3>3. ~(att[s].version < att[b].version)
      BY <2>2, <3>1, <3>2, OnlyRenewal
    <3>4. att[b].version < att[s].version \/ att[b].version = att[s].version
      BY <2>3, <3>1, <3>3
    <3>5. att[b].state # "issued"
      <4>1. CASE att[b].version = att[s].version
        <5>1. b = s
          BY <2>2, <3>1, <4>1 DEF ChainInv
        <5> QED BY <2>2, <5>1
      <4>2. CASE att[b].version < att[s].version
        BY <2>2, <3>1, <4>2 DEF ChainInv
      <4> QED BY <3>4, <4>1, <4>2
    <3>6. att[b].version < NewVersion(arg)
      BY <2>2, <2>3, <3>1, <3>4
    <3> QED BY <3>5, <3>6
  <2>5. NewVersion(arg) \in Nat \ {0}
    BY <2>2, <2>3
  <2> QED BY <2>4, <2>5
<1> QED BY <1>1, <1>2

\* The request of a new attestation carries no other.
LEMMA RequestFree ==
  ASSUME RowInv, ChainInv, NEW a, NEW arg, Issuing(a, arg), NEW b \in Stored
  PROVE  att[b].request # arg.request
<1>1. SUFFICES ASSUME att[b].request = arg.request PROVE FALSE
  OBVIOUS
<1>2. att[b].state = "issued"
  BY <1>1, RowFacts DEF RowOK, Issuing
<1>3. Participant(b) = Owner[arg.request]
  BY <1>1 DEF Participant
<1> QED BY <1>2, <1>3, OthersOlder

\* The versions of a committee's attestations do not outgrow their number.
LEMMA VersionFits ==
  ASSUME RowInv, ChainInv, NEW a, NEW arg, Issuing(a, arg)
  PROVE  /\ NewVersion(arg) <= Cardinality(Stored \cup {a})
         /\ NewVersion(arg) \in 1 .. Cardinality(Attestations)
         /\ Cardinality(Stored) <= Cardinality(Stored \cup {a})
         /\ Cardinality(Stored) \in Nat /\ Cardinality(Stored \cup {a}) \in Nat
<1>1. Stored \subseteq Attestations /\ a \in Attestations /\ a \notin Stored
  BY DEF Stored, Issuing, Unique
<1>2. IsFiniteSet(Stored) /\ Cardinality(Stored) \in Nat
  BY <1>1, AttestationAssumption, FS_Subset, FS_CardinalityType
<1>3. Cardinality(Stored \cup {a}) = Cardinality(Stored) + 1
  BY <1>1, <1>2, FS_AddElement
<1>4. /\ Cardinality(Stored \cup {a}) <= Cardinality(Attestations)
      /\ Cardinality(Attestations) \in Nat
  BY <1>1, AttestationAssumption, FS_Subset, FS_CardinalityType
<1>5. NewVersion(arg) <= Cardinality(Stored) + 1 /\ NewVersion(arg) \in Nat \ {0}
  <2>1. CASE arg.supersedes = None
    BY <1>2, <2>1 DEF NewVersion
  <2>2. CASE arg.supersedes # None
    <3>1. PICK s \in Stored : s = arg.supersedes
      BY <2>2 DEF Issuing
    <3>2. att[s].version <= Cardinality(Stored) /\ att[s].version \in Nat \ {0}
      BY VersionNat DEF ChainInv
    <3>3. NewVersion(arg) = att[s].version + 1
      BY <2>2, <3>1 DEF NewVersion
    <3> QED BY <1>2, <3>2, <3>3
  <2> QED BY <2>1, <2>2
<1> QED BY <1>2, <1>3, <1>4, <1>5

\* The rows after an issuance.
LEMMA RowsIssued ==
  ASSUME RowInv, ChainInv, NEW a, NEW arg, Issuing(a, arg), now \in Times, now' = now,
         att' = [att EXCEPT ![a] = Issued(arg)], UNCHANGED <<request, revoked>>
  PROVE  /\ RowInv'
         /\ Stored' = Stored \cup {a} /\ att'[a] = Issued(arg)
         /\ Issued(arg) \in AttestationRow
         /\ \A b \in Stored : att'[b] = att[b]
<1>0. /\ a \in Attestations /\ a \notin Stored
      /\ arg.request \in Requests /\ arg.from \in Times /\ arg.to \in Times
      /\ arg.supersedes \in Attestations \cup {None}
  BY DEF Issuing, Unique, Arguments
<1>1. Issued(arg) \in AttestationRow
  <2>1. NewVersion(arg) \in 1 .. Cardinality(Attestations)
    BY VersionFits
  <2>2. "issued" \in AttestationStates /\ 1 \in 1 .. 3 /\ FALSE \in BOOLEAN
    BY DEF AttestationStates
  <2> QED BY <1>0, <2>1, <2>2 DEF Issued, AttestationRow
<1>2. /\ att' \in [Attestations -> AttestationRow \cup {None}]
      /\ att'[a] = Issued(arg)
      /\ \A b \in Attestations : b # a => att'[b] = att[b]
  BY <1>0, <1>1 DEF RowInv
<1>3. Stored' = Stored \cup {a}
  BY <1>0, <1>1, <1>2, AttestationAssumption DEF Stored
<1>4. \A b \in Stored : att'[b] = att[b] /\ b # a
  BY <1>0, <1>2 DEF Stored
<1>5. ASSUME NEW b \in Stored PROVE RowOK(b)'
  BY <1>4, RowFacts DEF RowOK
<1>6. RowOK(a)'
  <2>1. /\ att'[a].from = arg.from /\ att'[a].to = arg.to /\ att'[a].version = NewVersion(arg)
        /\ att'[a].supersedes = arg.supersedes /\ att'[a].state = "issued"
        /\ att'[a].statusState = "issued" /\ att'[a].statusVersion = 1
        /\ att'[a].complete = FALSE /\ att'[a].request = arg.request
    BY <1>2 DEF Issued
  <2>2. arg.from < arg.to /\ arg.to <= arg.from + MaxValidity
    BY DEF Issuing, ValidWindow
  <2>3. (NewVersion(arg) = 1) = (arg.supersedes = None)
    <3>1. CASE arg.supersedes = None
      BY <3>1 DEF NewVersion
    <3>2. CASE arg.supersedes # None
      <4>1. PICK s \in Stored : s = arg.supersedes
        BY <3>2 DEF Issuing
      <4>2. att[s].version \in Nat \ {0} /\ NewVersion(arg) = att[s].version + 1
        BY <3>2, <4>1, VersionNat DEF NewVersion
      <4> QED BY <3>2, <4>2
    <3> QED BY <3>1, <3>2
  <2>4. /\ request'[arg.request].state = "issued"
        /\ request'[arg.request].version = Issuable
    BY <1>0 DEF Issuing, RowInv
  <2>5. Rank("issued") = 1 /\ Issuable + 1 - 1 = Issuable
    BY DEF Rank, Issuable
  <2>6. att'[a].complete = (att'[a].state # "issued")
    BY <2>1
  <2> QED BY <2>1, <2>2, <2>3, <2>4, <2>5, <2>6 DEF RowOK
<1>7. \A b \in Attestations : revoked'[b] # None => b \in Stored' /\ att'[b].state = "revoked"
  BY <1>3, <1>4 DEF RowInv
<1>8. \A b \in Stored' : RowOK(b)'
  BY <1>3, <1>5, <1>6
<1>9. RowInv'
  BY <1>2, <1>7, <1>8 DEF RowInv
<1> QED BY <1>1, <1>2, <1>3, <1>4, <1>9

\* The chain grows at its end.
LEMMA IssueChain ==
  ASSUME RowInv, ChainInv, NEW a, NEW arg, Issuing(a, arg),
         Stored' = Stored \cup {a}, att'[a] = Issued(arg),
         \A b \in Stored : att'[b] = att[b]
  PROVE  ChainInv'
<1>1. /\ att'[a].request = arg.request /\ att'[a].version = NewVersion(arg)
      /\ att'[a].supersedes = arg.supersedes /\ att'[a].state = "issued"
  BY DEF Issued
<1>2. a \notin Stored
  BY DEF Issuing, Unique
<1>3. /\ \A b, d \in Stored : Same(b, d)' <=> Same(b, d)
      /\ \A b \in Stored : Same(a, b)' <=> Participant(b) = Owner[arg.request]
      /\ \A b \in Stored : Same(b, a)' <=> Participant(b) = Owner[arg.request]
  BY <1>1 DEF Same, Participant
<1>4. /\ NewVersion(arg) \in Nat \ {0}
      /\ \A b \in Stored : att[b].version \in Nat \ {0}
      /\ \A b \in Stored : Participant(b) = Owner[arg.request] =>
           att[b].version < NewVersion(arg) /\ att[b].state # "issued"
  BY OthersOlder, VersionNat
<1>5. \A b, d \in Stored' : att'[b].request = att'[d].request => b = d
  BY <1>1, RequestFree DEF ChainInv
<1>6. ASSUME NEW b \in Stored', NEW d \in Stored', Same(b, d)',
             att'[b].version = att'[d].version
      PROVE  b = d
  <2>1. CASE b = a /\ d \in Stored
    BY <1>1, <1>3, <1>4, <1>6, <2>1
  <2>2. CASE d = a /\ b \in Stored
    BY <1>1, <1>3, <1>4, <1>6, <2>2
  <2>3. CASE b \in Stored /\ d \in Stored
    BY <1>3, <1>6, <2>3 DEF ChainInv
  <2> QED BY <2>1, <2>2, <2>3
<1>7. ASSUME NEW b \in Stored', att'[b].supersedes # None
      PROVE  /\ att'[b].supersedes \in Stored'
             /\ Owner[att'[att'[b].supersedes].request] = Owner[att'[b].request]
             /\ att'[b].version = att'[att'[b].supersedes].version + 1
  <2>1. CASE b = a
    <3>1. PICK s \in Stored : s = arg.supersedes
      BY <1>1, <1>7, <2>1 DEF Issuing
    <3>2. Participant(s) = Owner[arg.request] /\ NewVersion(arg) = att[s].version + 1
      BY <1>1, <1>7, <2>1, <3>1 DEF Issuing, Renewable, NewVersion
    <3> QED BY <1>1, <2>1, <3>1, <3>2 DEF Participant
  <2>2. CASE b \in Stored
    <3>1. PICK p : p = att[b].supersedes
      OBVIOUS
    <3>2. p \in Stored /\ Same(p, b) /\ att[b].version = att[p].version + 1
      BY <1>7, <2>2, <3>1 DEF ChainInv
    <3> QED BY <2>2, <3>1, <3>2 DEF Same, Participant
  <2> QED BY <2>1, <2>2
<1>8. ASSUME NEW b \in Stored', NEW d \in Stored', Same(b, d)',
             att'[b].version < att'[d].version
      PROVE  /\ att'[b].state # "issued"
             /\ att'[d].state # "issued" => att'[b].state = "superseded"
  <2>1. CASE b = a /\ d \in Stored
    BY <1>1, <1>3, <1>4, <1>8, <2>1
  <2>2. CASE d = a /\ b \in Stored
    BY <1>1, <1>3, <1>4, <1>8, <2>2
  <2>3. CASE b \in Stored /\ d \in Stored
    BY <1>3, <1>8, <2>3 DEF ChainInv
  <2>4. CASE b = a /\ d = a
    BY <1>1, <1>4, <1>8, <2>4
  <2> QED BY <2>1, <2>2, <2>3, <2>4
<1>9. ASSUME NEW b \in Stored'
      PROVE  \E d \in Stored' : Same(b, d)' /\ att'[d].version = 1
  <2>1. ASSUME NEW e \in Stored
        PROVE  \E d \in Stored : Same(e, d) /\ att'[d].version = 1
    BY DEF ChainInv
  <2>2. CASE b \in Stored
    BY <1>3, <2>1, <2>2
  <2>3. CASE b = a
    <3>1. CASE arg.supersedes = None
      <4>1. att'[a].version = 1 /\ Same(a, a)'
        BY <1>1, <3>1 DEF NewVersion, Same
      <4> QED BY <2>3, <4>1
    <3>2. CASE arg.supersedes # None
      <4>1. PICK s \in Stored : s = arg.supersedes
        BY <3>2 DEF Issuing
      <4>2. Participant(s) = Owner[arg.request]
        BY <3>2, <4>1 DEF Issuing, Renewable
      <4>3. PICK d \in Stored : Same(s, d) /\ att'[d].version = 1
        BY <2>1
      <4>4. Same(a, d)'
        BY <1>3, <4>2, <4>3 DEF Same
      <4> QED BY <2>3, <4>3, <4>4
    <3> QED BY <3>1, <3>2
  <2> QED BY <2>2, <2>3
<1>10. \A b \in Stored' : att'[b].state = "superseded" =>
         \E d \in Stored' : att'[d].supersedes = b /\ att'[d].state # "issued"
  BY <1>1 DEF ChainInv
<1>11. \A b \in Stored' : att'[b].version <= Cardinality(Stored')
  <2>1. \A b \in Stored : att[b].version <= Cardinality(Stored)
    BY DEF ChainInv
  <2> QED BY <1>1, <1>4, <2>1, VersionFits
<1> QED BY <1>5, <1>6, <1>7, <1>8, <1>9, <1>10, <1>11 DEF ChainInv, Same, Participant

-----------------------------------------------------------------------------
(* What the outbox and the audit trail tell.                               *)

\* The next state of an attestation is new to its path.
LEMMA PathGrows ==
  ASSUME NEW from, NEW to, Step(from, to)
  PROVE  /\ to \notin Path(from) /\ Path(to) = Path(from) \cup {to}
         /\ Rank(to) = Rank(from) + 1 /\ Rank(from) \in Nat
  BY DEF Step, Path, Rank

\* The audit trail and the outbox tell of every move of a command once.
LEMMA ToldChanged ==
  ASSUME RowInv, ToldInv, NEW c \in Callers, NEW moves, NEW at, Movable(moves, at),
         Reshaped(moves),
         outbox' = outbox \cup Enqueued(c, moves), audit' = audit \cup Audited(c, moves)
  PROVE  ToldInv'
<1>1. ASSUME NEW b \in Attestations, b \notin DOMAIN moves PROVE ToldOK(b)'
  <2>1. Told(b)' = Told(b)
    BY <1>1 DEF Told, Enqueued, OutboxEvent
  <2>2. Trail(b)' = Trail(b)
    BY <1>1 DEF Trail, Audited, AuditEvent
  <2>3. Stored' = Stored /\ (b \in Stored => att'[b].state = att[b].state)
    BY <1>1 DEF Reshaped, After
  <2> QED BY <2>1, <2>2, <2>3 DEF ToldInv, ToldOK
<1>2. ASSUME NEW b \in Attestations, b \in DOMAIN moves PROVE ToldOK(b)'
  <2>0. /\ Step(att[b].state, moves[b]) /\ b \in Stored /\ Stored' = Stored
        /\ att'[b].state = moves[b]
    BY <1>2 DEF Movable, Reshaped, After
  <2>1. /\ moves[b] \notin Path(att[b].state)
        /\ Path(moves[b]) = Path(att[b].state) \cup {moves[b]}
        /\ Rank(moves[b]) = Rank(att[b].state) + 1 /\ Rank(att[b].state) \in Nat
    BY <2>0, PathGrows
  <2>2. PICK e : /\ e = OutboxEvent(c, EventNames[moves[b]], b, att[b].version, moves[b])
    OBVIOUS
  <2>3. PICK f : f = AuditEvent(c, AuditName(call[c].command, moves[b]), b,
                                att[b].state, moves[b])
    OBVIOUS
  <2>4. e.ref = b /\ e.state = moves[b] /\ f.ref = b /\ f.to = moves[b]
    BY <2>2, <2>3 DEF OutboxEvent, AuditEvent
  <2>5. Told(b)' = Told(b) \cup {e}
    BY <1>2, <2>2, <2>4 DEF Told, Enqueued, OutboxEvent
  <2>6. Trail(b)' = Trail(b) \cup {f}
    BY <1>2, <2>3, <2>4 DEF Trail, Audited, AuditEvent
  <2>7. /\ IsFiniteSet(Told(b)) /\ {x.state : x \in Told(b)} = Path(att[b].state)
        /\ Cardinality(Told(b)) = Rank(att[b].state)
        /\ IsFiniteSet(Trail(b)) /\ {x.to : x \in Trail(b)} = Path(att[b].state)
        /\ Cardinality(Trail(b)) = Rank(att[b].state)
    BY <2>0 DEF ToldInv, ToldOK
  <2>8. e \notin Told(b) /\ f \notin Trail(b)
    BY <2>1, <2>4, <2>7
  <2>9. /\ IsFiniteSet(Told(b)') /\ Cardinality(Told(b)') = Rank(moves[b])
        /\ IsFiniteSet(Trail(b)') /\ Cardinality(Trail(b)') = Rank(moves[b])
    BY <2>1, <2>5, <2>6, <2>7, <2>8, FS_AddElement
  <2>10. {x.state : x \in Told(b) \cup {e}} = Path(moves[b])
    BY <2>1, <2>4, <2>7
  <2>11. {x.to : x \in Trail(b) \cup {f}} = Path(moves[b])
    BY <2>1, <2>4, <2>7
  <2> QED BY <2>0, <2>5, <2>6, <2>9, <2>10, <2>11 DEF ToldOK
<1> QED BY <1>1, <1>2 DEF ToldInv

\* They tell of an issuance once.
LEMMA ToldIssued ==
  ASSUME ToldInv, NEW a \in Attestations, a \notin Stored, NEW e, NEW f,
         e.ref = a, e.state = "issued", f.ref = a, f.to = "issued",
         Stored' = Stored \cup {a}, att'[a].state = "issued",
         \A b \in Stored : att'[b] = att[b],
         outbox' = outbox \cup {e}, audit' = audit \cup {f}
  PROVE  ToldInv'
<1>1. ASSUME NEW b \in Attestations, b # a PROVE ToldOK(b)'
  <2>1. Told(b)' = Told(b) /\ Trail(b)' = Trail(b)
    BY <1>1 DEF Told, Trail
  <2> QED BY <1>1, <2>1 DEF ToldInv, ToldOK
<1>2. ToldOK(a)'
  <2>1. Told(a) = {} /\ Trail(a) = {}
    BY DEF ToldInv, ToldOK
  <2>2. Told(a)' = {e} /\ Trail(a)' = {f}
    BY <2>1 DEF Told, Trail
  <2>3. /\ IsFiniteSet({e}) /\ Cardinality({e}) = 1
        /\ IsFiniteSet({f}) /\ Cardinality({f}) = 1
    BY FS_Singleton
  <2>4. {x.state : x \in {e}} = {"issued"} /\ {x.to : x \in {f}} = {"issued"}
    OBVIOUS
  <2>5. Path("issued") = {"issued"} /\ Rank("issued") = 1
    BY DEF Path, Rank
  <2> QED BY <2>2, <2>3, <2>4, <2>5 DEF ToldOK
<1> QED BY <1>1, <1>2 DEF ToldInv

-----------------------------------------------------------------------------
(* The inductive step.                                                     *)

\* The commands and what they ask for.
LEMMA CommandTable ==
  /\ AttestationCommands["activateAttestation"].expected = {"issued"}
  /\ AttestationCommands["activateAttestation"].next = "active"
  /\ AttestationCommands["expireAttestation"].expected = {"active"}
  /\ AttestationCommands["expireAttestation"].next = "expired"
  /\ AttestationCommands["revokeAttestation"].expected = {"active"}
  /\ AttestationCommands["revokeAttestation"].next = "revoked"
  /\ AttestationCommands["supersedeAttestation"].expected = {"active"}
  BY DEF AttestationCommands, From

\* What a change does, by command.
Does(command, a, moves) ==
  /\ a \in Stored
  /\ \/ /\ command = "activateAttestation" /\ att[a].state = "issued"
        /\ DOMAIN moves = {a} \cup Predecessors(a) /\ moves[a] = "active"
        /\ \A p \in Predecessors(a) :
             moves[p] = "superseded" /\ att[p].state = "active" /\ p \in Stored
     \/ /\ command = "expireAttestation" /\ att[a].state = "active"
        /\ DOMAIN moves = {a} /\ moves[a] = "expired"
     \/ /\ command = "revokeAttestation" /\ att[a].state = "active"
        /\ DOMAIN moves = {a} /\ moves[a] = "revoked"

\* The checks of a change that succeeds.
LEMMA ChangesFacts ==
  ASSUME Inv, NEW c \in Callers, Open(c), call[c].command # "issueAttestation",
         Changes(c), NEW a, a = call[c].ref, NEW command, command = call[c].command,
         NEW moves, moves = Moves(command, a)
  PROVE  Does(command, a, moves) /\ Movable(moves, call[c].at)
<1>1. a \in Stored /\ command \in Changing /\ call[c].at \in Times /\ call[c].at <= now
  BY DEF Inv, CallInv, CallOK
<1>2. \A b \in Stored : RequestState(b) = att[b].state
  BY RowFacts DEF Inv, RowOK, RequestState
<1>3. InWindow(command, att[a], call[c].at) /\ Expected(command, a)
  BY DEF Changes
<1>4. /\ moves = [b \in {a} \cup (IF command = "activateAttestation"
                                  THEN Predecessors(a) ELSE {}) |->
                   IF b = a THEN AttestationCommands[command].next ELSE "superseded"]
  BY DEF Moves
<1>5. CASE command = "activateAttestation"
  <2>1. att[a].state = "issued" /\ moves[a] = "active"
    BY <1>1, <1>2, <1>3, <1>4, <1>5, CommandTable DEF Expected
  <2>2. DOMAIN moves = {a} \cup Predecessors(a)
    BY <1>4, <1>5
  <2>3. ASSUME NEW p \in Predecessors(a)
        PROVE  moves[p] = "superseded" /\ att[p].state = "active" /\ p \in Stored
    <3>1. p \in Stored
      BY <1>1 DEF Predecessors, Inv, ChainInv
    <3>2. att[p].state = "active"
      BY <1>2, <1>3, <1>5, <3>1, CommandTable DEF Expected
    <3> QED BY <1>4, <1>5, <2>1, <3>1, <3>2
  <2>4. att[a].from <= call[c].at
    BY <1>3, <1>5 DEF InWindow
  <2>5. Does(command, a, moves)
    BY <1>1, <1>5, <2>1, <2>2, <2>3 DEF Does
  <2>6. ASSUME NEW b \in DOMAIN moves
        PROVE  /\ b \in Stored /\ Step(att[b].state, moves[b])
               /\ moves[b] = "active" => att[b].from <= call[c].at
    BY <1>1, <2>1, <2>2, <2>3, <2>4 DEF Step
  <2> QED BY <1>1, <2>5, <2>6 DEF Movable
<1>6. CASE command \in {"expireAttestation", "revokeAttestation"}
  <2>1. att[a].state = "active"
    BY <1>1, <1>2, <1>3, <1>6, CommandTable DEF Expected
  <2>2. DOMAIN moves = {a} /\ moves[a] = AttestationCommands[command].next
    BY <1>4, <1>6
  <2>3. Does(command, a, moves)
    BY <1>1, <1>6, <2>1, <2>2, CommandTable DEF Does
  <2>4. Movable(moves, call[c].at)
    BY <1>1, <1>6, <2>1, <2>2, CommandTable DEF Movable, Step
  <2> QED BY <2>3, <2>4
<1> QED BY <1>1, <1>5, <1>6 DEF Changing

\* A transaction that leaves no rows behind preserves the invariant.
LEMMA QuietStep ==
  ASSUME Inv, NEW c \in Callers, Open(c), Replay(c) \/ Refuse(c), UNCHANGED rows
  PROVE  Inv'
<1>1. CallInv' /\ UNCHANGED <<now, ledgers>>
  BY QuietOK DEF Inv
<1>2. UNCHANGED <<now, audit, outbox, att, request, revoked>>
  BY <1>1 DEF rows, ledgers
<1>3. Stored' = Stored
  BY <1>2 DEF Stored
<1>4. RowInv' /\ ChainInv'
  BY <1>2, <1>3 DEF Inv, RowInv, RowOK, ChainInv, Same, Participant
<1>5. ToldInv'
  BY <1>2, <1>3 DEF Inv, ToldInv, ToldOK, Told, Trail
<1> QED BY <1>1, <1>4, <1>5 DEF Inv

\* activate, expire and revoke preserve the invariant.
LEMMA ChangeStep == ASSUME Inv, NEW c \in Callers, Change(c) PROVE Inv'
<1>1. Open(c) /\ call[c].command # "issueAttestation"
  BY DEF Change
<1>2. CASE (Replay(c) \/ Refuse(c)) /\ UNCHANGED rows
  BY <1>1, <1>2, QuietStep
<1>3. CASE ~((Replay(c) \/ Refuse(c)) /\ UNCHANGED rows)
  <2>1. PICK a, command, at, moves :
          /\ a = call[c].ref /\ command = call[c].command /\ at = call[c].at
          /\ moves = Moves(command, a)
    OBVIOUS
  <2>2. /\ Changes(c)
        /\ UpdateAttestationAndRequest(moves, at)
        /\ revoked' = IF command = "revokeAttestation"
                      THEN [revoked EXCEPT ![a] = at] ELSE revoked
        /\ Commit(c, att[a].statusVersion + 1, moves[a], Audited(c, moves), Enqueued(c, moves))
    BY <1>3, <2>1 DEF Change
  <2>3. Does(command, a, moves) /\ Movable(moves, at)
    BY <1>1, <2>1, <2>2, ChangesFacts
  <2>4. a \in Stored /\ a \in Attestations /\ at \in Times /\ now \in Times /\ now' = now
    BY <2>2, <2>3 DEF Does, Stored, Movable, Inv, CallInv, Commit
  <2>5. /\ att' \in [Attestations -> AttestationRow \cup {None}]
        /\ request' \in [Requests -> [state : AttestationStates, version : Nat]]
        /\ \A q \in Requests :
             request'[q].state = "issued" => request'[q].version = Issuable
        /\ \A b \in Stored : RowOK(b)'
        /\ Reshaped(moves)
    BY <2>2, <2>3, <2>4, RowsChanged DEF Inv
  <2>6. Stored' = Stored
    BY <2>5 DEF Reshaped
  <2>7. RowInv'
    <3>1. revoked' \in [Attestations -> Times \cup {None}]
      BY <2>2, <2>4 DEF Inv, RowInv
    <3>2. ASSUME NEW b \in Attestations, revoked'[b] # None
          PROVE  b \in Stored' /\ att'[b].state = "revoked"
      <4>1. CASE b = a /\ command = "revokeAttestation"
        <5>1. moves[a] = "revoked" /\ a \in DOMAIN moves
          BY <2>3, <4>1 DEF Does
        <5> QED BY <2>4, <2>5, <2>6, <4>1, <5>1 DEF Reshaped, After
      <4>2. CASE ~(b = a /\ command = "revokeAttestation")
        <5>1. revoked'[b] = revoked[b]
          BY <2>2, <2>4, <4>2 DEF Inv, RowInv
        <5>2. b \in Stored /\ att[b].state = "revoked"
          BY <3>2, <5>1 DEF Inv, RowInv
        <5>3. b \notin DOMAIN moves
          BY <2>3, <5>2 DEF Movable, Step
        <5> QED BY <2>5, <2>6, <5>2, <5>3 DEF Reshaped, After
      <4> QED BY <4>1, <4>2
    <3> QED BY <2>5, <2>6, <3>1, <3>2 DEF RowInv
  <2>8. ChainInv'
    <3>1. CASE command = "activateAttestation"
      BY <2>3, <2>5, <3>1, ActivateChain DEF Inv, Does
    <3>2. CASE command # "activateAttestation"
      <4>1. att[a].state = "active" /\ DOMAIN moves = {a} /\ moves[a] \in Lapsed
        BY <2>3, <3>2 DEF Does, Lapsed
      <4> QED BY <2>4, <2>5, <4>1, LapseChain DEF Inv
    <3> QED BY <3>1, <3>2
  <2>9. ToldInv'
    BY <2>2, <2>3, <2>5, ToldChanged DEF Inv, Commit
  <2>10. CallInv'
    <3>1. att[a].statusVersion + 1 \in 1 .. 3
      BY <2>3, <2>4, RowFacts DEF Inv, RowOK, Rank, Does
    <3>2. moves[a] \in AttestationStates
      BY <2>3 DEF Does, AttestationStates
    <3> QED BY <1>1, <2>2, <2>6, <3>1, <3>2, CommitOK DEF Inv
  <2> QED BY <2>7, <2>8, <2>9, <2>10 DEF Inv
<1> QED BY <1>2, <1>3

\* issue preserves the invariant.
LEMMA IssueStep == ASSUME Inv, NEW c \in Callers, Issue(c) PROVE Inv'
<1>1. Open(c) /\ call[c].command = "issueAttestation"
  BY DEF Issue, Runs
<1>2. CASE (Replay(c) \/ Refuse(c)) /\ UNCHANGED rows
  BY <1>1, <1>2, QuietStep
<1>3. CASE ~((Replay(c) \/ Refuse(c)) /\ UNCHANGED rows)
  <2>1. PICK a, arg : a = call[c].ref /\ arg = call[c].arg
    OBVIOUS
  <2>2. PICK e, f :
          /\ e = OutboxEvent(c, "AttestationIssued", a, NewVersion(arg), "issued")
          /\ f = AuditEvent(c, "issueAttestation", a, None, "issued")
    OBVIOUS
  <2>3. /\ Issues(c) /\ att' = [att EXCEPT ![a] = Issued(arg)]
        /\ Commit(c, 1, "issued", {f}, {e}) /\ UNCHANGED <<request, revoked>>
    BY <1>3, <2>1, <2>2 DEF Issue
  <2>4. /\ a \in Attestations /\ arg \in Arguments
        /\ arg.supersedes \in Stored \cup {None}
    BY <1>1, <2>1 DEF Inv, CallInv, CallOK, Changing
  <2>5. Issuing(a, arg)
    BY <2>1, <2>3, <2>4 DEF Issues, Issuing
  <2>6. now \in Times /\ now' = now
    BY <2>3 DEF Inv, CallInv, Commit
  <2>7. /\ RowInv' /\ Stored' = Stored \cup {a} /\ att'[a] = Issued(arg)
        /\ \A b \in Stored : att'[b] = att[b]
    BY <2>3, <2>5, <2>6, RowsIssued DEF Inv
  <2>8. ChainInv'
    BY <2>5, <2>7, IssueChain DEF Inv
  <2>9. ToldInv'
    <3>1. e.ref = a /\ e.state = "issued" /\ f.ref = a /\ f.to = "issued"
      BY <2>2 DEF OutboxEvent, AuditEvent
    <3>2. a \notin Stored /\ att'[a].state = "issued"
      BY <2>5, <2>7 DEF Issuing, Unique, Issued
    <3>3. outbox' = outbox \cup {e} /\ audit' = audit \cup {f}
      BY <2>3 DEF Commit
    <3> QED BY <2>4, <2>7, <3>1, <3>2, <3>3, ToldIssued DEF Inv
  <2>10. CallInv'
    <3>1. "issued" \in AttestationStates /\ 1 \in 1 .. 3
      BY DEF AttestationStates
    <3> QED BY <1>1, <2>3, <2>7, <3>1, CommitOK DEF Inv
  <2> QED BY <2>7, <2>8, <2>9, <2>10 DEF Inv
<1> QED BY <1>2, <1>3

\* The invariant holds at first.
LEMMA InvInit == Init => Inv
<1>1. SUFFICES ASSUME Init PROVE Inv
  OBVIOUS
<1>2. Stored = {}
  BY <1>1 DEF Init, Stored
<1>3. CallInv
  BY <1>1, CommandsAssumption DEF Init, CommandsInit, CallInv, CallOK, Open, Times
<1>4. RowInv
  BY <1>1, <1>2, AttestationAssumption DEF Init, RowInv, AttestationStates, Issuable
<1>5. ChainInv
  BY <1>2 DEF ChainInv
<1>6. ToldInv
  BY <1>1, <1>2, FS_EmptySet DEF Init, CommandsInit, ToldInv, ToldOK, Told, Trail
<1> QED BY <1>3, <1>4, <1>5, <1>6 DEF Inv

\* Every step preserves the invariant.
LEMMA InvStep == Inv /\ [Next]_vars => Inv'
<1> SUFFICES ASSUME Inv, [Next]_vars PROVE Inv'
  OBVIOUS
<1>0. now \in Times /\ now \in Nat /\ MaxTime \in Nat
  BY CommandsAssumption DEF Inv, CallInv, Times
<1>1. ASSUME UNCHANGED <<audit, outbox, rows>>, now' \in Times, now <= now', CallInv'
      PROVE  Inv'
  <2>1. UNCHANGED <<audit, outbox, att, request, revoked>> /\ Stored' = Stored
    BY <1>1 DEF rows, Stored
  <2>2. ASSUME NEW a \in Stored PROVE RowOK(a)'
    <3>1. att[a].from \in Nat /\ att[a].effective \in Nat /\ now' \in Nat /\ RowOK(a)
      <4>1. att[a] \in AttestationRow /\ RowOK(a)
        BY RowFacts DEF Inv
      <4>2. Times \subseteq Nat
        BY CommandsAssumption DEF Times
      <4> QED BY <1>1, <4>1, <4>2 DEF AttestationRow
    <3>2. /\ att[a].from <= now => att[a].from <= now'
          /\ att[a].effective <= now => att[a].effective <= now'
      BY <1>0, <1>1, <3>1
    <3> QED BY <2>1, <3>1, <3>2 DEF RowOK
  <2>3. RowInv' /\ ChainInv'
    BY <2>1, <2>2 DEF Inv, RowInv, ChainInv, Same, Participant
  <2>4. ToldInv'
    BY <2>1 DEF Inv, ToldInv, ToldOK, Told, Trail
  <2> QED BY <1>1, <2>3, <2>4 DEF Inv
<1>2. CASE Tick
  <2>1. now' \in Times /\ now <= now' /\ UNCHANGED <<call, idem, audit, outbox, rows>>
    BY <1>0, <1>2 DEF Tick, Advance, Times, ledgers
  <2>2. Stored' = Stored
    BY <2>1 DEF Stored, rows
  <2>3. CallInv'
    <3>1. ASSUME NEW c \in Callers PROVE CallOK(c)'
      BY <1>0, <2>1, <2>2, CallKept DEF Inv, CallInv
    <3> QED BY <2>1, <3>1 DEF Inv, CallInv
  <2> QED BY <1>1, <2>1, <2>3
<1>3. ASSUME NEW c \in Callers, NEW a \in Attestations, NEW q \in Requests,
             SendIssue(c, a, q)
      PROVE  Inv'
  <2>1. PICK prior \in Stored \cup {None}, from \in Times, to \in Times :
          Send(c, "issueAttestation", a, 0, now,
               [request |-> q, supersedes |-> prior, from |-> from, to |-> to])
    BY <1>3 DEF SendIssue
  <2>2. PICK arg : arg = [request |-> q, supersedes |-> prior, from |-> from, to |-> to]
    OBVIOUS
  <2>3. arg \in Arguments /\ arg.supersedes \in Stored \cup {None}
    BY <2>2 DEF Arguments, Stored
  <2>4. UNCHANGED rows /\ Send(c, "issueAttestation", a, 0, now, arg)
    BY <1>3, <2>1, <2>2 DEF SendIssue
  <2>5. CallInv'
    BY <2>3, <2>4, SendOK DEF Inv
  <2> QED BY <1>0, <1>1, <2>4, <2>5 DEF Send, ledgers
<1>4. ASSUME NEW c \in Callers, NEW a \in Attestations, SendChange(c, a) PROVE Inv'
  <2>1. PICK command \in Changing :
          Send(c, command, a, att[a].statusVersion, now, None)
    BY <1>4 DEF SendChange, Changing
  <2>2. UNCHANGED rows /\ a \in Stored
    BY <1>4 DEF SendChange
  <2>3. CallInv'
    BY <2>1, <2>2, SendOK DEF Inv
  <2> QED BY <1>0, <1>1, <2>1, <2>2, <2>3 DEF Send, ledgers
<1>5. CASE UNCHANGED vars
  <2>1. UNCHANGED <<now, call, idem, audit, outbox, rows>>
    BY <1>5 DEF vars, commandVars, rows
  <2>2. Stored' = Stored /\ now <= now' /\ now' \in Times
    BY <1>0, <2>1 DEF Stored, rows
  <2>3. ASSUME NEW c \in Callers PROVE CallOK(c)'
    BY <1>0, <2>1, <2>2, CallKept DEF Inv, CallInv
  <2>4. CallInv'
    BY <2>1, <2>2, <2>3 DEF Inv, CallInv
  <2> QED BY <1>1, <2>1, <2>2, <2>4
<1> QED BY <1>2, <1>3, <1>4, <1>5, ChangeStep, IssueStep DEF Next

\* The invariant holds of every reachable state.
LEMMA InvHolds == Spec => []Inv
  BY InvInit, InvStep, PTL DEF Spec

-----------------------------------------------------------------------------
(* The theorems.                                                           *)

\* The tables keep their types and their CHECK constraints; the versions of a
\* chain never outgrow the attestations there are.
THEOREM AttestationTypeCorrect == Spec => []TypeOK
<1>1. ASSUME Inv PROVE TypeOK
  <2>1. ASSUME NEW a \in Attestations, att[a] # None
        PROVE  /\ att[a].from < att[a].to /\ att[a].to <= att[a].from + MaxValidity
               /\ (att[a].version = 1) = (att[a].supersedes = None)
    BY <1>1, <2>1 DEF Inv, RowInv, RowOK, Stored
  <2> QED BY <1>1, <2>1 DEF Inv, RowInv, TypeOK
<1> QED BY <1>1, InvHolds, PTL

\* The attestation, its status row and its request tell the same story, and no
\* request carries two attestations.
THEOREM AttestationRecordsAgree == Spec => []RecordsAgree
<1>1. ASSUME Inv PROVE RecordsAgree
  <2>1. ASSUME NEW a \in Stored
        PROVE  /\ att[a].statusState = att[a].state
               /\ RequestState(a) = att[a].state
               /\ request[att[a].request].version = Issuable + att[a].statusVersion - 1
    BY <1>1, RowFacts DEF Inv, RowOK, RequestState
  <2>2. \A a, b \in Stored : att[a].request = att[b].request => a = b
    BY <1>1 DEF Inv, ChainInv
  <2> QED BY <2>1, <2>2 DEF RecordsAgree
<1> QED BY <1>1, InvHolds, PTL

\* A renewal and the attestation it supersedes.
LEMMA Successor ==
  ASSUME Inv, NEW a \in Stored, NEW b \in Stored, att[b].supersedes = a
  PROVE  /\ Same(a, b) /\ att[a].version < att[b].version
         /\ (att[b].state # "issued") = (att[a].state = "superseded")
<1>1. a # None
  BY AttestationAssumption DEF Stored
<1>2. Same(a, b) /\ att[b].version = att[a].version + 1
  BY <1>1 DEF Inv, ChainInv
<1>3. att[a].version \in Nat /\ att[b].version \in Nat
  BY VersionNat DEF Inv
<1>4. att[a].version < att[b].version
  BY <1>2, <1>3
<1>5. att[b].state # "issued" => att[a].state = "superseded"
  BY <1>2, <1>4 DEF Inv, ChainInv
<1>6. ASSUME att[a].state = "superseded" PROVE att[b].state # "issued"
  <2>1. PICK d \in Stored : att[d].supersedes = a /\ att[d].state # "issued"
    BY <1>6 DEF Inv, ChainInv
  <2>2. Same(a, d) /\ att[d].version = att[a].version + 1
    BY <1>1, <2>1 DEF Inv, ChainInv
  <2>3. Same(b, d) /\ att[b].version = att[d].version
    BY <1>2, <2>2 DEF Same
  <2>4. b = d
    BY <2>3 DEF Inv, ChainInv
  <2> QED BY <2>1, <2>4
<1> QED BY <1>2, <1>4, <1>5, <1>6

\* Superseding is one step with the renewal's activation, and a participant
\* never holds two active attestations.
THEOREM AttestationSuccession == Spec => []Succession
<1>1. ASSUME Inv PROVE Succession
  <2>1. ASSUME NEW a \in Stored, NEW b \in Stored, att[b].supersedes = a
        PROVE  /\ Participant(a) = Participant(b)
               /\ (att[b].state # "issued") = (att[a].state = "superseded")
    BY <1>1, <2>1, Successor DEF Same
  <2>2. ASSUME NEW a \in Stored, att[a].state = "superseded"
        PROVE  \E b \in Stored : att[b].supersedes = a
    BY <1>1, <2>2 DEF Inv, ChainInv
  <2>3. ASSUME NEW a \in Stored, NEW b \in Stored, Participant(a) = Participant(b),
               att[a].state = "active", att[b].state = "active"
        PROVE  a = b
    <3>1. att[a].version \in Nat /\ att[b].version \in Nat /\ Same(a, b) /\ Same(b, a)
      BY <1>1, <2>3, VersionNat DEF Inv, Same
    <3>2. ~(att[a].version < att[b].version) /\ ~(att[b].version < att[a].version)
      BY <1>1, <2>3, <3>1 DEF Inv, ChainInv
    <3>3. att[a].version = att[b].version
      BY <3>1, <3>2
    <3> QED BY <1>1, <3>1, <3>3 DEF Inv, ChainInv
  <2> QED BY <2>1, <2>2, <2>3 DEF Succession
<1> QED BY <1>1, InvHolds, PTL

\* No renewal of an attestation that expired or was revoked is ever activated.
THEOREM AttestationLapsedIsLast == Spec => []LapsedIsLast
<1>1. ASSUME Inv, NEW a \in Stored, NEW b \in Stored, Participant(a) = Participant(b),
             att[a].state \in Lapsed, att[b].version > att[a].version
      PROVE  att[b].state = "issued"
  <2>1. att[a].version < att[b].version /\ Same(a, b)
    <3>1. att[a].version \in Nat /\ att[b].version \in Nat
      BY <1>1, VersionNat DEF Inv
    <3> QED BY <1>1, <3>1 DEF Same
  <2> QED BY <1>1, <2>1 DEF Inv, ChainInv, Lapsed
<1>2. Inv => LapsedIsLast
  BY <1>1 DEF LapsedIsLast
<1> QED BY <1>2, InvHolds, PTL

\* Outbox and audit trail tell each state of each attestation exactly once.
THEOREM AttestationMovesTold == Spec => []MovesTold
<1>1. ASSUME Inv PROVE MovesTold
  <2>1. ASSUME NEW a \in Stored
        PROVE  /\ {e.state : e \in {e \in outbox : e.ref = a}} = Path(att[a].state)
               /\ Cardinality({e \in outbox : e.ref = a}) = att[a].statusVersion
               /\ {e.to : e \in {e \in audit : e.ref = a}} = Path(att[a].state)
               /\ Cardinality({e \in audit : e.ref = a}) = att[a].statusVersion
    <3>1. ToldOK(a) /\ att[a].statusVersion = Rank(att[a].state)
      BY <1>1, RowFacts DEF Inv, ToldInv, RowOK
    <3> QED BY <3>1 DEF ToldOK, Told, Trail
  <2> QED BY <2>1 DEF MovesTold, Path
<1> QED BY <1>1, InvHolds, PTL

\* The two definitions of the canonical status agree at the present instant.
THEOREM AttestationStatusAgrees == Spec => []StatusAgrees
<1>1. ASSUME Inv, NEW a \in Stored,
             att[a].state = "superseded" => CurrentSuccessor(a) # {}
      PROVE  StatusAt(a, now) =
               AttestationStatusAt(a, IF att[a].state = "superseded"
                                      THEN att[a].effective ELSE None, now)
  <2>1. CASE att[a].state = "superseded"
    <3>1. PICK b \in CurrentSuccessor(a) : TRUE
      BY <1>1, <2>1
    <3>2. b \in Stored /\ att[b].state = "active"
      BY DEF CurrentSuccessor
    <3>3. att[b].from <= now
      BY <1>1, <3>2, RowFacts DEF Inv, RowOK
    <3>4. att[a].effective <= now
      BY <1>1, <2>1, RowFacts DEF Inv, RowOK
    <3>5. att[a].effective # None
      BY <1>1, RowFacts, AttestationAssumption DEF Inv, AttestationRow
    <3> QED BY <2>1, <3>3, <3>4, <3>5 DEF StatusAt, AttestationStatusAt
  <2>2. CASE att[a].state # "superseded"
    <3>1. ASSUME NEW b \in CurrentSuccessor(a) PROVE FALSE
      <4>1. b \in Stored /\ att[b].supersedes = a /\ att[b].state = "active"
        BY DEF CurrentSuccessor
      <4> QED BY <1>1, <2>2, <4>1, Successor
    <3> QED BY <2>2, <3>1 DEF StatusAt, AttestationStatusAt
  <2> QED BY <2>1, <2>2
<1>2. Inv => StatusAgrees
  BY <1>1 DEF StatusAgrees
<1> QED BY <1>2, InvHolds, PTL

\* What a step leaves of an attestation whose revocation is recorded.
LEMMA RevocationKept ==
  ASSUME Inv, [Next]_vars, NEW a \in Stored, att[a].state = "revoked"
  PROVE  /\ att'[a].from = att[a].from /\ att'[a].complete = att[a].complete
         /\ revoked'[a] = revoked[a] /\ now <= now'
<1>0. now \in Nat /\ a \in Attestations
  BY CommandsAssumption DEF Inv, CallInv, Times, Stored
<1>1. ASSUME NEW c \in Callers, Change(c), ~(UNCHANGED rows)
      PROVE  att'[a] = att[a] /\ revoked'[a] = revoked[a] /\ now' = now
  <2>1. PICK r, command, at, moves :
          /\ r = call[c].ref /\ command = call[c].command /\ at = call[c].at
          /\ moves = Moves(command, r)
    OBVIOUS
  <2>2. /\ Open(c) /\ call[c].command # "issueAttestation" /\ Changes(c)
        /\ UpdateAttestationAndRequest(moves, at)
        /\ revoked' = IF command = "revokeAttestation"
                      THEN [revoked EXCEPT ![r] = at] ELSE revoked
        /\ now' = now
    BY <1>1, <2>1 DEF Change, Commit
  <2>3. Does(command, r, moves) /\ Movable(moves, at)
    BY <2>1, <2>2, ChangesFacts
  <2>4. a \notin DOMAIN moves
    BY <2>3 DEF Movable, Step
  <2>5. a # r
    BY <2>3 DEF Does
  <2> QED BY <1>0, <2>2, <2>4, <2>5 DEF UpdateAttestationAndRequest, Inv, RowInv
<1>2. ASSUME NEW c \in Callers, Issue(c), ~(UNCHANGED rows)
      PROVE  att'[a] = att[a] /\ revoked'[a] = revoked[a] /\ now' = now
  <2>1. PICK r, row : /\ Unique(r, call[c].arg) /\ att' = [att EXCEPT ![r] = row]
                      /\ revoked' = revoked /\ now' = now
    BY <1>2 DEF Issue, Issues, Commit
  <2>2. a # r
    BY <2>1 DEF Unique
  <2> QED BY <1>0, <2>1, <2>2 DEF Inv, RowInv
<1>3. CASE UNCHANGED rows
  <2>1. now' = now \/ now' = now + 1
    BY DEF Next, Tick, Advance, SendIssue, SendChange, Send, Issue, Change, Replay,
           Refuse, Commit, vars, commandVars
  <2> QED BY <1>0, <1>3, <2>1 DEF rows
<1>4. CASE ~(UNCHANGED rows)
  <2>1. \E c \in Callers : Change(c) \/ Issue(c)
    BY <1>4 DEF Next, Tick, SendIssue, SendChange, vars, rows
  <2> QED BY <1>0, <1>1, <1>2, <1>4, <2>1
<1> QED BY <1>3, <1>4

\* Once a reader was told that an attestation is revoked, it stays revoked.
THEOREM AttestationRevokedForGood == Spec => RevokedForGood
<1>1. ASSUME Inv, Inv', [Next]_vars, NEW a \in Stored, StatusAt(a, now) = "revoked"
      PROVE  StatusAt(a, now)' = "revoked"
  <2>1. /\ att[a].complete /\ ~(now < att[a].from)
        /\ revoked[a] # None /\ revoked[a] <= now
    BY <1>1 DEF StatusAt
  <2>2. a \in Attestations /\ att[a].state = "revoked"
    BY <1>1, <2>1 DEF Inv, RowInv, Stored
  <2>3. /\ att'[a].from = att[a].from /\ att'[a].complete = att[a].complete
        /\ revoked'[a] = revoked[a] /\ now <= now'
    BY <1>1, <2>2, RevocationKept
  <2>4. now \in Nat /\ now' \in Nat /\ att[a].from \in Nat /\ revoked[a] \in Nat
    <3>1. Times \subseteq Nat
      BY CommandsAssumption DEF Times
    <3>2. now \in Times /\ now' \in Times /\ revoked[a] \in Times /\ att[a].from \in Times
      BY <1>1, <2>1, <2>2, RowFacts DEF Inv, CallInv, RowInv, AttestationRow
    <3> QED BY <3>1, <3>2
  <2>5. ~(now' < att'[a].from) /\ revoked'[a] # None /\ revoked'[a] <= now'
    BY <2>1, <2>3, <2>4
  <2> QED BY <2>1, <2>3, <2>5 DEF StatusAt
<1>2. Inv /\ Inv' /\ [Next]_vars =>
        [\A a \in Stored : StatusAt(a, now) = "revoked" => StatusAt(a, now)' = "revoked"]_vars
  BY <1>1
<1> QED BY <1>2, InvHolds, PTL DEF Spec, RevokedForGood
=============================================================================
