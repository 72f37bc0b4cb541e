------------------------------ MODULE Commands ------------------------------
(***************************************************************************)
(* What every command of the domain repositories shares (packages/db/src): *)
(* a caller sends a command with an idempotency key, the version of the    *)
(* record it read and the instant it observed; the repository runs it in   *)
(* one serializable transaction that changes the record, appends an audit  *)
(* event, enqueues an outbox event and completes the idempotency record,   *)
(* or changes nothing and throws.                                          *)
(*                                                                         *)
(* A transaction is one step.  Its answer may be lost: then the call stays *)
(* open and the caller repeats it with the same key.  Keys are minted by   *)
(* the caller, <<caller, number>>; a caller may also use the key of its    *)
(* previous call again.  The digest of a request covers what it asks: two  *)
(* requests of one digest name the same record and version.                *)
(***************************************************************************)
EXTENDS Naturals, FiniteSets

CONSTANTS Callers,
          MintLimit,   \* bound: keys that a caller completes a command with
          MaxTime,     \* bound: the clock
          None

ASSUME CommandsAssumption ==
  /\ MintLimit \in [Callers -> Nat]
  /\ MaxTime \in Nat

VARIABLES now,      \* the clock
          call,     \* the call each caller has open or has had answered
          idem,     \* idempotency_record rows that are completed
          audit,    \* audit_event rows
          outbox    \* outbox_event rows

commandVars == <<now, call, idem, audit, outbox>>
ledgers == <<idem, audit, outbox>>

Times == 0 .. MaxTime

CommandsInit ==
  /\ now = 0
  /\ call = [c \in Callers |-> None]
  /\ idem = {}
  /\ audit = {}
  /\ outbox = {}

Advance ==
  /\ now < MaxTime
  /\ now' = now + 1

-----------------------------------------------------------------------------
(* The caller.                                                             *)

Open(c) == call[c] # None /\ call[c].answer = None
Answered(c) == call[c] # None /\ call[c].answer # None
Runs(c, command) == Open(c) /\ call[c].command = command

Minted(c) == {i \in idem : i.key[1] = c}
NewKey(c) == <<c, Cardinality(Minted(c)) + 1>>

\* A new call, after the answer of the last one.
Send(c, command, ref, version, at, arg) ==
  /\ ~Open(c)
  /\ Cardinality(Minted(c)) < MintLimit[c]
  /\ \E key \in {NewKey(c)} \cup (IF call[c] = None THEN {} ELSE {call[c].key}) :
       call' = [call EXCEPT ![c] =
                  [key |-> key, command |-> command, ref |-> ref,
                   version |-> version, at |-> at, arg |-> arg,
                   answer |-> None]]
  /\ UNCHANGED <<now, ledgers>>

\* The answer of a transaction reaches the caller, who is done with what it
\* asked for, or is lost on the way.
Reply(c, answer) ==
  \/ call' = [call EXCEPT ![c].answer = answer, ![c].at = None, ![c].arg = None]
  \/ UNCHANGED call

-----------------------------------------------------------------------------
(* The repository: beginIdempotency, completeIdempotency, appendAudit and  *)
(* the insertion of the outbox event.                                      *)

Digest(c) == <<call[c].ref, call[c].version>>

Existing(c) == {i \in idem : i.key = call[c].key}

Replayed(c) ==
  {i \in Existing(c) : i.command = call[c].command /\ i.digest = Digest(c)}

\* The key was used for another command or request: IdempotencyConflictError.
Conflicts(c) == Existing(c) # {} /\ Replayed(c) = {}

\* The stored result is answered, whatever happened to the record since.
Replay(c) ==
  /\ \E i \in Replayed(c) : Reply(c, [state |-> i.state, version |-> i.version])
  /\ UNCHANGED <<now, ledgers>>

\* The transaction throws and leaves nothing behind.  The key is free: the
\* caller hears of it and forgets the call, or repeats it.
Refuse(c) ==
  /\ \/ call' = [call EXCEPT ![c] = None]
     \/ UNCHANGED call
  /\ UNCHANGED <<now, ledgers>>

AuditEvent(c, command, ref, from, to) ==
  [key |-> call[c].key, command |-> command, ref |-> ref, from |-> from, to |-> to]

OutboxEvent(c, event, ref, version, state) ==
  [key |-> call[c].key, event |-> event, ref |-> ref,
   version |-> version, state |-> state]

\* Mutant: the result keeps the version that the caller had read.
CompleteWithSeen(c, version, state) ==
  idem' = idem \cup {[key |-> call[c].key, command |-> call[c].command,
                      digest |-> Digest(c), version |-> call[c].version,
                      state |-> state]}

CompleteIdempotency(c, version, state) ==
  idem' = idem \cup {[key |-> call[c].key, command |-> call[c].command,
                      digest |-> Digest(c), version |-> version, state |-> state]}

\* The transaction commits: result, audit events and outbox events together.
Commit(c, version, state, audits, events) ==
  /\ CompleteIdempotency(c, version, state)
  /\ audit' = audit \cup audits
  /\ outbox' = outbox \cup events
  /\ Reply(c, [state |-> state, version |-> version])
  /\ UNCHANGED now
=============================================================================
