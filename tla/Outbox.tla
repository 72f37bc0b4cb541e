------------------------------- MODULE Outbox -------------------------------
(***************************************************************************)
(* The durable outbox (packages/db/src/outbox-repository.ts): rows that    *)
(* workers claim under a lease, keep alive with heartbeats and settle.     *)
(* Every method runs in one SERIALIZABLE transaction, so each is one       *)
(* action.                                                                 *)
(*                                                                         *)
(* Time is kept relative to the present: `lease` is lease_expires_at - now *)
(* and `wait` is available_at - now, and Tick counts both down, so that    *)
(* time may pass forever in finitely many states.  A method compares its   *)
(* rows with observedAt, the caller's clock read BEFORE the transaction    *)
(* ran: the parameter `lag` is how far the present has moved past it.      *)
(* An unused clock (of a row that is not claimed, or not waiting) stands.  *)
(***************************************************************************)
EXTENDS Integers, FiniteSets

CONSTANTS Events,         \* outbox_event rows of type verus.anchor.requested
          Workers,        \* worker processes
          Refs,           \* worker references (lease_owner values)
          RefOf,          \* the reference each worker runs under
          Identities,     \* target identities (aggregate_reference)
          TargetOf,       \* the target identity of each event
          NoOwner,        \* SQL NULL in lease_owner
          LeaseDuration, MaxAttempts, BaseBackoff, MaxBackoff,
          MaxLag,         \* how stale an observedAt may be
          AttemptCap      \* model bound: attempts of one event explored

ASSUME OutboxAssumption ==
  /\ RefOf \in [Workers -> Refs]
  /\ TargetOf \in [Events -> Identities]
  /\ NoOwner \notin Refs
  /\ LeaseDuration \in Nat \ {0}
  /\ MaxAttempts \in Nat \ {0}
  /\ BaseBackoff \in Nat \ {0}
  /\ MaxBackoff \in Nat /\ MaxBackoff >= BaseBackoff
  /\ MaxLag \in Nat
  /\ AttemptCap \in Nat

VARIABLES ob,       \* outbox_event: the mutable columns of each row
          ledger    \* outbox_attempt: the append-only attempt rows

obVars == <<ob, ledger>>

OpenStates  == {"pending", "retryable_failed"}
FinalStates == {"succeeded", "terminal_failed", "dead_letter"}
OutboxStates == {"none", "claimed"} \cup OpenStates \cup FinalStates

Lags == 0 .. MaxLag

OutboxTypeOK ==
  /\ ob \in [Events -> [state : OutboxStates, owner : Refs \cup {NoOwner},
                        lease : Int, wait : Int, attempts : Nat]]
  /\ ledger \subseteq [event : Events, attempt : Nat, worker : Refs,
                       result : {"succeeded", "failed", "lease_expired"}]

-----------------------------------------------------------------------------
(* Guards and row values.                                                  *)

\* "t <= observedAt" for a time t relative to the present.
Reached(t, lag) == t + lag <= 0

\* Mutant: completed rows are not filtered out of the claim query.
ClaimableCompleted(e, lag) ==
  IF ob[e].state = "claimed" THEN Reached(ob[e].lease, lag)
  ELSE ob[e].state # "none" /\ Reached(ob[e].wait, lag)


Claimable(e, lag) ==
  \/ ob[e].state \in OpenStates /\ Reached(ob[e].wait, lag)
  \/ ob[e].state = "claimed" /\ Reached(ob[e].lease, lag)

\* Mutant: the NOT EXISTS clause misses a lease in its last unit of time.
NoOtherWriterOffByOne(e, lag) ==
  \A f \in Events \ {e} :
    ~ ( /\ TargetOf[f] = TargetOf[e]
        /\ ob[f].state = "claimed"
        /\ ob[f].lease + lag > 1 )

\* singleWriterByAggregate: no other live lease on the same target identity.
NoOtherWriter(e, lag) ==
  \A f \in Events \ {e} :
    ~ ( /\ TargetOf[f] = TargetOf[e]
        /\ ob[f].state = "claimed"
        /\ ~Reached(ob[f].lease, lag) )

\* The lease test of loadClaim and of VerusJobRepository.requireLease.
Holds(w, e, lag) ==
  /\ ob[e].state = "claimed"
  /\ ob[e].owner = RefOf[w]
  /\ ~Reached(ob[e].lease, lag)

\* recordAttempt.  A lost lease is recorded as "failed" with the error class
\* "lease_expired"; the two columns are one field here.
AttemptRow(e, ref, result) ==
  [event |-> e, attempt |-> ob[e].attempts, worker |-> ref, result |-> result]

Backoff(n) ==
  LET delay == BaseBackoff * 2 ^ (IF n > 1 THEN n - 1 ELSE 0)
  IN  IF delay < MaxBackoff THEN delay ELSE MaxBackoff

Leased(w, e, lag) ==
  [state |-> "claimed", owner |-> RefOf[w], lease |-> LeaseDuration - lag,
   wait |-> ob[e].wait, attempts |-> ob[e].attempts + 1]

Extended(e, lag) ==
  [state |-> "claimed", owner |-> ob[e].owner, lease |-> LeaseDuration - lag,
   wait |-> ob[e].wait, attempts |-> ob[e].attempts]

Released(e, state, wait) ==
  [state |-> state, owner |-> NoOwner, lease |-> 0, wait |-> wait,
   attempts |-> ob[e].attempts]

-----------------------------------------------------------------------------
(* The operations.                                                         *)

OutboxInit ==
  /\ ob = [e \in Events |-> [state |-> "none", owner |-> NoOwner,
                             lease |-> 0, wait |-> 0, attempts |-> 0]]
  /\ ledger = {}

InsertEvent(e) ==
  /\ ob[e].state = "none"
  /\ ob' = [ob EXCEPT ![e] = Released(e, "pending", 0)]
  /\ UNCHANGED ledger

\* Mutant: taking over an expired lease does not record the lost attempt.
ClaimNextUnrecorded(w, e, lag) ==
  /\ ob[e].attempts < AttemptCap
  /\ Claimable(e, lag)
  /\ NoOtherWriter(e, lag)
  /\ UNCHANGED ledger
  /\ ob' = [ob EXCEPT ![e] = Leased(w, e, lag)]

\* The query orders by available_at but SKIP LOCKED passes over rows that
\* concurrent transactions hold, so any claimable row may be the one taken.
ClaimNext(w, e, lag) ==
  /\ ob[e].attempts < AttemptCap
  /\ Claimable(e, lag)
  /\ NoOtherWriter(e, lag)
  /\ ledger' = IF ob[e].state = "claimed"
               THEN ledger \cup {AttemptRow(e, ob[e].owner, "lease_expired")}
               ELSE ledger
  /\ ob' = [ob EXCEPT ![e] = Leased(w, e, lag)]

Heartbeat(w, e, lag) ==
  /\ Holds(w, e, lag)
  /\ ob' = [ob EXCEPT ![e] = Extended(e, lag)]
  /\ UNCHANGED ledger

\* Mutant: a completed event is recorded with the failure result.
SucceedAsFailed(w, e, lag) ==
  /\ Holds(w, e, lag)
  /\ ledger' = ledger \cup {AttemptRow(e, RefOf[w], "failed")}
  /\ ob' = [ob EXCEPT ![e] = Released(e, "succeeded", ob[e].wait)]

Succeed(w, e, lag) ==
  /\ Holds(w, e, lag)
  /\ ledger' = ledger \cup {AttemptRow(e, RefOf[w], "succeeded")}
  /\ ob' = [ob EXCEPT ![e] = Released(e, "succeeded", ob[e].wait)]

\* Mutant: the budget allows one attempt more.
FailRetryableOneMore(w, e, lag) ==
  /\ Holds(w, e, lag)
  /\ ledger' = ledger \cup {AttemptRow(e, RefOf[w], "failed")}
  /\ LET exhausted == ob[e].attempts > MaxAttempts
         state == IF exhausted THEN "dead_letter" ELSE "retryable_failed"
     IN  ob' = [ob EXCEPT ![e] = Released(e, state,
                                          Backoff(ob[e].attempts) - lag)]

FailRetryable(w, e, lag) ==
  /\ Holds(w, e, lag)
  /\ ledger' = ledger \cup {AttemptRow(e, RefOf[w], "failed")}
  /\ LET exhausted == ob[e].attempts >= MaxAttempts
         state == IF exhausted THEN "dead_letter" ELSE "retryable_failed"
     IN  ob' = [ob EXCEPT ![e] = Released(e, state,
                                          Backoff(ob[e].attempts) - lag)]

\* Mutant: the attempt row is written after the lease columns were cleared.
FailTerminalLate(w, e, lag) ==
  /\ Holds(w, e, lag)
  /\ ledger' = ledger \cup {AttemptRow(e, NoOwner, "failed")}
  /\ ob' = [ob EXCEPT ![e] = Released(e, "terminal_failed", ob[e].wait)]

FailTerminal(w, e, lag) ==
  /\ Holds(w, e, lag)
  /\ ledger' = ledger \cup {AttemptRow(e, RefOf[w], "failed")}
  /\ ob' = [ob EXCEPT ![e] = Released(e, "terminal_failed", ob[e].wait)]

\* One unit of time.  Times further in the past than any observedAt can reach
\* compare alike, so the countdown stops there.
CountDown(t) == IF t > -MaxLag THEN t - 1 ELSE t

Later(e) ==
  [state |-> ob[e].state, owner |-> ob[e].owner,
   lease |-> IF ob[e].state = "claimed" THEN CountDown(ob[e].lease)
                                        ELSE ob[e].lease,
   wait |-> IF ob[e].state \in OpenStates THEN CountDown(ob[e].wait)
                                          ELSE ob[e].wait,
   attempts |-> ob[e].attempts]

TickOutbox ==
  /\ ob' = [e \in Events |-> Later(e)]
  /\ UNCHANGED ledger

OutboxNext ==
  \/ TickOutbox
  \/ \E e \in Events : InsertEvent(e)
  \/ \E w \in Workers, e \in Events, lag \in Lags :
       \/ ClaimNext(w, e, lag)
       \/ Heartbeat(w, e, lag)
       \/ Succeed(w, e, lag)
       \/ FailRetryable(w, e, lag)
       \/ FailTerminal(w, e, lag)

OutboxSpec == OutboxInit /\ [][OutboxNext]_obVars

-----------------------------------------------------------------------------
(* Properties.                                                             *)

RowsOf(e) == {a \in ledger : a.event = e}

\* The attempt history is complete and exact: the rows of an event number its
\* finished attempts 1, 2, ... with no gap and no duplicate, so that the unique
\* index on (outbox_event_id, attempt) never rejects recordAttempt, even when a
\* worker dies and another one takes its expired lease over.
AttemptLedger ==
  \A e \in Events :
    /\ \A a, b \in RowsOf(e) : a.attempt = b.attempt => a = b
    /\ {a.attempt : a \in RowsOf(e)}
         = 1 .. (IF ob[e].state = "claimed" THEN ob[e].attempts - 1
                                            ELSE ob[e].attempts)

\* An attempt is recorded as succeeded exactly when the event was settled by it,
\* and then it is the last one: no later claim can follow a success.
SuccessIsLast ==
  \A e \in Events :
    ob[e].state = "succeeded" <=>
      \E a \in RowsOf(e) : a.result = "succeeded" /\ a.attempt = ob[e].attempts

\* A lease that has not expired.
Live(e) == ob[e].state = "claimed" /\ ob[e].lease > 0

\* Work on one target identity is serialized: two events of the same identity
\* never hold unexpired leases together.  The architecture document says so and
\* claimNext's NOT EXISTS clause alone does not give it: no invariant if
\* MaxLag > 0.  What holds instead is OverlapOnlyByRevival.
SingleWriter ==
  \A e, f \in Events :
    e # f /\ TargetOf[e] = TargetOf[f] => ~(Live(e) /\ Live(f))

\* However stale the clocks, claimNext starts no work on a target identity next
\* to a live lease.  Two leases come to overlap in one way only: a heartbeat
\* that read the clock before its lease expired commits after another event of
\* the identity was claimed, less than MaxLag after the expiry.
OverlapOnlyByRevival ==
  [][ \A e, f \in Events :
        /\ e # f /\ TargetOf[e] = TargetOf[f]
        /\ ~(Live(e) /\ Live(f)) /\ (Live(e) /\ Live(f))'
        => \E g \in {e, f} :
             /\ ob[g].state = "claimed"
             /\ -MaxLag < ob[g].lease /\ ob[g].lease <= 0
             /\ ob'[g].owner = ob[g].owner /\ ob'[g].attempts = ob[g].attempts
    ]_obVars

\* maxAttempts is tested by failRetryable and by nothing else, so automatic
\* retry does not stop there, as the runbook has it, when workers die or lose
\* their leases.  But that is the only way past the budget: every attempt made
\* beyond it follows one that ended with its lease.
OverrunOnlyByExpiry ==
  \A e \in Events : \A a \in RowsOf(e) :
    MaxAttempts <= a.attempt /\ a.attempt < ob[e].attempts
      => a.result = "lease_expired"

\* A settled event never changes again and attempt rows are never removed: no
\* stale worker can reopen, re-settle or erase what another one finished.
SettledForever ==
  [][ /\ ledger \subseteq ledger'
      /\ \A e \in Events :
           ob[e].state \in FinalStates =>
             /\ ob'[e].state = ob[e].state
             /\ ob'[e].attempts = ob[e].attempts
    ]_obVars
=============================================================================
