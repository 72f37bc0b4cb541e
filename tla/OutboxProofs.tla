---------------------------- MODULE OutboxProofs ----------------------------
(***************************************************************************)
(* Theorems about the outbox, for any number of workers and events and any *)
(* durations, budgets and clock lags.                                      *)
(***************************************************************************)
EXTENDS Outbox, TLAPS

\* The delay of failRetryable is a number of time units.
LEMMA BackoffType ==
  ASSUME NEW n \in Nat
  PROVE  Backoff(n) \in Int
  BY OutboxAssumption DEF Backoff

\* Counting a clock down leaves it a number of time units.
LEMMA CountDownType ==
  ASSUME NEW t \in Int
  PROVE  CountDown(t) \in Int /\ CountDown(t) <= t
  BY OutboxAssumption DEF CountDown

Row == [state : OutboxStates, owner : Refs \cup {NoOwner},
        lease : Int, wait : Int, attempts : Nat]

AttemptRows == [event : Events, attempt : Nat, worker : Refs,
                result : {"succeeded", "failed", "lease_expired"}]

\* The lease columns are set exactly on a claimed row (the CHECK constraint
\* outbox_lease_consistent), and a claim is a numbered attempt.
LeaseColumns ==
  \A e \in Events : ob[e].state = "claimed" =>
                      ob[e].owner \in Refs /\ ob[e].attempts > 0

TypeInv == OutboxTypeOK /\ LeaseColumns

\* The empty outbox is well-typed.
LEMMA TypeInit == OutboxInit => TypeInv
  BY OutboxAssumption DEF OutboxInit, TypeInv, OutboxTypeOK, LeaseColumns,
                          OutboxStates, OpenStates, FinalStates

\* Each operation replaces one row by a well-typed row and adds at most one
\* well-typed attempt row; time only moves the clocks.
LEMMA TypeStep == TypeInv /\ [OutboxNext]_obVars => TypeInv'
<1> SUFFICES ASSUME TypeInv, [OutboxNext]_obVars PROVE TypeInv'
  OBVIOUS
<1> USE OutboxAssumption DEF TypeInv, OutboxTypeOK, LeaseColumns,
                             OutboxStates, OpenStates, FinalStates
<1>a. ASSUME NEW e \in Events, NEW r \in Row,
             r.state = "claimed" => r.owner \in Refs /\ r.attempts > 0,
             ob' = [ob EXCEPT ![e] = r],
             ledger' = ledger \/ \E a \in AttemptRows : ledger' = ledger \cup {a}
      PROVE  TypeInv'
  BY <1>a DEF Row, AttemptRows
<1>1. CASE TickOutbox
  BY <1>1, CountDownType DEF TickOutbox, Later
<1>2. ASSUME NEW e \in Events, InsertEvent(e) PROVE TypeInv'
  BY <1>2 DEF InsertEvent, Released
<1>3. ASSUME NEW w \in Workers, NEW e \in Events, NEW lag \in Lags
      PROVE  /\ ClaimNext(w, e, lag) => TypeInv'
             /\ Heartbeat(w, e, lag) => TypeInv'
             /\ Succeed(w, e, lag) => TypeInv'
             /\ FailRetryable(w, e, lag) => TypeInv'
             /\ FailTerminal(w, e, lag) => TypeInv'
  <2>0. ob[e] \in Row /\ lag \in Nat /\ RefOf[w] \in Refs
    BY <1>3 DEF Row, Lags
  <2>r. ASSUME NEW state \in OutboxStates \ {"claimed"}, NEW wait \in Int
        PROVE  /\ Released(e, state, wait) \in Row
               /\ Released(e, state, wait).state = state
    BY <2>0, <2>r DEF Released, Row
  <2>a. ASSUME NEW ref \in Refs, NEW result \in {"succeeded", "failed", "lease_expired"}
        PROVE  AttemptRow(e, ref, result) \in AttemptRows
    BY <2>0, <2>a DEF AttemptRow, AttemptRows, Row
  <2>1. ASSUME ClaimNext(w, e, lag) PROVE TypeInv'
    <3>1. Leased(w, e, lag) \in Row /\ Leased(w, e, lag).attempts > 0
          /\ Leased(w, e, lag).owner \in Refs
      BY <2>0 DEF Leased, Row
    <3>2. ob[e].state = "claimed" => ob[e].owner \in Refs
      BY <1>3
    <3> QED BY <1>a, <2>1, <2>a, <3>1, <3>2, Zenon DEF ClaimNext
  <2>2. ASSUME Heartbeat(w, e, lag) PROVE TypeInv'
    <3>1. ob[e].owner = RefOf[w] /\ ob[e].state = "claimed"
      BY <2>2 DEF Heartbeat, Holds
    <3>2. Extended(e, lag) \in Row /\ Extended(e, lag).attempts > 0
          /\ Extended(e, lag).owner \in Refs
      BY <2>0, <3>1 DEF Extended, Row
    <3> QED BY <1>a, <2>2, <3>2, Zenon DEF Heartbeat
  <2>s. ASSUME NEW state \in OutboxStates \ {"claimed"}, NEW wait \in Int,
               NEW result \in {"succeeded", "failed", "lease_expired"},
               ledger' = ledger \cup {AttemptRow(e, RefOf[w], result)},
               ob' = [ob EXCEPT ![e] = Released(e, state, wait)]
        PROVE  TypeInv'
    <3>1. Released(e, state, wait) \in Row /\ Released(e, state, wait).state # "claimed"
      BY <2>r
    <3>2. AttemptRow(e, RefOf[w], result) \in AttemptRows
      BY <2>a, <2>0
    <3> QED BY <1>a, <2>s, <3>1, <3>2, Zenon
  <2>t. ob[e].wait \in Int /\ Backoff(ob[e].attempts) - lag \in Int
    BY <2>0, BackoffType DEF Row
  <2>3. ASSUME Succeed(w, e, lag) PROVE TypeInv'
    <3>1. "succeeded" \in OutboxStates \ {"claimed"}
      OBVIOUS
    <3> QED BY <2>s, <2>t, <2>3, <3>1, Zenon DEF Succeed
  <2>4. ASSUME FailRetryable(w, e, lag) PROVE TypeInv'
    <3>1. {"dead_letter", "retryable_failed"} \subseteq OutboxStates \ {"claimed"}
      OBVIOUS
    <3>2. PICK state \in {"dead_letter", "retryable_failed"} :
            ob' = [ob EXCEPT ![e] = Released(e, state, Backoff(ob[e].attempts) - lag)]
      BY <2>4 DEF FailRetryable
    <3> QED BY <2>s, <2>t, <2>4, <3>1, <3>2, Zenon DEF FailRetryable
  <2>5. ASSUME FailTerminal(w, e, lag) PROVE TypeInv'
    <3>1. "terminal_failed" \in OutboxStates \ {"claimed"}
      OBVIOUS
    <3> QED BY <2>s, <2>t, <2>5, <3>1, Zenon DEF FailTerminal
  <2> QED BY <2>1, <2>2, <2>3, <2>4, <2>5
<1>4. CASE UNCHANGED obVars
  BY <1>4 DEF obVars
<1> QED BY <1>1, <1>2, <1>3, <1>4 DEF OutboxNext

\* Every row of the outbox and every attempt row is well-typed in every
\* reachable state: no operation writes a state, an owner or a result that the
\* columns cannot hold.
THEOREM OutboxTypeCorrect == OutboxSpec => []OutboxTypeOK
<1>1. OutboxSpec => []TypeInv
  BY TypeInit, TypeStep, PTL DEF OutboxSpec
<1>2. TypeInv => OutboxTypeOK
  BY DEF TypeInv
<1> QED BY <1>1, <1>2, PTL

-----------------------------------------------------------------------------
(* The steps of the outbox, without clocks and workers: what the invariants *)
(* below depend on.                                                         *)

Kept(e) == ob'[e].state = ob[e].state /\ ob'[e].attempts = ob[e].attempts

Opens(e) ==
  /\ ob[e].state = "none" /\ ob'[e].state = "pending"
  /\ ob'[e].attempts = ob[e].attempts
  /\ ledger' = ledger

Claims(e) ==
  /\ ob[e].state \in OpenStates /\ ob'[e].state = "claimed"
  /\ ob'[e].attempts = ob[e].attempts + 1
  /\ ledger' = ledger

Records(e, a) ==
  /\ a \in AttemptRows /\ a.event = e /\ a.attempt = ob[e].attempts
  /\ ledger' = ledger \cup {a}

TakesOver(e) ==
  /\ ob[e].state = "claimed" /\ ob'[e].state = "claimed"
  /\ ob'[e].attempts = ob[e].attempts + 1
  /\ \E a \in AttemptRows : Records(e, a) /\ a.result = "lease_expired"

Settles(e) ==
  /\ ob[e].state = "claimed"
  /\ ob'[e].state \in FinalStates \cup {"retryable_failed"}
  /\ ob'[e].attempts = ob[e].attempts
  /\ ob'[e].state = "retryable_failed" => ob[e].attempts < MaxAttempts
  /\ ob'[e].state = "dead_letter" => ob[e].attempts >= MaxAttempts
  /\ \E a \in AttemptRows :
       Records(e, a) /\ (a.result = "succeeded" <=> ob'[e].state = "succeeded")

StepOf(e) ==
  /\ \A f \in Events \ {e} : Kept(f)
  /\ Opens(e) \/ Claims(e) \/ TakesOver(e) \/ Settles(e)

Quiet == ledger' = ledger /\ \A e \in Events : Kept(e)

\* Every step opens, claims, takes over or settles one event, or changes no
\* event's state at all.
LEMMA StepShape ==
  ASSUME TypeInv, [OutboxNext]_obVars
  PROVE  Quiet \/ \E e \in Events : StepOf(e)
<1> USE DEF TypeInv, OutboxTypeOK
<1>1. CASE TickOutbox
  BY <1>1 DEF TickOutbox, Later, Quiet, Kept
<1>2. ASSUME NEW e \in Events, InsertEvent(e) PROVE StepOf(e)
  BY <1>2 DEF InsertEvent, Released, StepOf, Opens, Kept
<1>3. ASSUME NEW w \in Workers, NEW e \in Events, NEW lag \in Lags
      PROVE  /\ ClaimNext(w, e, lag) => StepOf(e)
             /\ Heartbeat(w, e, lag) => Quiet
             /\ Succeed(w, e, lag) => StepOf(e)
             /\ FailRetryable(w, e, lag) => StepOf(e)
             /\ FailTerminal(w, e, lag) => StepOf(e)
  <2>0. RefOf[w] \in Refs /\ ob[e].attempts \in Nat
    BY OutboxAssumption
  <2>a. ASSUME NEW ref \in Refs,
               NEW result \in {"succeeded", "failed", "lease_expired"},
               ledger' = ledger \cup {AttemptRow(e, ref, result)}
        PROVE  /\ Records(e, AttemptRow(e, ref, result))
               /\ AttemptRow(e, ref, result) \in AttemptRows
               /\ AttemptRow(e, ref, result).result = result
    BY <2>0, <2>a DEF Records, AttemptRow, AttemptRows
  <2>k. ASSUME NEW r, ob' = [ob EXCEPT ![e] = r]
        PROVE  ob'[e] = r /\ \A f \in Events \ {e} : Kept(f)
    BY <2>k DEF Kept
  <2>1. ASSUME ClaimNext(w, e, lag) PROVE StepOf(e)
    <3>1. ob'[e].state = "claimed" /\ ob'[e].attempts = ob[e].attempts + 1
          /\ \A f \in Events \ {e} : Kept(f)
      BY <2>k, <2>1 DEF ClaimNext, Leased
    <3>2. CASE ob[e].state = "claimed"
      <4>1. ob[e].owner \in Refs
        BY <3>2 DEF LeaseColumns
      <4>2. ledger' = ledger \cup {AttemptRow(e, ob[e].owner, "lease_expired")}
        BY <2>1, <3>2 DEF ClaimNext
      <4>3. TakesOver(e)
        BY <2>a, <3>1, <3>2, <4>1, <4>2 DEF TakesOver
      <4> QED BY <3>1, <4>3 DEF StepOf
    <3>3. CASE ob[e].state # "claimed"
      <4>1. Claims(e)
        BY <2>1, <3>1, <3>3 DEF ClaimNext, Claimable, Claims
      <4> QED BY <3>1, <4>1 DEF StepOf
    <3> QED BY <3>2, <3>3
  <2>2. ASSUME Heartbeat(w, e, lag) PROVE Quiet
    BY <2>2 DEF Heartbeat, Holds, Extended, Quiet, Kept
  <2>s. ASSUME NEW state, NEW wait, NEW result \in {"succeeded", "failed"},
               state \in FinalStates \cup {"retryable_failed"},
               result = "succeeded" <=> state = "succeeded",
               state = "retryable_failed" => ob[e].attempts < MaxAttempts,
               state = "dead_letter" => ob[e].attempts >= MaxAttempts,
               ob[e].state = "claimed",
               ledger' = ledger \cup {AttemptRow(e, RefOf[w], result)},
               ob' = [ob EXCEPT ![e] = Released(e, state, wait)]
        PROVE  StepOf(e)
    <3>1. ob'[e].state = state /\ ob'[e].attempts = ob[e].attempts
          /\ \A f \in Events \ {e} : Kept(f)
      BY <2>k, <2>s DEF Released
    <3>2. \E a \in AttemptRows : Records(e, a) /\ a.result = result
      BY <2>a, <2>0, <2>s
    <3>3. Settles(e)
      BY <2>s, <3>1, <3>2 DEF Settles
    <3> QED BY <3>1, <3>3 DEF StepOf
  <2>3. ASSUME Succeed(w, e, lag) PROVE StepOf(e)
    <3> DEFINE wait == ob[e].wait
    <3>1. /\ ob[e].state = "claimed"
          /\ ledger' = ledger \cup {AttemptRow(e, RefOf[w], "succeeded")}
          /\ ob' = [ob EXCEPT ![e] = Released(e, "succeeded", wait)]
      BY <2>3 DEF Succeed, Holds
    <3> HIDE DEF TypeInv, OutboxTypeOK, wait
    <3> QED BY <2>s, <3>1 DEF FinalStates
  <2>4. ASSUME FailRetryable(w, e, lag) PROVE StepOf(e)
    <3>0. /\ ob[e].state = "claimed"
          /\ ledger' = ledger \cup {AttemptRow(e, RefOf[w], "failed")}
      BY <2>4 DEF FailRetryable, Holds
    <3> DEFINE wait == Backoff(ob[e].attempts) - lag
    <3>1. CASE ob[e].attempts >= MaxAttempts
      <4>1. ob' = [ob EXCEPT ![e] = Released(e, "dead_letter", wait)]
        BY <2>4, <3>1 DEF FailRetryable
      <4> HIDE DEF TypeInv, OutboxTypeOK, wait
      <4> QED BY <2>s, <3>0, <3>1, <4>1 DEF FinalStates
    <3>2. CASE ~(ob[e].attempts >= MaxAttempts)
      <4>1. ob' = [ob EXCEPT ![e] = Released(e, "retryable_failed", wait)]
        BY <2>4, <3>2 DEF FailRetryable
      <4>2. ob[e].attempts < MaxAttempts
        BY <2>0, <3>2, OutboxAssumption
      <4> HIDE DEF TypeInv, OutboxTypeOK, wait
      <4> QED BY <2>s, <3>0, <4>1, <4>2 DEF FinalStates
    <3> QED BY <3>1, <3>2
  <2>5. ASSUME FailTerminal(w, e, lag) PROVE StepOf(e)
    <3> DEFINE wait == ob[e].wait
    <3>1. /\ ob[e].state = "claimed"
          /\ ledger' = ledger \cup {AttemptRow(e, RefOf[w], "failed")}
          /\ ob' = [ob EXCEPT ![e] = Released(e, "terminal_failed", wait)]
      BY <2>5 DEF FailTerminal, Holds
    <3> HIDE DEF TypeInv, OutboxTypeOK, wait
    <3> QED BY <2>s, <3>1 DEF FinalStates
  <2> QED BY <2>1, <2>2, <2>3, <2>4, <2>5
<1>4. CASE UNCHANGED obVars
  BY <1>4 DEF obVars, Quiet, Kept
<1> QED BY <1>1, <1>2, <1>3, <1>4 DEF OutboxNext

-----------------------------------------------------------------------------
(* The attempt ledger.                                                     *)

\* The number of finished attempts of an event.
Done(e) == IF ob[e].state = "claimed" THEN ob[e].attempts - 1 ELSE ob[e].attempts

\* AttemptLedger without set comprehensions, in the form a step preserves.
LedgerInv ==
  /\ \A a, b \in ledger : a.event = b.event /\ a.attempt = b.attempt => a = b
  /\ \A a \in ledger : 1 <= a.attempt /\ a.attempt <= Done(a.event)
  /\ \A e \in Events : \A n \in Nat :
       1 <= n /\ n <= Done(e) => \E a \in ledger : a.event = e /\ a.attempt = n

\* No attempt has been made of an event that does not exist.
LEMMA LedgerInit == OutboxInit => LedgerInv
  BY DEF OutboxInit, LedgerInv, Done

\* A step adds the row of the attempt that it finishes, numbered one above the
\* rows that are there, or neither adds a row nor finishes an attempt.
LEMMA LedgerStep == TypeInv /\ LedgerInv /\ [OutboxNext]_obVars => LedgerInv'
<1> SUFFICES ASSUME TypeInv, LedgerInv, [OutboxNext]_obVars PROVE LedgerInv'
  OBVIOUS
<1>0. /\ \A e \in Events : ob[e].attempts \in Nat
      /\ \A e \in Events : Done(e) \in Nat
      /\ ledger \subseteq AttemptRows
  BY DEF TypeInv, OutboxTypeOK, LeaseColumns, AttemptRows, Done
<1>1. ASSUME ledger' = ledger, \A e \in Events : Done(e)' = Done(e)
      PROVE  LedgerInv'
  BY <1>0, <1>1 DEF LedgerInv, AttemptRows
<1>2. ASSUME NEW e \in Events, NEW a \in AttemptRows, Records(e, a),
             ob[e].state = "claimed", Done(e)' = ob[e].attempts,
             \A f \in Events \ {e} : Done(f)' = Done(f)
      PROVE  LedgerInv'
  <2>1. ob[e].attempts = Done(e) + 1
    BY <1>0, <1>2 DEF Done
  <2>2. \A b, c \in ledger' : b.event = c.event /\ b.attempt = c.attempt => b = c
    BY <1>0, <1>2, <2>1 DEF LedgerInv, Records, AttemptRows
  <2>3. \A b \in ledger' : 1 <= b.attempt /\ b.attempt <= Done(b.event)'
    BY <1>0, <1>2, <2>1 DEF LedgerInv, Records, AttemptRows
  <2>4. ASSUME NEW f \in Events, NEW n \in Nat, 1 <= n, n <= Done(f)'
        PROVE  \E b \in ledger' : b.event = f /\ b.attempt = n
    <3>1. CASE f = e /\ n = ob[e].attempts
      BY <1>2, <3>1 DEF Records
    <3>2. CASE ~(f = e /\ n = ob[e].attempts)
      <4>1. n <= Done(f)
        BY <1>0, <1>2, <2>1, <2>4, <3>2
      <4> QED BY <1>2, <2>4, <4>1 DEF LedgerInv, Records
    <3> QED BY <3>1, <3>2
  <2> QED BY <2>2, <2>3, <2>4 DEF LedgerInv
<1>3. CASE Quiet
  BY <1>1, <1>3 DEF Quiet, Kept, Done
<1>4. ASSUME NEW e \in Events, StepOf(e) PROVE LedgerInv'
  <2>1. \A f \in Events \ {e} : Done(f)' = Done(f)
    BY <1>4 DEF StepOf, Kept, Done
  <2>2. CASE Opens(e) \/ Claims(e)
    <3>1. Done(e)' = Done(e)
      BY <1>0, <2>2 DEF Opens, Claims, Done, OpenStates
    <3> QED BY <1>1, <2>1, <2>2, <3>1 DEF Opens, Claims
  <2>3. CASE TakesOver(e)
    <3>1. Done(e)' = ob[e].attempts
      BY <1>0, <2>3 DEF TakesOver, Done
    <3> QED BY <1>2, <2>1, <2>3, <3>1 DEF TakesOver
  <2>4. CASE Settles(e)
    <3>1. Done(e)' = ob[e].attempts
      BY <2>4 DEF Settles, Done, FinalStates
    <3> QED BY <1>2, <2>1, <2>4, <3>1 DEF Settles
  <2> QED BY <1>4, <2>2, <2>3, <2>4 DEF StepOf
<1> QED BY <1>3, <1>4, StepShape

\* The attempt rows of every event are numbered 1, 2, ... up to its last
\* finished attempt, each once: recordAttempt never meets its unique index,
\* whatever workers die, lose leases and take them over.
THEOREM OutboxLedgerExact == OutboxSpec => []AttemptLedger
<1>1. OutboxInit => TypeInv /\ LedgerInv
  BY TypeInit, LedgerInit
<1>2. TypeInv /\ LedgerInv /\ [OutboxNext]_obVars => TypeInv' /\ LedgerInv'
  BY TypeStep, LedgerStep
<1>3. TypeInv /\ LedgerInv => AttemptLedger
  <2> SUFFICES ASSUME TypeInv, LedgerInv, NEW e \in Events
               PROVE  /\ \A a, b \in RowsOf(e) : a.attempt = b.attempt => a = b
                      /\ {a.attempt : a \in RowsOf(e)} = 1 .. Done(e)
    BY DEF AttemptLedger, Done
  <2>1. Done(e) \in Nat /\ \A a \in ledger : a.attempt \in Nat
    BY DEF TypeInv, OutboxTypeOK, LeaseColumns, Done
  <2> QED BY <2>1 DEF LedgerInv, RowsOf
<1> QED BY <1>1, <1>2, <1>3, PTL DEF OutboxSpec

-----------------------------------------------------------------------------
(* Success and finality.                                                   *)

\* Stronger than SuccessIsLast: a row with result succeeded, whatever its
\* number, belongs to an event that succeeded and stays so.
SuccessInv ==
  /\ \A a \in ledger : a.result = "succeeded" => ob[a.event].state = "succeeded"
  /\ \A e \in Events : ob[e].state = "succeeded" =>
       \E a \in ledger : /\ a.event = e /\ a.result = "succeeded"
                         /\ a.attempt = ob[e].attempts

\* A success row is added only by the step that makes its event succeeded, and
\* no step changes an event that is.
LEMMA SuccessStep == TypeInv /\ SuccessInv /\ [OutboxNext]_obVars => SuccessInv'
<1> SUFFICES ASSUME TypeInv, SuccessInv, [OutboxNext]_obVars PROVE SuccessInv'
  OBVIOUS
<1>0. ledger \subseteq AttemptRows
  BY DEF TypeInv, OutboxTypeOK, AttemptRows
<1>1. CASE Quiet
  BY <1>0, <1>1 DEF Quiet, Kept, SuccessInv, AttemptRows
<1>2. ASSUME NEW e \in Events, StepOf(e) PROVE SuccessInv'
  <2>1. CASE Opens(e) \/ Claims(e)
    BY <1>0, <1>2, <2>1
    DEF StepOf, Kept, Opens, Claims, OpenStates, SuccessInv, AttemptRows
  <2>2. CASE TakesOver(e)
    BY <1>0, <1>2, <2>2 DEF StepOf, Kept, TakesOver, Records, SuccessInv, AttemptRows
  <2>3. CASE Settles(e)
    BY <1>0, <1>2, <2>3 DEF StepOf, Kept, Settles, Records, SuccessInv, AttemptRows
  <2> QED BY <1>2, <2>1, <2>2, <2>3 DEF StepOf
<1> QED BY <1>1, <1>2, StepShape

\* An event is succeeded exactly when its last attempt is recorded as such.
THEOREM OutboxSuccessLast == OutboxSpec => []SuccessIsLast
<1>1. OutboxInit => TypeInv /\ SuccessInv
  BY TypeInit DEF OutboxInit, SuccessInv
<1>2. TypeInv /\ SuccessInv /\ [OutboxNext]_obVars => TypeInv' /\ SuccessInv'
  BY TypeStep, SuccessStep
<1>3. SuccessInv => SuccessIsLast
  BY DEF SuccessInv, SuccessIsLast, RowsOf
<1> QED BY <1>1, <1>2, <1>3, PTL DEF OutboxSpec

\* Stronger than OverrunOnlyByExpiry: an attempt at or past the budget that was
\* settled by its worker was the last one.
OverrunInv ==
  \A a \in ledger :
    a.result # "lease_expired" /\ MaxAttempts <= a.attempt =>
      ob[a.event].state \in FinalStates /\ a.attempt = ob[a.event].attempts

\* A worker's own settling leaves the event open only below the budget, and no
\* step makes another attempt of a settled event.
LEMMA OverrunStep == TypeInv /\ OverrunInv /\ [OutboxNext]_obVars => OverrunInv'
<1> SUFFICES ASSUME TypeInv, OverrunInv, [OutboxNext]_obVars PROVE OverrunInv'
  OBVIOUS
<1>0. ledger \subseteq AttemptRows /\ MaxAttempts \in Nat
      /\ \A e \in Events : ob[e].attempts \in Nat
  BY OutboxAssumption DEF TypeInv, OutboxTypeOK, AttemptRows
<1>1. CASE Quiet
  BY <1>0, <1>1 DEF Quiet, Kept, OverrunInv, AttemptRows
<1>2. ASSUME NEW e \in Events, StepOf(e) PROVE OverrunInv'
  <2>1. CASE Opens(e) \/ Claims(e)
    BY <1>0, <1>2, <2>1
    DEF StepOf, Kept, Opens, Claims, OpenStates, FinalStates, OverrunInv, AttemptRows
  <2>2. CASE TakesOver(e)
    BY <1>0, <1>2, <2>2
    DEF StepOf, Kept, TakesOver, Records, FinalStates, OverrunInv, AttemptRows
  <2>3. CASE Settles(e)
    BY <1>0, <1>2, <2>3
    DEF StepOf, Kept, Settles, Records, FinalStates, OverrunInv, AttemptRows
  <2> QED BY <1>2, <2>1, <2>2, <2>3 DEF StepOf
<1> QED BY <1>1, <1>2, StepShape

\* Every attempt made beyond maxAttempts follows one that ended with its lease.
THEOREM OutboxOverrunOnlyByExpiry == OutboxSpec => []OverrunOnlyByExpiry
<1>1. OutboxInit => TypeInv /\ OverrunInv
  BY TypeInit DEF OutboxInit, OverrunInv
<1>2. TypeInv /\ OverrunInv /\ [OutboxNext]_obVars => TypeInv' /\ OverrunInv'
  BY TypeStep, OverrunStep
<1>3. TypeInv /\ OverrunInv => OverrunOnlyByExpiry
  BY DEF TypeInv, OutboxTypeOK, OverrunInv, OverrunOnlyByExpiry, RowsOf
<1> QED BY <1>1, <1>2, <1>3, PTL DEF OutboxSpec

\* Once an event has succeeded, failed terminally or become a dead letter no
\* operation changes it, and attempt rows are only ever added.
THEOREM OutboxSettledForever == OutboxSpec => SettledForever
<1>1. OutboxSpec => []TypeInv
  BY TypeInit, TypeStep, PTL DEF OutboxSpec
<1> DEFINE Keeps == /\ ledger \subseteq ledger'
                    /\ \A e \in Events :
                         ob[e].state \in FinalStates =>
                           /\ ob'[e].state = ob[e].state
                           /\ ob'[e].attempts = ob[e].attempts
<1>2. TypeInv /\ [OutboxNext]_obVars => [Keeps]_obVars
  <2> SUFFICES ASSUME TypeInv, [OutboxNext]_obVars PROVE Keeps
    OBVIOUS
  <2>1. CASE Quiet
    BY <2>1 DEF Quiet, Kept
  <2>2. ASSUME NEW e \in Events, StepOf(e) PROVE Keeps
    BY <2>2 DEF StepOf, Kept, Opens, Claims, TakesOver, Settles, Records,
                OpenStates, FinalStates
  <2> QED BY <2>1, <2>2, StepShape
<1> QED BY <1>1, <1>2, PTL DEF OutboxSpec, SettledForever

-----------------------------------------------------------------------------
(* Mutual exclusion per target identity.                                   *)

\* What OverlapOnlyByRevival says of two events and one step.
Revived(e, f) ==
  \E g \in {e, f} :
    /\ ob[g].state = "claimed"
    /\ -MaxLag < ob[g].lease /\ ob[g].lease <= 0
    /\ ob'[g].owner = ob[g].owner /\ ob'[g].attempts = ob[g].attempts

Overlaps(e, f) == Live(e) /\ Live(f)

\* A claim, however late, waits until the other leases of the identity have run
\* out; a heartbeat revives at most its own lease, and that lease is the one of
\* the same attempt; every other operation leaves no lease or no longer a lease.
LEMMA OverlapStep ==
  ASSUME TypeInv, [OutboxNext]_obVars,
         NEW e \in Events, NEW f \in Events, e # f, TargetOf[e] = TargetOf[f],
         ~Overlaps(e, f), Overlaps(e, f)'
  PROVE  Revived(e, f)
<1> USE OutboxAssumption DEF TypeInv, OutboxTypeOK, Live, Overlaps
<1>1. CASE TickOutbox
  <2>1. ASSUME NEW x \in Events, Live(x)' PROVE Live(x)
    BY <1>1, <2>1, CountDownType DEF TickOutbox, Later
  <2> QED BY <2>1
<1>2. ASSUME NEW x \in Events, ob'[x].state # "claimed",
             \A y \in Events \ {x} : ob'[y] = ob[y]
      PROVE  FALSE
  BY <1>2
<1>3. ASSUME NEW x \in Events, InsertEvent(x) PROVE FALSE
  BY <1>2, <1>3 DEF InsertEvent, Released
<1>4. ASSUME NEW w \in Workers, NEW x \in Events, NEW lag \in Lags
      PROVE  /\ ClaimNext(w, x, lag) => FALSE
             /\ Heartbeat(w, x, lag) => Revived(e, f)
             /\ Succeed(w, x, lag) => FALSE
             /\ FailRetryable(w, x, lag) => FALSE
             /\ FailTerminal(w, x, lag) => FALSE
  <2>0. lag \in Nat /\ lag <= MaxLag
    BY DEF Lags
  <2>1. ASSUME ClaimNext(w, x, lag) PROVE FALSE
    <3>1. \A y \in Events \ {x} : ob'[y] = ob[y]
      BY <2>1 DEF ClaimNext
    <3>2. \A y \in Events \ {x} : TargetOf[y] = TargetOf[x] => ~Live(y)
      BY <2>0, <2>1 DEF ClaimNext, NoOtherWriter, Reached
    <3> QED BY <3>1, <3>2
  <2>2. ASSUME Heartbeat(w, x, lag) PROVE Revived(e, f)
    <3>1. /\ ob[x].state = "claimed" /\ ob[x].lease > -MaxLag
          /\ ob' = [ob EXCEPT ![x] = Extended(x, lag)]
      BY <2>0, <2>2 DEF Heartbeat, Holds, Reached
    <3>2. ob'[x].owner = ob[x].owner /\ ob'[x].attempts = ob[x].attempts
      BY <3>1 DEF Extended
    <3>3. x \in {e, f} /\ ~Live(x)
      BY <3>1
    <3> QED BY <3>1, <3>2, <3>3 DEF Revived
  <2>3. ASSUME Succeed(w, x, lag) PROVE FALSE
    BY <1>2, <2>3 DEF Succeed, Released
  <2>4. ASSUME FailRetryable(w, x, lag) PROVE FALSE
    BY <1>2, <2>4 DEF FailRetryable, Released
  <2>5. ASSUME FailTerminal(w, x, lag) PROVE FALSE
    BY <1>2, <2>5 DEF FailTerminal, Released
  <2> QED BY <2>1, <2>2, <2>3, <2>4, <2>5
<1>5. CASE UNCHANGED obVars
  BY <1>5 DEF obVars
<1> QED BY <1>1, <1>3, <1>4, <1>5 DEF OutboxNext

\* Whatever clocks the workers read, two live leases of one target identity
\* come about only when a late heartbeat revives an expired one.
THEOREM OutboxOverlapOnlyByRevival == OutboxSpec => OverlapOnlyByRevival
<1>1. OutboxSpec => []TypeInv
  BY TypeInit, TypeStep, PTL DEF OutboxSpec
<1> DEFINE Explained ==
      \A e, f \in Events :
        /\ e # f /\ TargetOf[e] = TargetOf[f]
        /\ ~(Live(e) /\ Live(f)) /\ (Live(e) /\ Live(f))'
        => \E g \in {e, f} :
             /\ ob[g].state = "claimed"
             /\ -MaxLag < ob[g].lease /\ ob[g].lease <= 0
             /\ ob'[g].owner = ob[g].owner /\ ob'[g].attempts = ob[g].attempts
<1>2. TypeInv /\ [OutboxNext]_obVars => [Explained]_obVars
  BY OverlapStep DEF Revived, Overlaps
<1> QED BY <1>1, <1>2, PTL DEF OutboxSpec, OverlapOnlyByRevival
=============================================================================
