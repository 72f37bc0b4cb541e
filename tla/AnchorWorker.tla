---------------------------- MODULE AnchorWorker ----------------------------
(***************************************************************************)
(* The anchor pipeline: VerusAnchorWorker.processNext                      *)
(* (apps/worker/src/verus-worker.ts) run by several worker processes over  *)
(* the outbox (module Outbox), the verus_job and anchor_record tables      *)
(* (packages/db/src/verus-job-repository.ts) and a VRSCTEST node that      *)
(* takes identity updates, mines them and may reorganize them away.        *)
(*                                                                         *)
(* A worker is a program counter `pc` and what processNext holds in local  *)
(* variables; a step is one database transaction or one RPC.  A process    *)
(* that crashes, or whose transaction is refused, forgets its locals and   *)
(* goes back to polling: only the tables survive.                          *)
(***************************************************************************)
EXTENDS Outbox

CONSTANTS NoTx,           \* SQL NULL in transaction_id
          WriteTimeout,   \* writeTimeoutMs of the RPC adapter
          Faults,         \* the faults of the environment that may happen
          CrashBound,     \* model bound: the last attempt a process crashes in
          MaxWrites,      \* model bound: updateidentity calls per event
          MaxHeight       \* model bound: blocks that carry an update

FaultKinds == {"crash", "slow", "read_fails", "write_unknown", "reorg"}

TxIds == Events \X (1 .. MaxWrites)

ASSUME WorkerAssumption ==
  /\ Events # {}
  /\ WriteTimeout \in Nat \ {0}
  /\ Faults \subseteq FaultKinds
  /\ CrashBound \in Nat /\ MaxWrites \in Nat /\ MaxHeight \in Nat
  /\ NoTx \notin TxIds

VARIABLES job,       \* verus_job: state, transaction, block and ambiguity flag
          anchor,    \* anchor_record: state
          wk,        \* the workers' program counters and local variables
          tx,        \* the node's view of each updateidentity call
          height     \* blocks mined so far

vars == <<ob, ledger, job, anchor, wk, tx, height>>

TxStates == {"unsent", "sent", "rejected", "mempool", "mined", "orphaned"}

JobStates == {"none", "pending", "claimed", "preflight", "submitted",
              "confirming", "readback", "verified", "retryable_failed",
              "terminal_failed", "reorg_pending"}
\* Mutant: a job that failed terminally can be claimed again.
ResumableTerminal ==
  {"pending", "retryable_failed", "reorg_pending", "terminal_failed"}

Resumable == {"pending", "retryable_failed", "reorg_pending"}

InProgress == {"preflight", "submitted", "confirming", "readback"}

Pcs == {"idle", "load", "run", "beat", "search", "write", "writing", "record",
        "confirmed", "reorged", "matched", "failed", "settle", "bury"}

Error(retryable, ambiguous) ==
  [retryable |-> retryable, ambiguous |-> ambiguous]

\* The local variables of processNext: the claim (event, attempt), the job
\* record of the last call (js, tx, amb), the block the confirmation named, the
\* time left to an updateidentity call, and the error being handled.
Idle == [pc |-> "idle", event |-> CHOOSE e \in Events : TRUE, attempt |-> 0,
         js |-> "none", tx |-> NoTx, amb |-> FALSE, block |-> 0,
         timer |-> 0, err |-> Error(FALSE, FALSE)]

TypeOK ==
  /\ OutboxTypeOK
  /\ job \in [Events -> [state : JobStates, tx : TxIds \cup {NoTx},
                         block : Nat, amb : BOOLEAN]]
  /\ anchor \in [Events -> JobStates \ {"claimed", "preflight"}]
  /\ wk \in [Workers -> [pc : Pcs, event : Events, attempt : Nat,
                         js : JobStates, tx : TxIds \cup {NoTx}, amb : BOOLEAN,
                         block : Nat, timer : 0 .. WriteTimeout,
                         err : [retryable : BOOLEAN, ambiguous : BOOLEAN]]]
  /\ tx \in [TxIds -> [status : TxStates, block : 0 .. MaxHeight]]
  /\ height \in 0 .. MaxHeight

Init ==
  /\ OutboxInit
  /\ job = [e \in Events |-> [state |-> "none", tx |-> NoTx, block |-> 0,
                              amb |-> FALSE]]
  /\ anchor = [e \in Events |-> "none"]
  /\ wk = [w \in Workers |-> Idle]
  /\ tx = [t \in TxIds |-> [status |-> "unsent", block |-> 0]]
  /\ height = 0

-----------------------------------------------------------------------------
(* The node: what the RPCs of the adapter show of the chain.               *)

Mined(t) == tx[t].status = "mined"

\* The updates mined for an identity, over all events that target it.
MinedFor(i) == {t \in TxIds : Mined(t) /\ TargetOf[t[1]] = i}

\* getidentitycontent names the transaction of the identity's LATEST update.
Latest(i, t) ==
  t \in MinedFor(i) /\ \A u \in MinedFor(i) : tx[u].block <= tx[t].block

OwnMined(e) == {t \in MinedFor(TargetOf[e]) : t[1] = e}

\* The digest of e is in the content iff an update of e is on the chain; a later
\* update of the same identity may have replaced the value under the key.
ContentFound(e) == OwnMined(e) # {}
ContentMissing(e) ==
  \A t \in OwnMined(e) : ~Latest(TargetOf[e], t)

NodeAccepts(t) ==
  /\ tx[t].status = "sent"
  /\ tx' = [tx EXCEPT ![t].status = "mempool"]
  /\ UNCHANGED <<ob, ledger, job, anchor, wk, height>>

NodeRejects(t) ==
  /\ tx[t].status = "sent"
  /\ tx' = [tx EXCEPT ![t].status = "rejected"]
  /\ UNCHANGED <<ob, ledger, job, anchor, wk, height>>

Mine(t) ==
  /\ tx[t].status \in {"mempool", "orphaned"}
  /\ height < MaxHeight
  /\ height' = height + 1
  /\ tx' = [tx EXCEPT ![t] = [status |-> "mined", block |-> height + 1]]
  /\ UNCHANGED <<ob, ledger, job, anchor, wk>>

Reorganize(t) ==
  /\ "reorg" \in Faults
  /\ Mined(t)
  /\ \A u \in TxIds : Mined(u) => tx[u].block <= tx[t].block
  /\ tx' = [tx EXCEPT ![t].status = "orphaned"]
  /\ UNCHANGED <<ob, ledger, job, anchor, wk, height>>

-----------------------------------------------------------------------------
(* VerusJobRepository: transition() under the lease, and enqueueAnchor.    *)

\* The job states the database call at w's program counter accepts.
Expected(w) ==
  CASE wk[w].pc = "run" /\ wk[w].js \in Resumable -> Resumable
    [] wk[w].pc = "run" /\ wk[w].js = "claimed" -> {"claimed"}
    [] wk[w].pc = "beat" -> {"submitted"}
    [] wk[w].pc = "record" -> {"preflight"}
    [] wk[w].pc = "confirmed" -> {"confirming"}
    [] wk[w].pc = "reorged" -> {"confirming", "readback"}
    [] wk[w].pc = "matched" -> {"readback"}
    [] wk[w].pc = "failed" -> IF wk[w].err.retryable THEN InProgress
                              ELSE InProgress \cup {"retryable_failed"}
    [] OTHER -> JobStates

\* The program counters at which w is about to call the database.
CallsDatabase(w) ==
  \/ wk[w].pc \in {"load", "run", "record", "confirmed", "reorged", "matched",
                   "failed", "settle", "bury"}
  \/ wk[w].pc = "beat" /\ wk[w].js = "submitted"

\* markDeadLetter needs no lease: the last attempt of the dead letter must have
\* been made under the caller's reference.
OwnsDeadLetter(w) ==
  LET e == wk[w].event
  IN  /\ ob[e].state = "dead_letter"
      /\ \E a \in ledger : /\ a.event = e /\ a.attempt = ob[e].attempts
                           /\ a.worker = RefOf[w]
      /\ job[e].state \in {"retryable_failed", "reorg_pending"}

\* Mutant: only the job's state is checked, not the lease.
AcceptedUnfenced(w, lag) ==
  IF wk[w].pc = "bury" THEN OwnsDeadLetter(w)
  ELSE job[wk[w].event].state \in Expected(w)

Accepted(w, lag) ==
  IF wk[w].pc = "bury" THEN OwnsDeadLetter(w)
  ELSE Holds(w, wk[w].event, lag) /\ job[wk[w].event].state \in Expected(w)

\* Mutant: transitionAnchor without its early return.
TransitionSyncAlways(w, next, evidence) ==
  /\ job' = [job EXCEPT ![wk[w].event] = [evidence EXCEPT !.state = next]]
  /\ anchor' = [anchor EXCEPT ![wk[w].event] = next]

\* One UPDATE of verus_job with its anchor_record: NULL evidence keeps the
\* column, and the anchor follows every state but claimed and preflight.
Transition(w, next, evidence) ==
  LET e == wk[w].event
  IN  /\ job' = [job EXCEPT ![e] = [evidence EXCEPT !.state = next]]
      /\ anchor' = IF next \in {"claimed", "preflight"} THEN anchor
                   ELSE [anchor EXCEPT ![e] = next]

Goto(w, locals) == wk' = [wk EXCEPT ![w] = locals]

\* processNext goes on with the record that the transition returned.
Continue(w, next, t, flag) ==
  Goto(w, [wk[w] EXCEPT !.pc = "run", !.js = next, !.tx = t, !.amb = flag,
                        !.block = 0])

Fail(w, error) ==
  Goto(w, [wk[w] EXCEPT !.pc = "failed", !.err = error, !.timer = 0,
                        !.tx = NoTx, !.amb = FALSE])

EnqueueAnchor(e) ==
  /\ InsertEvent(e)
  /\ job' = [job EXCEPT ![e].state = "pending"]
  /\ anchor' = [anchor EXCEPT ![e] = "pending"]
  /\ UNCHANGED <<wk, tx, height>>

-----------------------------------------------------------------------------
(* VerusAnchorWorker.processNext.                                          *)

ClaimEvent(w) ==
  /\ wk[w].pc = "idle"
  /\ \E e \in Events, lag \in Lags :
       /\ ClaimNext(w, e, lag)
       /\ Goto(w, [Idle EXCEPT !.pc = "load", !.event = e,
                               !.attempt = ob[e].attempts + 1])
  /\ UNCHANGED <<job, anchor, tx, height>>

\* A job that is already terminal only has its outbox event left to settle.
LoadForClaim(w) ==
  /\ wk[w].pc = "load"
  /\ \E lag \in Lags : Accepted(w, lag)
  /\ LET j == job[wk[w].event]
         steps == Resumable \cup InProgress \cup {"claimed", "verified"}
     IN  Goto(w, [wk[w] EXCEPT !.pc = IF j.state \in steps THEN "run" ELSE "settle",
                               !.js = j.state, !.tx = j.tx, !.amb = j.amb])
  /\ UNCHANGED <<ob, ledger, job, anchor, tx, height>>

ClaimJob(w) ==
  /\ wk[w].pc = "run" /\ wk[w].js \in Resumable
  /\ \E lag \in Lags : Accepted(w, lag)
  /\ Transition(w, "claimed", job[wk[w].event])
  /\ Continue(w, "claimed", job[wk[w].event].tx, job[wk[w].event].amb)
  /\ UNCHANGED <<ob, ledger, tx, height>>

BeginPreflight(w) ==
  /\ wk[w].pc = "run" /\ wk[w].js = "claimed"
  /\ \E lag \in Lags : Accepted(w, lag)
  /\ Transition(w, "preflight", job[wk[w].event])
  /\ Continue(w, "preflight", job[wk[w].event].tx, job[wk[w].event].amb)
  /\ UNCHANGED <<ob, ledger, tx, height>>

HeartbeatLease(w) ==
  /\ wk[w].pc = "run" /\ wk[w].js \in InProgress
  /\ \E lag \in Lags : Accepted(w, lag) /\ Heartbeat(w, wk[w].event, lag)
  /\ Goto(w, [wk[w] EXCEPT !.pc = "beat"])
  /\ UNCHANGED <<job, anchor, tx, height>>

\* Mutant: a known transaction is submitted again.
PreflightResubmits(w) ==
  /\ wk[w].pc = "beat" /\ wk[w].js = "preflight"
  /\ Goto(w, [wk[w] EXCEPT !.pc = IF wk[w].amb THEN "search" ELSE "write"])
  /\ UNCHANGED <<ob, ledger, job, anchor, tx, height>>

\* Mutant: the ambiguity flag is not looked at.
PreflightNoSearch(w) ==
  /\ wk[w].pc = "beat" /\ wk[w].js = "preflight"
  /\ Goto(w, [wk[w] EXCEPT !.pc = IF wk[w].tx # NoTx THEN "record" ELSE "write"])
  /\ UNCHANGED <<ob, ledger, job, anchor, tx, height>>

\* The checks and reads before a write all passed.
Preflight(w) ==
  /\ wk[w].pc = "beat" /\ wk[w].js = "preflight"
  /\ Goto(w, [wk[w] EXCEPT !.pc = IF wk[w].tx # NoTx THEN "record"
                                  ELSE IF wk[w].amb THEN "search"
                                  ELSE "write"])
  /\ UNCHANGED <<ob, ledger, job, anchor, tx, height>>

\* A read RPC fails (timeout, unsynchronized node: retryable; wrong network,
\* malformed answer, forbidden payload: terminal), never as ambiguous.
ReadFails(w) ==
  /\ "read_fails" \in Faults
  /\ \/ wk[w].pc = "search"
     \/ wk[w].pc = "beat" /\ wk[w].js # "submitted"
  /\ \E retryable \in BOOLEAN : Fail(w, Error(retryable, FALSE))
  /\ UNCHANGED <<ob, ledger, job, anchor, tx, height>>

SearchReadback(w) ==
  /\ wk[w].pc = "search"
  /\ \/ /\ ContentFound(wk[w].event)
        /\ \E t \in TxIds : /\ Latest(TargetOf[wk[w].event], t)
                            /\ Goto(w, [wk[w] EXCEPT !.pc = "record", !.tx = t])
     \/ /\ ContentMissing(wk[w].event)
        /\ Fail(w, Error(TRUE, TRUE))
  /\ UNCHANGED <<ob, ledger, job, anchor, tx, height>>

SendUpdate(w) ==
  /\ wk[w].pc = "write"
  /\ \E n \in 1 .. MaxWrites :
       /\ \A m \in 1 .. MaxWrites :
            (tx[<<wk[w].event, m>>].status = "unsent") <=> (m >= n)
       /\ tx' = [tx EXCEPT ![<<wk[w].event, n>>].status = "sent"]
       /\ Goto(w, [wk[w] EXCEPT !.pc = "writing", !.timer = WriteTimeout,
                                !.tx = <<wk[w].event, n>>])
  /\ UNCHANGED <<ob, ledger, job, anchor, height>>

UpdateReturns(w) ==
  /\ wk[w].pc = "writing"
  /\ tx[wk[w].tx].status \in {"mempool", "mined", "orphaned"}
  /\ Goto(w, [wk[w] EXCEPT !.pc = "record", !.timer = 0])
  /\ UNCHANGED <<ob, ledger, job, anchor, tx, height>>

UpdateRejected(w) ==
  /\ wk[w].pc = "writing"
  /\ tx[wk[w].tx].status = "rejected"
  /\ \E retryable \in BOOLEAN : Fail(w, Error(retryable, FALSE))
  /\ UNCHANGED <<ob, ledger, job, anchor, tx, height>>

\* The adapter gave up (timeout) or got no usable answer: AMBIGUOUS_SUBMISSION.
UpdateUnknown(w) ==
  /\ wk[w].pc = "writing"
  /\ wk[w].timer = 0 \/ "write_unknown" \in Faults
  /\ Fail(w, Error(TRUE, TRUE))
  /\ UNCHANGED <<ob, ledger, job, anchor, tx, height>>

RecordSubmission(w) ==
  /\ wk[w].pc = "record"
  /\ \E lag \in Lags : Accepted(w, lag)
  /\ Transition(w, "submitted",
                [job[wk[w].event] EXCEPT !.tx = wk[w].tx, !.amb = FALSE])
  /\ Continue(w, "submitted", wk[w].tx, FALSE)
  /\ UNCHANGED <<ob, ledger, tx, height>>

BeginConfirmation(w) ==
  /\ wk[w].pc = "beat" /\ wk[w].js = "submitted"
  /\ \E lag \in Lags : Accepted(w, lag)
  /\ Transition(w, "confirming", job[wk[w].event])
  /\ Continue(w, "confirming", wk[w].tx, wk[w].amb)
  /\ UNCHANGED <<ob, ledger, tx, height>>

\* inspectTransactionConfirmation: a mined update may still lack confirmations,
\* a reorganized one may be back in the mempool with none.
InspectConfirmation(w) ==
  /\ wk[w].pc = "beat" /\ wk[w].js = "confirming"
  /\ \/ /\ Mined(wk[w].tx)
        /\ Goto(w, [wk[w] EXCEPT !.pc = "confirmed", !.block = tx[wk[w].tx].block])
     \/ /\ tx[wk[w].tx].status = "orphaned"
        /\ Goto(w, [wk[w] EXCEPT !.pc = "reorged"])
     \/ Fail(w, Error(TRUE, FALSE))
  /\ UNCHANGED <<ob, ledger, job, anchor, tx, height>>

RecordReorg(w) ==
  /\ wk[w].pc = "reorged"
  /\ \E lag \in Lags : Accepted(w, lag)
  /\ Transition(w, "reorg_pending", job[wk[w].event])
  /\ Goto(w, [wk[w] EXCEPT !.pc = "settle", !.err = Error(TRUE, FALSE)])
  /\ UNCHANGED <<ob, ledger, tx, height>>

\* Mutant: the confirmation's block is not recorded.
BeginReadbackNoBlock(w) ==
  /\ wk[w].pc = "confirmed"
  /\ \E lag \in Lags : Accepted(w, lag)
  /\ Transition(w, "readback", job[wk[w].event])
  /\ Continue(w, "readback", wk[w].tx, wk[w].amb)
  /\ UNCHANGED <<ob, ledger, tx, height>>

BeginReadback(w) ==
  /\ wk[w].pc = "confirmed"
  /\ \E lag \in Lags : Accepted(w, lag)
  /\ Transition(w, "readback", [job[wk[w].event] EXCEPT !.block = wk[w].block])
  /\ Continue(w, "readback", wk[w].tx, wk[w].amb)
  /\ UNCHANGED <<ob, ledger, tx, height>>

\* verifyIdentityContentReadback; a mismatch is a terminal error.
Readback(w) ==
  /\ wk[w].pc = "beat" /\ wk[w].js = "readback"
  /\ \/ /\ ContentFound(wk[w].event)
        /\ Goto(w, [wk[w] EXCEPT !.pc = "matched"])
     \/ /\ ContentMissing(wk[w].event)
        /\ Fail(w, Error(FALSE, FALSE))
  /\ UNCHANGED <<ob, ledger, job, anchor, tx, height>>

VerifyReadback(w) ==
  /\ wk[w].pc = "matched"
  /\ \E lag \in Lags : Accepted(w, lag)
  /\ Transition(w, "verified", job[wk[w].event])
  /\ Continue(w, "verified", wk[w].tx, wk[w].amb)
  /\ UNCHANGED <<ob, ledger, tx, height>>

CompleteEvent(w) ==
  /\ wk[w].pc = "run" /\ wk[w].js = "verified"
  /\ \E lag \in Lags : Accepted(w, lag) /\ Succeed(w, wk[w].event, lag)
  /\ Goto(w, Idle)
  /\ UNCHANGED <<job, anchor, tx, height>>

-----------------------------------------------------------------------------
(* handleFailure and failOutboxRetryable: first the job, then the outbox,  *)
(* each in a transaction of its own.                                       *)

\* Mutant: the outbox event is failed without failing the job first.
RecordFailureSkipped(w) ==
  /\ wk[w].pc = "failed"
  /\ \E lag \in Lags : Accepted(w, lag)
  /\ Goto(w, [wk[w] EXCEPT !.pc = "settle"])
  /\ UNCHANGED <<ob, ledger, job, anchor, tx, height>>

RecordFailure(w) ==
  /\ wk[w].pc = "failed"
  /\ \E lag \in Lags : Accepted(w, lag)
  /\ Transition(w, IF wk[w].err.retryable THEN "retryable_failed"
                   ELSE "terminal_failed",
                [job[wk[w].event] EXCEPT !.amb = wk[w].err.ambiguous])
  /\ Goto(w, [wk[w] EXCEPT !.pc = "settle"])
  /\ UNCHANGED <<ob, ledger, tx, height>>

SettleRetryable(w) ==
  /\ wk[w].pc = "settle" /\ wk[w].err.retryable
  /\ \E lag \in Lags : Accepted(w, lag) /\ FailRetryable(w, wk[w].event, lag)
  /\ Goto(w, IF ob'[wk[w].event].state = "dead_letter"
             THEN [Idle EXCEPT !.pc = "bury", !.event = wk[w].event,
                               !.attempt = wk[w].attempt]
             ELSE Idle)
  /\ UNCHANGED <<job, anchor, tx, height>>

SettleTerminal(w) ==
  /\ wk[w].pc = "settle" /\ ~wk[w].err.retryable
  /\ \E lag \in Lags : Accepted(w, lag) /\ FailTerminal(w, wk[w].event, lag)
  /\ Goto(w, Idle)
  /\ UNCHANGED <<job, anchor, tx, height>>

MarkDeadLetter(w) ==
  /\ wk[w].pc = "bury"
  /\ Accepted(w, 0)
  /\ Transition(w, "terminal_failed", [job[wk[w].event] EXCEPT !.amb = FALSE])
  /\ Goto(w, Idle)
  /\ UNCHANGED <<ob, ledger, tx, height>>

-----------------------------------------------------------------------------
(* The run ends early.                                                     *)

\* Mutant: a refused worker puts the event back before it gives up.
ConflictReleases(w) ==
  /\ CallsDatabase(w)
  /\ \E lag \in Lags : ~Accepted(w, lag)
  /\ ob' = [ob EXCEPT ![wk[w].event] = Released(wk[w].event, "pending", 0)]
  /\ Goto(w, Idle)
  /\ UNCHANGED <<ledger, job, anchor, tx, height>>

\* RepositoryConflictError is no VerusIntegrationError: processNext rethrows it
\* and the outbox row keeps its lease until it expires.
Conflict(w) ==
  /\ CallsDatabase(w)
  /\ \E lag \in Lags : ~Accepted(w, lag)
  /\ Goto(w, Idle)
  /\ UNCHANGED <<ob, ledger, job, anchor, tx, height>>

\* The process dies, or loses the database, between two of its steps.
Crash(w) ==
  /\ "crash" \in Faults
  /\ wk[w].pc # "idle" /\ wk[w].attempt <= CrashBound
  /\ Goto(w, Idle)
  /\ UNCHANGED <<ob, ledger, job, anchor, tx, height>>

\* Unless workers may be slow, only a write takes time: every other step fits
\* well within a lease, and an expired write timer fires before time goes on.
Tick ==
  /\ \/ "slow" \in Faults
     \/ \A w \in Workers : \/ wk[w].pc = "idle"
                           \/ wk[w].pc = "writing" /\ wk[w].timer > 0
  /\ TickOutbox
  /\ wk' = [w \in Workers |->
              [wk[w] EXCEPT !.timer = IF wk[w].timer > 0 THEN wk[w].timer - 1
                                                         ELSE 0]]
  /\ UNCHANGED <<job, anchor, tx, height>>

-----------------------------------------------------------------------------
Run(w) ==
  \/ LoadForClaim(w) \/ ClaimJob(w) \/ BeginPreflight(w) \/ HeartbeatLease(w)
  \/ Preflight(w) \/ ReadFails(w) \/ SearchReadback(w)
  \/ SendUpdate(w) \/ UpdateReturns(w) \/ UpdateRejected(w) \/ UpdateUnknown(w)
  \/ RecordSubmission(w) \/ BeginConfirmation(w) \/ InspectConfirmation(w)
  \/ RecordReorg(w) \/ BeginReadback(w) \/ Readback(w) \/ VerifyReadback(w)
  \/ CompleteEvent(w) \/ RecordFailure(w) \/ SettleRetryable(w)
  \/ SettleTerminal(w) \/ MarkDeadLetter(w) \/ Conflict(w)

Next ==
  \/ Tick
  \/ \E e \in Events : EnqueueAnchor(e)
  \/ \E w \in Workers : ClaimEvent(w) \/ Run(w) \/ Crash(w)
  \/ \E t \in TxIds : NodeAccepts(t) \/ NodeRejects(t) \/ Mine(t) \/ Reorganize(t)

Spec == Init /\ [][Next]_vars

\* The loop ticks every second and a started run is driven by its promises;
\* the node answers every call it got.  Nothing makes a write be mined.
Fairness ==
  /\ WF_vars(Tick)
  /\ \A w \in Workers : WF_vars(ClaimEvent(w)) /\ WF_vars(Run(w))
  /\ \A t \in TxIds : WF_vars(NodeAccepts(t) \/ NodeRejects(t))

FairSpec == Spec /\ Fairness

-----------------------------------------------------------------------------
(* Properties.                                                             *)

\* The three tables tell one story in every state, also where a crash stopped
\* the worker between two of its transactions: the anchor follows the job, a
\* settled or waiting event has a job in the matching state, and a final job
\* has an event that is settled or is still leased to settle it.
TablesAgree ==
  \A e \in Events :
    LET o == ob[e].state
        j == job[e].state
    IN  /\ \/ anchor[e] = j
           \/ j \in {"claimed", "preflight"} /\ anchor[e] \in Resumable
        /\ o = "pending" => j = "pending"
        /\ o = "retryable_failed" => j \in {"retryable_failed", "reorg_pending"}
        /\ o = "succeeded" => j = "verified"
        /\ o = "terminal_failed" => j = "terminal_failed"
        /\ o = "dead_letter" =>
             j \in {"retryable_failed", "reorg_pending", "terminal_failed"}
        /\ j \in {"verified", "terminal_failed"} => o \in FinalStates \cup {"claimed"}

\* The CHECK constraints of verus_job hold in every state the workers produce,
\* so that no transition is refused by the database: a verified job has its
\* evidence and an ambiguous one is waiting for, or early in, a retry.
ConstraintsHold ==
  \A e \in Events :
    /\ job[e].state = "verified" => job[e].tx # NoTx /\ job[e].block > 0
    /\ job[e].amb => job[e].state \in {"retryable_failed", "claimed", "preflight"}

\* Mutant: the trigger does not let a reorganized job be dead-lettered.
JobGuardNoReorgBurial(old, new) ==
  \/ old \in Resumable /\ new = "claimed"
  \/ old = "claimed" /\ new = "preflight"
  \/ old = "preflight" /\ new \in {"submitted", "retryable_failed", "terminal_failed"}
  \/ old = "submitted" /\ new \in {"confirming", "retryable_failed", "terminal_failed"}
  \/ old = "confirming" /\ new \in {"readback", "retryable_failed",
                                    "terminal_failed", "reorg_pending"}
  \/ old = "readback" /\ new \in {"verified", "retryable_failed",
                                  "terminal_failed", "reorg_pending"}
  \/ old = "retryable_failed" /\ new = "terminal_failed"

\* The database's own encoding of the two state machines: the transitions that
\* cbc_guard_verus_job_transition and cbc_guard_anchor_transition let through.
JobGuard(old, new) ==
  \/ old \in Resumable /\ new = "claimed"
  \/ old = "claimed" /\ new = "preflight"
  \/ old = "preflight" /\ new \in {"submitted", "retryable_failed", "terminal_failed"}
  \/ old = "submitted" /\ new \in {"confirming", "retryable_failed", "terminal_failed"}
  \/ old = "confirming" /\ new \in {"readback", "retryable_failed",
                                    "terminal_failed", "reorg_pending"}
  \/ old = "readback" /\ new \in {"verified", "retryable_failed",
                                  "terminal_failed", "reorg_pending"}
  \/ old \in {"retryable_failed", "reorg_pending"} /\ new = "terminal_failed"

AnchorGuard(old, new) ==
  \/ old \in Resumable /\ new \in {"submitted", "retryable_failed", "terminal_failed"}
  \/ old = "submitted" /\ new \in {"confirming", "retryable_failed", "terminal_failed"}
  \/ old = "confirming" /\ new \in {"readback", "retryable_failed",
                                    "terminal_failed", "reorg_pending"}
  \/ old = "readback" /\ new \in {"verified", "retryable_failed",
                                  "terminal_failed", "reorg_pending"}
  \/ old = "retryable_failed" /\ new = "terminal_failed"

\* The triggers accept what the repository does: two encodings of one state
\* machine, in TypeScript and in SQL, never disagree on a reachable update.
TriggersAccept ==
  [][ \A e \in Events : job[e].state # "none" =>
        /\ job'[e] # job[e] => JobGuard(job[e].state, job'[e].state)
        /\ anchor'[e] # anchor[e] => AnchorGuard(anchor[e], anchor'[e])
    ]_vars

\* Fencing: only the worker that runs the current attempt of an event changes
\* its job.  A worker that lost its lease, however late it wakes up, cannot.
FencedWrites ==
  [][ \A e \in Events : job[e].state # "none" /\ job'[e] # job[e] =>
        \E w \in Workers : /\ wk'[w] # wk[w]
                           /\ wk[w].event = e
                           /\ wk[w].attempt = ob[e].attempts
    ]_vars

\* A known transaction is reconfirmed, never replaced or sent again by the
\* holder of the lease, through reorganizations, retries and take-overs.
KnownTxKept ==
  [][ \A e \in Events : job[e].tx # NoTx =>
        /\ job'[e].tx = job[e].tx
        /\ \A w \in Workers :
             wk[w].pc = "write" /\ wk[w].event = e /\ Holds(w, e, 0)
               => wk'[w].pc # "writing"
    ]_vars

\* An update is built from the identity that preflight read, so two overlapping
\* updates of one identity drop each other's content.  The worker's README says
\* that writes are serialized: no two workers are between that read and the
\* answer to updateidentity for the same identity.  That is no invariant: the
\* call may outlast the lease.
SerializedUpdates ==
  \A v, w \in Workers :
    /\ v # w
    /\ wk[v].pc \in {"search", "write", "writing"}
    /\ wk[w].pc \in {"search", "write", "writing"}
    => TargetOf[wk[v].event] # TargetOf[wk[w].event]

\* The runbook's rule for updateidentity: after a call that may have got
\* through, no other one is sent; only a refused call may be repeated.
NoBlindResubmission ==
  [][ \A w \in Workers : wk[w].pc = "write" /\ wk'[w].pc = "writing" =>
        \A t \in TxIds : t[1] = wk[w].event => tx[t].status \in {"unsent", "rejected"}
    ]_vars

\* The writes of an event that reached the node.
Writes(e) ==
  {t \in TxIds : t[1] = e /\ tx[t].status \in {"mempool", "mined", "orphaned"}}

\* An anchor is written to the chain at most once: an ambiguous submission is
\* looked up by readback, not sent again.
AtMostOneWrite == \A e \in Events : Cardinality(Writes(e)) <= 1

\* An attempt of e was lost with its lease; two attempts of e ended in failure.
Lapsed(e) == \E a \in RowsOf(e) : a.result = "lease_expired"
FailedTwice(e) ==
  \E a, b \in RowsOf(e) :
    a.result = "failed" /\ b.result = "failed" /\ a.attempt # b.attempt

\* A second write has a cause on record.  The ambiguity flag and the recorded
\* transaction keep every worker from writing an anchor again, also after lost
\* answers, crashes and reorganizations, unless an attempt ended with its lease
\* (so that nobody recorded what it sent), or one failed attempt raised the flag
\* and a second one cleared it.
SecondWriteExplained ==
  \A e \in Events :
    Cardinality(Writes(e)) >= 2 => Lapsed(e) \/ FailedTwice(e)


\* Settling the outbox event also settles the job and its anchor record, as the
\* runbook says of dead letters.  It fails if a process may die between
\* failRetryable and markDeadLetter; TablesAgree says what is left then.
JobSettles ==
  \A e \in Events : ob[e].state \in FinalStates ~>
    anchor[e] = job[e].state /\ job[e].state \in {"verified", "terminal_failed"}

\* The pipeline implements the abstract promise: an anchor is published, then
\* verified, or given up, once and for all.
StatusOf(e) == CASE job[e].state = "verified" -> "verified"
                 [] job[e].state = "terminal_failed" -> "failed"
                 [] OTHER -> "open"

Promise == INSTANCE AnchorPromise WITH
             status <- [e \in Events |-> StatusOf(e)],
             published <- {e \in Events : \E t \in Writes(e) : tx[t].status # "mempool"}

KeepsPromise == Promise!Spec

\* Every step of the pipeline is a step of the outbox or leaves it alone, so
\* what is proved of the outbox holds of the pipeline.
UsesOutbox == OutboxSpec
=============================================================================
