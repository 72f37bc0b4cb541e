---------------------------- MODULE TablesProofs ----------------------------
(***************************************************************************)
(* What the three tables of the anchor pipeline say of each other, and     *)
(* what the pipeline promises, for any number of workers and events.       *)
(***************************************************************************)
EXTENDS FencingProofs, FiniteSetTheorems

\* An update of e has been on the chain.
OnChain(e) == \E t \in TxIds : t[1] = e /\ tx[t].status \in {"mined", "orphaned"}

\* A job and its anchor record, and what the CHECK constraints say of the job.
RowOK(e) ==
  /\ (ob[e].state = "none") <=> (job[e].state = "none")
  /\ \/ anchor[e] = job[e].state
     \/ job[e].state \in {"claimed", "preflight"} /\ anchor[e] \in Resumable
  /\ job[e].state \in {"readback", "verified"} => job[e].block > 0
  /\ job[e].amb => job[e].state \in {"retryable_failed", "claimed", "preflight"}

\* What a worker has seen stays so even if it has lost its lease.
SeenOK(l) ==
  /\ l.pc = "failed" /\ l.err.ambiguous => l.err.retryable
  /\ l.pc = "confirmed" => l.block > 0
  /\ l.pc = "matched" => OnChain(l.event)

RowInv ==
  /\ Inv
  /\ \A e \in Events : RowOK(e)
  /\ \A w \in Workers : SeenOK(wk[w])
  /\ \A t \in TxIds : tx[t].status = "mined" => tx[t].block > 0

-----------------------------------------------------------------------------
(* Under the lease, a worker's locals tell what the job is.                *)

Holder(w) ==
  /\ wk[w].pc \notin {"idle", "bury"}
  /\ ob[wk[w].event].state = "claimed" /\ ob[wk[w].event].owner = RefOf[w]

\* The locals l of a holder and the row j of its job.
ViewOK(l, j) ==
  /\ l.pc = "load" => ~l.err.retryable
  /\ l.pc \in {"run", "beat", "confirmed", "reorged", "matched"} =>
       l.tx = j.tx /\ l.amb = j.amb
  /\ l.pc = "run" =>
       l.js = j.state /\ j.state \in Resumable \cup InProgress \cup {"claimed", "verified"}
  /\ l.pc = "beat" => l.js = j.state /\ j.state \in InProgress
  /\ l.pc \in {"search", "write", "writing"} => j.state = "preflight" /\ j.tx = NoTx
  /\ l.pc \in {"write", "writing"} => ~j.amb
  /\ l.pc = "record" => j.state = "preflight" /\ (j.tx # NoTx => l.tx = j.tx)
  /\ l.pc \in {"confirmed", "reorged"} => j.state = "confirming"
  /\ l.pc = "matched" => j.state = "readback"
  /\ l.pc = "failed" => j.state \in InProgress
  /\ l.pc = "settle" =>
       IF l.err.retryable THEN j.state \in {"retryable_failed", "reorg_pending"}
       ELSE j.state = "terminal_failed"

\* The job of an event that no worker holds.
SettledOK(o, j) ==
  /\ o = "pending" => j = "pending"
  /\ o = "retryable_failed" => j \in {"retryable_failed", "reorg_pending"}
  /\ o = "succeeded" => j = "verified"
  /\ o = "terminal_failed" => j = "terminal_failed"
  /\ o = "dead_letter" => j \in {"retryable_failed", "reorg_pending", "terminal_failed"}

LeaseInv ==
  /\ RowInv /\ FenceInv
  /\ \A w \in Workers : Holder(w) => ViewOK(wk[w], job[wk[w].event])
  /\ \A e \in Events : SettledOK(ob[e].state, job[e].state)

-----------------------------------------------------------------------------
(* What is known of the writes of an event while no attempt of it lapsed   *)
(* and at most one failed.                                                 *)

Smooth(e) == ~Lapsed(e) /\ ~FailedTwice(e)

HasFailed(e) == \E a \in RowsOf(e) : a.result = "failed"

Runs(w, e) == wk[w].pc \notin {"idle", "bury"} /\ wk[w].event = e

\* A process that died, or was refused, left the event leased.
Abandoned(e) == ob[e].state = "claimed" /\ \A w \in Workers : ~Runs(w, e)

Settling(e) == \E w \in Workers : Runs(w, e) /\ wk[w].pc = "settle"

\* A write that reached the node, or may still reach it.
Possible(t) == tx[t].status \notin {"unsent", "rejected"}

\* The tables keep the next attempt from writing.
JobKnown(e) == job[e].tx # NoTx \/ job[e].amb \/ job[e].state = "terminal_failed"

\* The worker whose write may have succeeded knows so, until the tables do.
Knows(w, t) ==
  /\ wk[w].event = t[1]
  /\ \/ wk[w].pc = "writing" /\ wk[w].tx = t
     \/ wk[w].pc = "record"
     \/ wk[w].pc = "failed" /\ wk[w].err.ambiguous

\* No worker will write again beside t: it is on record, or the attempt that
\* must first end will be the event's lapse or its second failure.
KnownWrite(t) ==
  \/ JobKnown(t[1])
  \/ \E w \in Workers : Knows(w, t)
  \/ Abandoned(t[1])
  \/ HasFailed(t[1]) /\ Settling(t[1])

RunsHeld(e) ==
  \A w \in Workers : Runs(w, e) =>
    ob[e].state = "claimed" /\ ob[e].owner = RefOf[w]

\* The flag outlives the attempt that raised it, so that attempt has failed.
FlagOK(e) == job[e].amb => HasFailed(e) \/ Abandoned(e) \/ Settling(e)

Once(e) ==
  \A t, u \in TxIds : t[1] = e /\ u[1] = e /\ Possible(t) /\ Possible(u) => t = u

WritesKnown(e) == \A t \in TxIds : t[1] = e /\ Possible(t) => KnownWrite(t)

WriteOK(e) == RunsHeld(e) /\ FlagOK(e) /\ Once(e) /\ WritesKnown(e)

WriteInv == LeaseInv /\ \A e \in Events : Smooth(e) => WriteOK(e)

-----------------------------------------------------------------------------
(* What a step of a worker leaves in its locals and in its job.            *)

\* Giving w new locals.
LEMMA GotoFields ==
  ASSUME WorkersOK, NEW w \in Workers, NEW l, Goto(w, l)
  PROVE  wk'[w] = l /\ \A v \in Workers \ {w} : wk'[v] = wk[v]
  BY DEF WorkersOK, Goto

\* Moving w's program counter alone.
LEMMA JumpFields ==
  ASSUME WorkersOK, NEW w \in Workers, NEW pc, Goto(w, [wk[w] EXCEPT !.pc = pc])
  PROVE  /\ wk'[w].pc = pc /\ wk'[w].event = wk[w].event /\ wk'[w].js = wk[w].js
         /\ wk'[w].tx = wk[w].tx /\ wk'[w].amb = wk[w].amb
         /\ wk'[w].block = wk[w].block /\ wk'[w].timer = wk[w].timer
         /\ wk'[w].err = wk[w].err
<1>1. wk[w] \in Locals
  BY EventOf
<1>2. wk'[w] = [wk[w] EXCEPT !.pc = pc]
  BY GotoFields
<1> QED BY <1>1, <1>2 DEF Locals

\* Going on with the record that a transition returned.
LEMMA ContinueFields ==
  ASSUME WorkersOK, NEW w \in Workers, NEW next, NEW t, NEW flag,
         Continue(w, next, t, flag)
  PROVE  /\ wk'[w].pc = "run" /\ wk'[w].event = wk[w].event /\ wk'[w].js = next
         /\ wk'[w].tx = t /\ wk'[w].amb = flag /\ wk'[w].timer = wk[w].timer
<1>1. wk[w] \in Locals
  BY EventOf
<1>2. wk'[w] = [wk[w] EXCEPT !.pc = "run", !.js = next, !.tx = t, !.amb = flag,
                             !.block = 0]
  BY GotoFields DEF Continue
<1> QED BY <1>1, <1>2 DEF Locals

\* Handling an error.
LEMMA FailFields ==
  ASSUME WorkersOK, NEW w \in Workers, NEW error, Fail(w, error)
  PROVE  /\ wk'[w].pc = "failed" /\ wk'[w].event = wk[w].event
         /\ wk'[w].err = error /\ wk'[w].timer = 0
<1>1. wk[w] \in Locals
  BY EventOf
<1>2. wk'[w] = [wk[w] EXCEPT !.pc = "failed", !.err = error, !.timer = 0,
                             !.tx = NoTx, !.amb = FALSE]
  BY GotoFields DEF Fail
<1> QED BY <1>1, <1>2 DEF Locals

\* The flags of an error.
LEMMA ErrorFields ==
  ASSUME NEW r, NEW a
  PROVE  Error(r, a).retryable = r /\ Error(r, a).ambiguous = a
  BY DEF Error

\* Row r is what w's call makes of row j, place by place in processNext.
Moved(w, j, r) ==
  \/ /\ wk[w].pc = "run" /\ wk[w].js \in Resumable
     /\ j.state \in Resumable /\ r.state = "claimed"
     /\ r.tx = j.tx /\ r.block = j.block /\ r.amb = j.amb
  \/ /\ wk[w].pc = "run" /\ wk[w].js = "claimed"
     /\ j.state = "claimed" /\ r.state = "preflight"
     /\ r.tx = j.tx /\ r.block = j.block /\ r.amb = j.amb
  \/ /\ wk[w].pc = "record"
     /\ j.state = "preflight" /\ r.state = "submitted"
     /\ r.tx = wk[w].tx /\ r.block = j.block /\ ~r.amb
  \/ /\ wk[w].pc = "beat" /\ wk[w].js = "submitted"
     /\ j.state = "submitted" /\ r.state = "confirming"
     /\ r.tx = j.tx /\ r.block = j.block /\ r.amb = j.amb
  \/ /\ wk[w].pc = "reorged"
     /\ j.state \in {"confirming", "readback"} /\ r.state = "reorg_pending"
     /\ r.tx = j.tx /\ r.block = j.block /\ r.amb = j.amb
  \/ /\ wk[w].pc = "confirmed"
     /\ j.state = "confirming" /\ r.state = "readback"
     /\ r.tx = j.tx /\ r.block = wk[w].block /\ r.amb = j.amb
  \/ /\ wk[w].pc = "matched"
     /\ j.state = "readback" /\ r.state = "verified"
     /\ r.tx = j.tx /\ r.block = j.block /\ r.amb = j.amb
  \/ /\ wk[w].pc = "failed" /\ wk[w].err.retryable
     /\ j.state \in InProgress /\ r.state = "retryable_failed"
     /\ r.tx = j.tx /\ r.block = j.block /\ r.amb = wk[w].err.ambiguous
  \/ /\ wk[w].pc = "failed" /\ ~wk[w].err.retryable
     /\ j.state \in InProgress \cup {"retryable_failed"} /\ r.state = "terminal_failed"
     /\ r.tx = j.tx /\ r.block = j.block /\ r.amb = wk[w].err.ambiguous
  \/ /\ wk[w].pc = "bury"
     /\ j.state \in {"retryable_failed", "reorg_pending"} /\ r.state = "terminal_failed"
     /\ r.tx = j.tx /\ r.block = j.block /\ ~r.amb

AnchorAfter(e, r) ==
  anchor' = IF r.state \in {"claimed", "preflight"} THEN anchor
            ELSE [anchor EXCEPT ![e] = r.state]

\* w's step is one accepted UPDATE of its job and anchor record.
Updates(w) ==
  /\ wk[w].pc # "idle"
  /\ \E lag \in Lags : Accepted(w, lag)
  /\ \E r \in JobRow : /\ Moved(w, job[wk[w].event], r)
                       /\ job' = [job EXCEPT ![wk[w].event] = r]
                       /\ AnchorAfter(wk[w].event, r)
  /\ UNCHANGED <<ob, ledger, tx, height>>

\* A call accepted elsewhere than at markDeadLetter found an expected state
\* under the lease.
LEMMA AcceptedExpected ==
  ASSUME NEW w \in Workers, NEW lag \in Lags, Accepted(w, lag)
  PROVE  /\ wk[w].pc # "bury" =>
              /\ Holds(w, wk[w].event, lag) /\ ob[wk[w].event].state = "claimed"
              /\ job[wk[w].event].state \in Expected(w)
         /\ wk[w].pc = "bury" =>
              /\ ob[wk[w].event].state = "dead_letter"
              /\ job[wk[w].event].state \in {"retryable_failed", "reorg_pending"}
  BY DEF Accepted, Holds, OwnsDeadLetter

\* A row that transition writes.
LEMMA TransitionFields ==
  ASSUME Inv, NEW w \in Workers, NEW next \in JobStates, NEW j \in JobRow,
         Transition(w, next, j)
  PROVE  \E r \in JobRow :
           /\ r.state = next /\ r.tx = j.tx /\ r.block = j.block /\ r.amb = j.amb
           /\ job' = [job EXCEPT ![wk[w].event] = r]
           /\ AnchorAfter(wk[w].event, r)
<1>1. PICK r : r = [j EXCEPT !.state = next]
  OBVIOUS
<1>2. r \in JobRow /\ r.state = next /\ r.tx = j.tx /\ r.block = j.block /\ r.amb = j.amb
  BY <1>1 DEF JobRow
<1>3. job' = [job EXCEPT ![wk[w].event] = r] /\ AnchorAfter(wk[w].event, r)
  BY <1>1, <1>2 DEF Transition, AnchorAfter
<1> QED BY <1>2, <1>3

\* Each transition of the worker is such an update.
LEMMA TransitionUpdates ==
  ASSUME Inv, NEW w \in Workers,
         \/ ClaimJob(w) \/ BeginPreflight(w) \/ RecordSubmission(w)
         \/ BeginConfirmation(w) \/ RecordReorg(w) \/ BeginReadback(w)
         \/ VerifyReadback(w) \/ RecordFailure(w) \/ MarkDeadLetter(w)
  PROVE  Updates(w)
<1>0. wk[w].event \in Events /\ wk[w] \in Locals /\ LocalsOK(wk[w])
  BY EventOf DEF Inv
<1>1. PICK e, j : e = wk[w].event /\ j = job[e]
  OBVIOUS
<1>2. e \in Events /\ j \in JobRow
  BY <1>0, <1>1 DEF Inv, JobsOK
<1>s. /\ {"claimed", "preflight", "submitted", "confirming", "readback", "verified",
          "retryable_failed", "terminal_failed", "reorg_pending"} \subseteq JobStates
  BY DEF JobStates
<1>u. ASSUME NEW lag \in Lags, Accepted(w, lag), wk[w].pc # "idle",
             UNCHANGED <<ob, ledger, tx, height>>,
             NEW k \in JobRow, NEW next \in JobStates, Transition(w, next, k),
             \A r \in JobRow : /\ r.state = next /\ r.tx = k.tx
                               /\ r.block = k.block /\ r.amb = k.amb
                               => Moved(w, j, r)
      PROVE  Updates(w)
  <2>1. PICK r \in JobRow :
           /\ r.state = next /\ r.tx = k.tx /\ r.block = k.block /\ r.amb = k.amb
           /\ job' = [job EXCEPT ![wk[w].event] = r]
           /\ AnchorAfter(wk[w].event, r)
    BY <1>u, TransitionFields
  <2>2. Moved(w, j, r)
    BY <1>u, <2>1
  <2> QED BY <1>1, <1>u, <2>1, <2>2 DEF Updates
<1>3. CASE ClaimJob(w)
  <2>1. PICK lag \in Lags : Accepted(w, lag)
    BY <1>3 DEF ClaimJob
  <2>2. /\ wk[w].pc = "run" /\ wk[w].js \in Resumable
        /\ Transition(w, "claimed", j) /\ UNCHANGED <<ob, ledger, tx, height>>
    BY <1>1, <1>3 DEF ClaimJob
  <2>3. j.state \in Resumable
    BY <1>1, <2>1, <2>2, AcceptedExpected DEF Expected
  <2> QED BY <1>2, <1>s, <1>u, <2>1, <2>2, <2>3 DEF Moved
<1>4. CASE BeginPreflight(w)
  <2>1. PICK lag \in Lags : Accepted(w, lag)
    BY <1>4 DEF BeginPreflight
  <2>2. /\ wk[w].pc = "run" /\ wk[w].js = "claimed"
        /\ Transition(w, "preflight", j) /\ UNCHANGED <<ob, ledger, tx, height>>
    BY <1>1, <1>4 DEF BeginPreflight
  <2>3. j.state = "claimed"
    BY <1>1, <2>1, <2>2, AcceptedExpected DEF Expected, Resumable
  <2> QED BY <1>2, <1>s, <1>u, <2>1, <2>2, <2>3 DEF Moved
<1>5. CASE RecordSubmission(w)
  <2>1. PICK lag \in Lags : Accepted(w, lag)
    BY <1>5 DEF RecordSubmission
  <2>2. PICK k : k = [j EXCEPT !.tx = wk[w].tx, !.amb = FALSE]
    OBVIOUS
  <2>3. /\ wk[w].pc = "record"
        /\ Transition(w, "submitted", k) /\ UNCHANGED <<ob, ledger, tx, height>>
    BY <1>1, <1>5, <2>2 DEF RecordSubmission
  <2>4. wk[w].tx \in TxIds \cup {NoTx}
    BY <1>0 DEF Locals
  <2>5. k \in JobRow /\ k.tx = wk[w].tx /\ k.block = j.block /\ ~k.amb
    <3>1. \A flag \in BOOLEAN :
            LET r == [j EXCEPT !.tx = wk[w].tx, !.amb = flag]
            IN  r \in JobRow /\ r.tx = wk[w].tx /\ r.block = j.block /\ r.amb = flag
      BY <1>2, <2>4 DEF JobRow
    <3>2. FALSE \in BOOLEAN
      OBVIOUS
    <3> QED BY <2>2, <3>1, <3>2, Zenon
  <2>6. j.state = "preflight"
    BY <1>1, <2>1, <2>3, AcceptedExpected DEF Expected
  <2> QED BY <1>s, <1>u, <2>1, <2>3, <2>5, <2>6 DEF Moved
<1>6. CASE BeginConfirmation(w)
  <2>1. PICK lag \in Lags : Accepted(w, lag)
    BY <1>6 DEF BeginConfirmation
  <2>2. /\ wk[w].pc = "beat" /\ wk[w].js = "submitted"
        /\ Transition(w, "confirming", j) /\ UNCHANGED <<ob, ledger, tx, height>>
    BY <1>1, <1>6 DEF BeginConfirmation
  <2>3. j.state = "submitted"
    BY <1>1, <2>1, <2>2, AcceptedExpected DEF Expected
  <2> QED BY <1>2, <1>s, <1>u, <2>1, <2>2, <2>3 DEF Moved
<1>7. CASE RecordReorg(w)
  <2>1. PICK lag \in Lags : Accepted(w, lag)
    BY <1>7 DEF RecordReorg
  <2>2. /\ wk[w].pc = "reorged"
        /\ Transition(w, "reorg_pending", j) /\ UNCHANGED <<ob, ledger, tx, height>>
    BY <1>1, <1>7 DEF RecordReorg
  <2>3. j.state \in {"confirming", "readback"}
    BY <1>1, <2>1, <2>2, AcceptedExpected DEF Expected
  <2> QED BY <1>2, <1>s, <1>u, <2>1, <2>2, <2>3 DEF Moved
<1>8. CASE BeginReadback(w)
  <2>1. PICK lag \in Lags : Accepted(w, lag)
    BY <1>8 DEF BeginReadback
  <2>2. PICK k : k = [j EXCEPT !.block = wk[w].block]
    OBVIOUS
  <2>3. /\ wk[w].pc = "confirmed"
        /\ Transition(w, "readback", k) /\ UNCHANGED <<ob, ledger, tx, height>>
    BY <1>1, <1>8, <2>2 DEF BeginReadback
  <2>4. k \in JobRow /\ k.tx = j.tx /\ k.block = wk[w].block /\ k.amb = j.amb
    BY <1>0, <1>2, <2>2 DEF JobRow, Locals
  <2>5. j.state = "confirming"
    BY <1>1, <2>1, <2>3, AcceptedExpected DEF Expected
  <2> QED BY <1>s, <1>u, <2>1, <2>3, <2>4, <2>5 DEF Moved
<1>9. CASE VerifyReadback(w)
  <2>1. PICK lag \in Lags : Accepted(w, lag)
    BY <1>9 DEF VerifyReadback
  <2>2. /\ wk[w].pc = "matched"
        /\ Transition(w, "verified", j) /\ UNCHANGED <<ob, ledger, tx, height>>
    BY <1>1, <1>9 DEF VerifyReadback
  <2>3. j.state = "readback"
    BY <1>1, <2>1, <2>2, AcceptedExpected DEF Expected
  <2> QED BY <1>2, <1>s, <1>u, <2>1, <2>2, <2>3 DEF Moved
<1>10. CASE RecordFailure(w)
  <2>1. PICK lag \in Lags : Accepted(w, lag)
    BY <1>10 DEF RecordFailure
  <2>2. PICK k : k = [j EXCEPT !.amb = wk[w].err.ambiguous]
    OBVIOUS
  <2>3. wk[w].err.ambiguous \in BOOLEAN /\ wk[w].err.retryable \in BOOLEAN
    BY <1>0 DEF Locals, Errors
  <2>4. k \in JobRow /\ k.tx = j.tx /\ k.block = j.block /\ k.amb = wk[w].err.ambiguous
    BY <1>2, <2>2, <2>3 DEF JobRow
  <2>5. wk[w].pc = "failed" /\ UNCHANGED <<ob, ledger, tx, height>>
    BY <1>10 DEF RecordFailure
  <2>6. CASE wk[w].err.retryable
    <3>1. Transition(w, "retryable_failed", k)
      BY <1>1, <1>10, <2>2, <2>6 DEF RecordFailure
    <3>2. j.state \in InProgress
      BY <1>1, <2>1, <2>5, <2>6, AcceptedExpected DEF Expected
    <3> QED BY <1>s, <1>u, <2>1, <2>4, <2>5, <2>6, <3>1, <3>2 DEF Moved
  <2>7. CASE ~wk[w].err.retryable
    <3>1. Transition(w, "terminal_failed", k)
      BY <1>1, <1>10, <2>2, <2>7 DEF RecordFailure
    <3>2. j.state \in InProgress \cup {"retryable_failed"}
      BY <1>1, <2>1, <2>5, <2>7, AcceptedExpected DEF Expected
    <3> QED BY <1>s, <1>u, <2>1, <2>4, <2>5, <2>7, <3>1, <3>2 DEF Moved
  <2> QED BY <2>6, <2>7
<1>11. CASE MarkDeadLetter(w)
  <2>0. 0 \in Lags
    BY OutboxAssumption DEF Lags
  <2>1. PICK k : k = [j EXCEPT !.amb = FALSE]
    OBVIOUS
  <2>2. /\ wk[w].pc = "bury" /\ Accepted(w, 0)
        /\ Transition(w, "terminal_failed", k) /\ UNCHANGED <<ob, ledger, tx, height>>
    BY <1>1, <1>11, <2>1 DEF MarkDeadLetter
  <2>3. k \in JobRow /\ k.tx = j.tx /\ k.block = j.block /\ ~k.amb
    BY <1>2, <2>1 DEF JobRow
  <2>4. j.state \in {"retryable_failed", "reorg_pending"}
    BY <1>1, <2>0, <2>2, AcceptedExpected
  <2> QED BY <1>s, <1>u, <2>0, <2>2, <2>3, <2>4 DEF Moved
<1> QED BY <1>3, <1>4, <1>5, <1>6, <1>7, <1>8, <1>9, <1>10, <1>11

\* What may happen to an updateidentity call at the node.
TxStep(t) ==
  \/ tx'[t] = tx[t]
  \/ tx[t].status = "unsent" /\ tx'[t].status = "sent"
  \/ tx[t].status = "sent" /\ tx'[t].status \in {"mempool", "rejected"}
  \/ /\ tx[t].status \in {"mempool", "orphaned"}
     /\ tx'[t].status = "mined" /\ tx'[t].block > 0
  \/ tx[t].status = "mined" /\ tx'[t].status = "orphaned"

\* The worker sends a call once; everything else is the node's doing.
LEMMA SendStep ==
  ASSUME Inv, NEW w \in Workers, SendUpdate(w)
  PROVE  \E n \in 1 .. MaxWrites :
           /\ <<wk[w].event, n>> \in TxIds
           /\ \A m \in 1 .. MaxWrites :
                (tx[<<wk[w].event, m>>].status = "unsent") <=> (m >= n)
           /\ tx'[<<wk[w].event, n>>].status = "sent"
           /\ \A t \in TxIds : t # <<wk[w].event, n>> => tx'[t] = tx[t]
           /\ wk'[w].pc = "writing" /\ wk'[w].event = wk[w].event
           /\ wk'[w].timer = WriteTimeout /\ wk'[w].tx = <<wk[w].event, n>>
<1>0. wk[w] \in Locals /\ wk[w].event \in Events
  BY EventOf DEF Inv
<1>1. PICK n \in 1 .. MaxWrites :
       /\ \A m \in 1 .. MaxWrites :
            (tx[<<wk[w].event, m>>].status = "unsent") <=> (m >= n)
       /\ tx' = [tx EXCEPT ![<<wk[w].event, n>>].status = "sent"]
       /\ Goto(w, [wk[w] EXCEPT !.pc = "writing", !.timer = WriteTimeout,
                                !.tx = <<wk[w].event, n>>])
  BY DEF SendUpdate
<1>2. PICK u : u = <<wk[w].event, n>>
  OBVIOUS
<1>3. u \in TxIds
  BY <1>0, <1>2 DEF TxIds
<1>4. tx' = [tx EXCEPT ![u].status = "sent"]
  BY <1>1, <1>2
<1>5. tx'[u].status = "sent" /\ \A t \in TxIds : t # u => tx'[t] = tx[t]
  BY <1>3, <1>4 DEF Inv, NodeOK, NodeRow
<1>6. wk'[w] = [wk[w] EXCEPT !.pc = "writing", !.timer = WriteTimeout, !.tx = u]
  BY <1>1, <1>2, GotoFields DEF Inv
<1>7. /\ wk'[w].pc = "writing" /\ wk'[w].event = wk[w].event
      /\ wk'[w].timer = WriteTimeout /\ wk'[w].tx = u
  BY <1>0, <1>6 DEF Locals
<1> QED BY <1>1, <1>2, <1>3, <1>5, <1>7

\* Only SendUpdate and the node touch the chain.
LEMMA NodeStep ==
  ASSUME Inv, [Next]_vars, NEW t \in TxIds
  PROVE  TxStep(t)
<1>1. CASE UNCHANGED tx
  BY <1>1 DEF TxStep
<1>2. ASSUME NEW u \in TxIds,
             NodeAccepts(u) \/ NodeRejects(u) \/ Mine(u) \/ Reorganize(u)
      PROVE  TxStep(t)
  <2>0. tx \in [TxIds -> NodeRow] /\ height \in Nat
    BY WorkerAssumption DEF Inv, NodeOK
  <2>1. CASE u # t
    BY <1>2, <2>0, <2>1 DEF NodeAccepts, NodeRejects, Mine, Reorganize, TxStep
  <2>2. CASE u = t /\ (NodeAccepts(t) \/ NodeRejects(t) \/ Reorganize(t))
    BY <2>0, <2>2 DEF NodeAccepts, NodeRejects, Reorganize, Mined, TxStep, NodeRow
  <2>3. CASE u = t /\ Mine(t)
    <3>1. tx'[t] = [status |-> "mined", block |-> height + 1]
      BY <2>0, <2>3 DEF Mine
    <3>2. tx'[t].status = "mined" /\ tx'[t].block > 0
      BY <2>0, <3>1
    <3> QED BY <2>3, <3>2 DEF Mine, TxStep
  <2> QED BY <1>2, <2>1, <2>2, <2>3
<1>3. ASSUME NEW w \in Workers, SendUpdate(w) PROVE TxStep(t)
  <2>1. PICK n \in 1 .. MaxWrites :
           /\ \A m \in 1 .. MaxWrites :
                (tx[<<wk[w].event, m>>].status = "unsent") <=> (m >= n)
           /\ tx'[<<wk[w].event, n>>].status = "sent"
           /\ \A u \in TxIds : u # <<wk[w].event, n>> => tx'[u] = tx[u]
    BY <1>3, SendStep
  <2>2. tx[<<wk[w].event, n>>].status = "unsent"
    BY <2>1
  <2> QED BY <2>1, <2>2 DEF TxStep
<1>4. ASSUME NEW w \in Workers, Run(w) PROVE TxStep(t)
  BY <1>1, <1>3, <1>4
  DEF Run, LoadForClaim, ClaimJob, BeginPreflight, HeartbeatLease,
      Preflight, ReadFails, SearchReadback, UpdateReturns,
      UpdateRejected, UpdateUnknown, RecordSubmission, BeginConfirmation,
      InspectConfirmation, RecordReorg, BeginReadback, Readback, VerifyReadback,
      CompleteEvent, RecordFailure, SettleRetryable, SettleTerminal,
      MarkDeadLetter, Conflict
<1> QED
  BY <1>1, <1>2, <1>4 DEF Next, Tick, EnqueueAnchor, ClaimEvent, Crash, vars

\* What has been on the chain has been on the chain.
LEMMA OnChainStays ==
  ASSUME Inv, [Next]_vars, NEW e, OnChain(e)
  PROVE  OnChain(e)'
<1>1. PICK t \in TxIds : t[1] = e /\ tx[t].status \in {"mined", "orphaned"}
  BY DEF OnChain
<1>2. tx'[t].status \in {"mined", "orphaned"}
  BY <1>1, NodeStep DEF TxStep
<1> QED BY <1>1, <1>2 DEF OnChain

-----------------------------------------------------------------------------
(* The rows and what a worker has seen.                                    *)

\* A worker's step updates its job under Updates, or leaves both tables alone.
LEMMA RunUpdates ==
  ASSUME Inv, NEW w \in Workers, Run(w)
  PROVE  Updates(w) \/ UNCHANGED <<job, anchor>>
<1>1. CASE \/ ClaimJob(w) \/ BeginPreflight(w) \/ RecordSubmission(w)
           \/ BeginConfirmation(w) \/ RecordReorg(w) \/ BeginReadback(w)
           \/ VerifyReadback(w) \/ RecordFailure(w) \/ MarkDeadLetter(w)
  BY <1>1, TransitionUpdates
<1>2. CASE ~(\/ ClaimJob(w) \/ BeginPreflight(w) \/ RecordSubmission(w)
             \/ BeginConfirmation(w) \/ RecordReorg(w) \/ BeginReadback(w)
             \/ VerifyReadback(w) \/ RecordFailure(w) \/ MarkDeadLetter(w))
  BY <1>2
  DEF Run, LoadForClaim, HeartbeatLease, Preflight, ReadFails, SearchReadback,
      SendUpdate, UpdateReturns, UpdateRejected, UpdateUnknown,
      InspectConfirmation, Readback, CompleteEvent, SettleRetryable,
      SettleTerminal, Conflict
<1> QED BY <1>1, <1>2

\* An update keeps job and anchor record together and the constraints true.
LEMMA UpdateRows ==
  ASSUME RowInv, NEW w \in Workers, Updates(w), NEW f \in Events
  PROVE  RowOK(f)'
<1>0. Inv /\ RowOK(f) /\ SeenOK(wk[w]) /\ wk[w].event \in Events
      /\ job \in [Events -> JobRow] /\ anchor \in [Events -> JobStates \ {"claimed", "preflight"}]
  BY EventOf DEF RowInv, Inv, JobsOK, AnchorsOK
<1>1. PICK r \in JobRow : /\ Moved(w, job[wk[w].event], r)
                          /\ job' = [job EXCEPT ![wk[w].event] = r]
                          /\ AnchorAfter(wk[w].event, r)
  BY DEF Updates
<1>2. CASE f # wk[w].event
  <2>1. job'[f] = job[f] /\ anchor'[f] = anchor[f] /\ ob' = ob
    BY <1>0, <1>1, <1>2 DEF AnchorAfter, Updates
  <2> QED BY <1>0, <2>1 DEF RowOK
<1>3. CASE f = wk[w].event
  <2>1. /\ job'[f] = r /\ ob' = ob
        /\ anchor'[f] = IF r.state \in {"claimed", "preflight"} THEN anchor[f] ELSE r.state
    BY <1>0, <1>1, <1>3 DEF AnchorAfter, Updates
  <2>2. ob[f].state \in {"claimed", "dead_letter"}
    BY <1>3, AcceptedExpected DEF Updates
  <2>3. PICK j : j = job[f]
    OBVIOUS
  <2>4. Moved(w, j, r) /\ j \in JobRow
    BY <1>0, <1>1, <1>3, <2>3
  <2>5. /\ j.state # "none" /\ r.state # "none"
        /\ \/ anchor[f] = j.state
           \/ j.state \in {"claimed", "preflight"} /\ anchor[f] \in Resumable
        /\ j.state \in {"readback", "verified"} => j.block > 0
        /\ j.amb => j.state \in {"retryable_failed", "claimed", "preflight"}
    BY <1>0, <2>2, <2>3, <2>4 DEF RowOK, Moved
  <2>6. \/ anchor'[f] = r.state
        \/ r.state \in {"claimed", "preflight"} /\ anchor'[f] \in Resumable
    <3>1. anchor[f] \notin {"claimed", "preflight"}
      BY <1>0
    <3> QED BY <2>1, <2>4, <2>5, <3>1 DEF Moved, Resumable
  <2>7. r.state \in {"readback", "verified"} => r.block > 0
    BY <1>0, <2>4, <2>5 DEF Moved, SeenOK
  <2>8. r.amb => r.state \in {"retryable_failed", "claimed", "preflight"}
    <3> SUFFICES ASSUME r.amb
                 PROVE  r.state \in {"retryable_failed", "claimed", "preflight"}
      OBVIOUS
    <3>1. \/ j.amb /\ r.state \in {"claimed", "preflight", "confirming",
                                   "reorg_pending", "readback", "verified"}
          \/ wk[w].pc = "failed" /\ wk[w].err.ambiguous
      BY <2>4 DEF Moved
    <3>2. CASE j.amb /\ r.state \in {"claimed", "preflight", "confirming",
                                     "reorg_pending", "readback", "verified"}
      BY <2>4, <2>5, <3>2 DEF Moved
    <3>3. CASE wk[w].pc = "failed" /\ wk[w].err.ambiguous
      BY <1>0, <2>4, <3>3 DEF Moved, SeenOK
    <3> QED BY <3>1, <3>2, <3>3
  <2> QED BY <2>1, <2>2, <2>5, <2>6, <2>7, <2>8 DEF RowOK
<1> QED BY <1>2, <1>3

-----------------------------------------------------------------------------
(* The steps of processNext by what they do to the worker's locals.        *)

Keeps(w) ==
  /\ wk'[w].event = wk[w].event /\ wk'[w].tx = wk[w].tx /\ wk'[w].amb = wk[w].amb
  /\ wk'[w].timer = wk[w].timer /\ wk'[w].err = wk[w].err

Loads(w) ==
  LET j == job[wk[w].event]
  IN  /\ wk[w].pc = "load" /\ wk'[w].event = wk[w].event
      /\ wk'[w].timer = wk[w].timer /\ wk'[w].err = wk[w].err
      /\ wk'[w].js = j.state /\ wk'[w].tx = j.tx /\ wk'[w].amb = j.amb
      /\ wk'[w].pc = IF j.state \in Resumable \cup InProgress \cup {"claimed", "verified"}
                     THEN "run" ELSE "settle"
      /\ UNCHANGED <<ob, job, tx>>

Beats(w) ==
  /\ wk[w].pc = "run" /\ wk[w].js \in InProgress
  /\ wk'[w].pc = "beat" /\ wk'[w].js = wk[w].js /\ Keeps(w)
  /\ \E lag \in Lags : Heartbeat(w, wk[w].event, lag)
  /\ UNCHANGED <<job, tx>>

Passes(w) ==
  /\ wk[w].pc = "beat" /\ wk[w].js = "preflight"
  /\ wk'[w].pc = IF wk[w].tx # NoTx THEN "record"
                 ELSE IF wk[w].amb THEN "search" ELSE "write"
  /\ Keeps(w)
  /\ UNCHANGED <<ob, job, tx>>

Fails(w) ==
  /\ wk[w].pc \in {"search", "beat", "writing"}
  /\ wk'[w].pc = "failed" /\ wk'[w].event = wk[w].event /\ wk'[w].timer = 0
  /\ wk'[w].err.ambiguous => wk'[w].err.retryable
  /\ wk[w].pc = "beat" => wk[w].js # "submitted"
  /\ "read_fails" \notin Faults =>
       /\ wk[w].pc = "search" => wk'[w].err.ambiguous
       /\ wk[w].pc = "beat" => wk[w].js \in {"confirming", "readback"}
  /\ wk[w].pc = "writing" /\ ~wk'[w].err.ambiguous => tx[wk[w].tx].status = "rejected"
  /\ UNCHANGED <<ob, job, tx>>

Finds(w) ==
  /\ \/ wk[w].pc = "search"
     \/ wk[w].pc = "writing" /\ wk'[w].tx = wk[w].tx
  /\ wk'[w].pc = "record" /\ wk'[w].event = wk[w].event
  /\ wk'[w].timer \in {0, wk[w].timer}
  /\ UNCHANGED <<ob, job, tx>>

Inspects(w) ==
  /\ wk[w].pc = "beat" /\ Keeps(w)
  /\ \/ /\ wk[w].js = "confirming" /\ wk'[w].pc = "confirmed"
        /\ wk[w].tx \in TxIds /\ Mined(wk[w].tx) /\ wk'[w].block = tx[wk[w].tx].block
     \/ wk[w].js = "confirming" /\ wk'[w].pc = "reorged"
     \/ wk[w].js = "readback" /\ wk'[w].pc = "matched" /\ ContentFound(wk[w].event)
  /\ UNCHANGED <<ob, job, tx>>

Continues(w) ==
  /\ Updates(w)
  /\ wk'[w].pc = "run" /\ wk'[w].event = wk[w].event /\ wk'[w].timer = wk[w].timer
  /\ \/ /\ wk[w].pc = "run"
        /\ wk'[w].tx = job[wk[w].event].tx /\ wk'[w].amb = job[wk[w].event].amb
        /\ \/ wk[w].js \in Resumable /\ wk'[w].js = "claimed"
           \/ wk[w].js = "claimed" /\ wk'[w].js = "preflight"
     \/ /\ wk[w].pc = "record" /\ wk'[w].js = "submitted"
        /\ wk'[w].tx = wk[w].tx /\ ~wk'[w].amb
     \/ /\ wk'[w].tx = wk[w].tx /\ wk'[w].amb = wk[w].amb
        /\ \/ wk[w].pc = "beat" /\ wk[w].js = "submitted" /\ wk'[w].js = "confirming"
           \/ wk[w].pc = "confirmed" /\ wk'[w].js = "readback"
           \/ wk[w].pc = "matched" /\ wk'[w].js = "verified"

Closes(w) ==
  /\ Updates(w)
  /\ wk'[w].pc = "settle" /\ wk'[w].event = wk[w].event /\ wk'[w].timer = wk[w].timer
  /\ \/ wk[w].pc = "reorged" /\ wk'[w].err.retryable
     \/ wk[w].pc = "failed" /\ wk'[w].err = wk[w].err

Ends(w) == wk'[w].pc \in {"idle", "bury"}

\* Every step of processNext after the claim is one of those.
LEMMA RunSteps ==
  ASSUME Inv, NEW w \in Workers, Run(w)
  PROVE  \/ Loads(w) \/ Beats(w) \/ Passes(w) \/ Fails(w) \/ Finds(w)
         \/ SendUpdate(w) \/ Inspects(w) \/ Continues(w) \/ Closes(w) \/ Ends(w)
<1>0. /\ WorkersOK /\ wk[w] \in Locals /\ LocalsOK(wk[w]) /\ wk[w].event \in Events
      /\ job[wk[w].event] \in JobRow
  BY EventOf DEF Inv, JobsOK
<1>i. ASSUME Goto(w, Idle) PROVE Ends(w)
  <2>1. wk'[w] = Idle /\ Idle.pc = "idle"
    BY <1>0, <1>i, GotoFields DEF Idle
  <2> QED BY <2>1 DEF Ends
<1>1. CASE LoadForClaim(w)
  <2>1. PICK pc : pc = IF job[wk[w].event].state \in Resumable \cup InProgress \cup {"claimed", "verified"}
                       THEN "run" ELSE "settle"
    OBVIOUS
  <2>2. PICK j : j = job[wk[w].event]
    OBVIOUS
  <2>3. wk'[w] = [wk[w] EXCEPT !.pc = pc, !.js = j.state, !.tx = j.tx, !.amb = j.amb]
    BY <1>0, <1>1, <2>1, <2>2, GotoFields DEF LoadForClaim
  <2>4. /\ wk'[w].pc = pc /\ wk'[w].event = wk[w].event
        /\ wk'[w].timer = wk[w].timer /\ wk'[w].err = wk[w].err
        /\ wk'[w].js = j.state /\ wk'[w].tx = j.tx /\ wk'[w].amb = j.amb
    BY <1>0, <2>3 DEF Locals
  <2> QED BY <1>1, <2>1, <2>2, <2>4 DEF Loads, LoadForClaim
<1>2. CASE HeartbeatLease(w)
  <2>1. /\ wk'[w].pc = "beat" /\ wk'[w].js = wk[w].js /\ Keeps(w)
    BY <1>0, <1>2, JumpFields DEF HeartbeatLease, Keeps
  <2>2. \E lag \in Lags : Heartbeat(w, wk[w].event, lag)
    BY <1>2 DEF HeartbeatLease
  <2> QED BY <1>2, <2>1, <2>2 DEF Beats, HeartbeatLease
<1>3. CASE Preflight(w)
  <2>1. PICK pc : pc = IF wk[w].tx # NoTx THEN "record"
                       ELSE IF wk[w].amb THEN "search" ELSE "write"
    OBVIOUS
  <2>2. Goto(w, [wk[w] EXCEPT !.pc = pc])
    BY <1>3, <2>1 DEF Preflight
  <2>3. wk'[w].pc = pc /\ Keeps(w)
    BY <1>0, <2>2, JumpFields DEF Keeps
  <2> QED BY <1>3, <2>1, <2>3 DEF Passes, Preflight
<1>f. ASSUME NEW r \in BOOLEAN, NEW a \in BOOLEAN, Fail(w, Error(r, a)), a => r,
             wk[w].pc \in {"search", "beat", "writing"},
             wk[w].pc = "beat" => wk[w].js # "submitted",
             "read_fails" \notin Faults =>
               /\ wk[w].pc = "search" => a
               /\ wk[w].pc = "beat" => wk[w].js \in {"confirming", "readback"},
             wk[w].pc = "writing" /\ ~a => tx[wk[w].tx].status = "rejected",
             UNCHANGED <<ob, job, tx>>
      PROVE  Fails(w)
  <2>1. PICK er : er = Error(r, a)
    OBVIOUS
  <2>2. er.retryable = r /\ er.ambiguous = a
    BY <2>1, ErrorFields
  <2>3. /\ wk'[w].pc = "failed" /\ wk'[w].event = wk[w].event
        /\ wk'[w].err = er /\ wk'[w].timer = 0
    BY <1>0, <1>f, <2>1, FailFields
  <2> QED BY <1>f, <2>2, <2>3 DEF Fails
<1>4. CASE ReadFails(w)
  <2>1. PICK r \in BOOLEAN : Fail(w, Error(r, FALSE))
    BY <1>4 DEF ReadFails
  <2>2. /\ "read_fails" \in Faults /\ wk[w].pc \in {"search", "beat"}
        /\ wk[w].pc = "beat" => wk[w].js # "submitted"
        /\ UNCHANGED <<ob, job, tx>>
    BY <1>4 DEF ReadFails
  <2> QED BY <1>f, <2>1, <2>2
<1>5. CASE UpdateRejected(w) \/ UpdateUnknown(w)
  <2>1. PICK r \in BOOLEAN, a \in BOOLEAN :
          /\ Fail(w, Error(r, a)) /\ (a => r)
          /\ ~a => tx[wk[w].tx].status = "rejected"
    BY <1>5 DEF UpdateRejected, UpdateUnknown
  <2>2. wk[w].pc = "writing" /\ UNCHANGED <<ob, job, tx>>
    BY <1>5 DEF UpdateRejected, UpdateUnknown
  <2> QED BY <1>f, <2>1, <2>2
<1>6. CASE SearchReadback(w)
  <2>0. wk[w].pc = "search" /\ UNCHANGED <<ob, job, tx>>
    BY <1>6 DEF SearchReadback
  <2>1. CASE Fail(w, Error(TRUE, TRUE))
    BY <1>f, <2>0, <2>1
  <2>2. ASSUME NEW t, Goto(w, [wk[w] EXCEPT !.pc = "record", !.tx = t]) PROVE Finds(w)
    <3>1. wk'[w] = [wk[w] EXCEPT !.pc = "record", !.tx = t]
      BY <1>0, <2>2, GotoFields
    <3>2. wk'[w].pc = "record" /\ wk'[w].event = wk[w].event /\ wk'[w].timer = wk[w].timer
      BY <1>0, <3>1 DEF Locals
    <3> QED BY <2>0, <3>2 DEF Finds
  <2> QED BY <1>6, <2>1, <2>2 DEF SearchReadback
<1>7. CASE UpdateReturns(w)
  <2>1. wk'[w] = [wk[w] EXCEPT !.pc = "record", !.timer = 0]
    BY <1>0, <1>7, GotoFields DEF UpdateReturns
  <2>2. /\ wk'[w].pc = "record" /\ wk'[w].event = wk[w].event
        /\ wk'[w].timer = 0 /\ wk'[w].tx = wk[w].tx
    BY <1>0, <2>1 DEF Locals
  <2> QED BY <1>7, <2>2 DEF Finds, UpdateReturns
<1>8. CASE InspectConfirmation(w)
  <2>0. wk[w].pc = "beat" /\ wk[w].js = "confirming" /\ UNCHANGED <<ob, job, tx>>
    BY <1>8 DEF InspectConfirmation
  <2>1. wk[w].tx \in TxIds
    BY <1>0, <2>0 DEF LocalsOK, Sent
  <2>2. CASE Fail(w, Error(TRUE, FALSE))
    BY <1>f, <2>0, <2>2
  <2>3. CASE Goto(w, [wk[w] EXCEPT !.pc = "reorged"])
    <3>1. wk'[w].pc = "reorged" /\ Keeps(w)
      BY <1>0, <2>3, JumpFields DEF Keeps
    <3> QED BY <2>0, <3>1 DEF Inspects
  <2>4. CASE /\ Mined(wk[w].tx)
             /\ Goto(w, [wk[w] EXCEPT !.pc = "confirmed", !.block = tx[wk[w].tx].block])
    <3>1. wk'[w] = [wk[w] EXCEPT !.pc = "confirmed", !.block = tx[wk[w].tx].block]
      BY <1>0, <2>4, GotoFields
    <3>2. wk'[w].pc = "confirmed" /\ wk'[w].block = tx[wk[w].tx].block /\ Keeps(w)
      BY <1>0, <3>1 DEF Locals, Keeps
    <3> QED BY <2>0, <2>1, <2>4, <3>2 DEF Inspects
  <2> QED BY <1>8, <2>2, <2>3, <2>4 DEF InspectConfirmation
<1>9. CASE Readback(w)
  <2>0. wk[w].pc = "beat" /\ wk[w].js = "readback" /\ UNCHANGED <<ob, job, tx>>
    BY <1>9 DEF Readback
  <2>1. CASE Fail(w, Error(FALSE, FALSE))
    BY <1>f, <2>0, <2>1
  <2>2. CASE ContentFound(wk[w].event) /\ Goto(w, [wk[w] EXCEPT !.pc = "matched"])
    <3>1. wk'[w].pc = "matched" /\ Keeps(w)
      BY <1>0, <2>2, JumpFields DEF Keeps
    <3> QED BY <2>0, <2>2, <3>1 DEF Inspects
  <2> QED BY <1>9, <2>1, <2>2 DEF Readback
<1>10. CASE ClaimJob(w) \/ BeginPreflight(w)
  <2>1. PICK next \in {"claimed", "preflight"} :
          /\ Continue(w, next, job[wk[w].event].tx, job[wk[w].event].amb)
          /\ wk[w].pc = "run"
          /\ \/ wk[w].js \in Resumable /\ next = "claimed"
             \/ wk[w].js = "claimed" /\ next = "preflight"
    BY <1>10 DEF ClaimJob, BeginPreflight
  <2>2. Updates(w)
    BY <1>10, TransitionUpdates
  <2> QED BY <1>0, <2>1, <2>2, ContinueFields DEF Continues
<1>11. CASE RecordSubmission(w)
  <2>1. Continue(w, "submitted", wk[w].tx, FALSE) /\ wk[w].pc = "record"
    BY <1>11 DEF RecordSubmission
  <2>2. Updates(w)
    BY <1>11, TransitionUpdates
  <2>3. /\ wk'[w].pc = "run" /\ wk'[w].event = wk[w].event /\ wk'[w].js = "submitted"
        /\ wk'[w].tx = wk[w].tx /\ wk'[w].amb = FALSE /\ wk'[w].timer = wk[w].timer
    BY <1>0, <2>1, ContinueFields
  <2> QED BY <2>1, <2>2, <2>3 DEF Continues
<1>12. CASE BeginConfirmation(w) \/ BeginReadback(w) \/ VerifyReadback(w)
  <2>1. PICK next \in {"confirming", "readback", "verified"} :
          /\ Continue(w, next, wk[w].tx, wk[w].amb)
          /\ \/ wk[w].pc = "beat" /\ wk[w].js = "submitted" /\ next = "confirming"
             \/ wk[w].pc = "confirmed" /\ next = "readback"
             \/ wk[w].pc = "matched" /\ next = "verified"
    BY <1>12 DEF BeginConfirmation, BeginReadback, VerifyReadback
  <2>2. Updates(w)
    BY <1>12, TransitionUpdates
  <2> QED BY <1>0, <2>1, <2>2, ContinueFields DEF Continues
<1>13. CASE RecordReorg(w)
  <2>1. PICK er : er = Error(TRUE, FALSE)
    OBVIOUS
  <2>2. wk'[w] = [wk[w] EXCEPT !.pc = "settle", !.err = er] /\ wk[w].pc = "reorged"
    BY <1>0, <1>13, <2>1, GotoFields DEF RecordReorg
  <2>3. /\ wk'[w].pc = "settle" /\ wk'[w].event = wk[w].event
        /\ wk'[w].timer = wk[w].timer /\ wk'[w].err = er
    BY <1>0, <2>2 DEF Locals
  <2>4. er.retryable
    BY <2>1, ErrorFields
  <2>5. Updates(w)
    BY <1>13, TransitionUpdates
  <2> QED BY <2>2, <2>3, <2>4, <2>5 DEF Closes
<1>14. CASE RecordFailure(w)
  <2>1. Goto(w, [wk[w] EXCEPT !.pc = "settle"]) /\ wk[w].pc = "failed"
    BY <1>14 DEF RecordFailure
  <2>2. Updates(w)
    BY <1>14, TransitionUpdates
  <2> QED BY <1>0, <2>1, <2>2, JumpFields DEF Closes
<1>15. CASE SettleRetryable(w)
  <2>1. PICK l : l = [Idle EXCEPT !.pc = "bury", !.event = wk[w].event,
                                  !.attempt = wk[w].attempt]
    OBVIOUS
  <2>2. l.pc = "bury"
    BY <2>1 DEF Idle
  <2>3. Goto(w, l) \/ Goto(w, Idle)
    BY <1>15, <2>1 DEF SettleRetryable
  <2>4. CASE Goto(w, l)
    BY <1>0, <2>2, <2>4, GotoFields DEF Ends
  <2> QED BY <1>i, <2>3, <2>4
<1>16. CASE CompleteEvent(w) \/ SettleTerminal(w) \/ MarkDeadLetter(w) \/ Conflict(w)
  BY <1>16, <1>i DEF CompleteEvent, SettleTerminal, MarkDeadLetter, Conflict
<1> QED
  BY <1>1, <1>2, <1>3, <1>4, <1>5, <1>6, <1>7, <1>8, <1>9, <1>10, <1>11, <1>12,
     <1>13, <1>14, <1>15, <1>16 DEF Run

-----------------------------------------------------------------------------
(* The row invariant.                                                      *)

\* What the stepping worker has seen is so.
LEMMA SeenRun ==
  ASSUME RowInv, NEW w \in Workers, Run(w)
  PROVE  SeenOK(wk[w])'
<1>0. Inv /\ SeenOK(wk[w]) /\ \A t \in TxIds : tx[t].status = "mined" => tx[t].block > 0
  BY DEF RowInv
<1>1. CASE Loads(w) \/ Beats(w) \/ Passes(w) \/ Fails(w) \/ Finds(w)
           \/ Continues(w) \/ Closes(w) \/ Ends(w)
  BY <1>1 DEF Loads, Beats, Passes, Fails, Finds, Continues, Closes, Ends, SeenOK
<1>2. CASE SendUpdate(w)
  BY <1>0, <1>2, SendStep DEF SeenOK
<1>3. CASE Inspects(w)
  <2>0. wk'[w].pc \in {"confirmed", "reorged", "matched"} /\ tx' = tx
        /\ wk'[w].event = wk[w].event
    BY <1>3 DEF Inspects, Keeps
  <2>1. wk'[w].pc = "confirmed" => wk'[w].block > 0
    BY <1>0, <1>3 DEF Inspects, Mined
  <2>2. wk'[w].pc = "matched" => OnChain(wk[w].event)
    BY <1>3 DEF Inspects, ContentFound, OwnMined, MinedFor, Mined, OnChain
  <2>3. wk'[w].pc = "matched" => OnChain(wk[w].event)'
    BY <2>0, <2>2 DEF OnChain
  <2> QED BY <2>0, <2>1, <2>3 DEF SeenOK
<1> QED BY <1>0, <1>1, <1>2, <1>3, RunSteps

\* There is no job, and no worker has seen anything, in the beginning.
LEMMA RowInit == Init => RowInv
<1> SUFFICES ASSUME Init PROVE RowInv
  OBVIOUS
<1>1. Inv
  BY InvInit
<1>2. ASSUME NEW e \in Events PROVE RowOK(e)
  <2>1. ob[e].state = "none" /\ job[e].state = "none" /\ ~job[e].amb /\ anchor[e] = "none"
    BY DEF Init, OutboxInit
  <2> QED BY <2>1 DEF RowOK
<1>3. ASSUME NEW w \in Workers PROVE SeenOK(wk[w])
  <2>1. wk[w] = Idle /\ Idle.pc = "idle"
    BY DEF Init, Idle
  <2> QED BY <2>1 DEF SeenOK
<1>4. \A t \in TxIds : tx[t].status # "mined"
  BY DEF Init
<1> QED BY <1>1, <1>2, <1>3, <1>4 DEF RowInv

\* Every step keeps the rows and what the workers have seen.
LEMMA RowStep ==
  ASSUME RowInv, [Next]_vars
  PROVE  RowInv'
<1>0. /\ Inv /\ WorkersOK /\ \A e \in Events : RowOK(e)
      /\ \A w \in Workers : SeenOK(wk[w])
      /\ \A t \in TxIds : tx[t].status = "mined" => tx[t].block > 0
  BY DEF RowInv, Inv
<1>a. Inv'
  BY <1>0, InvStep
<1>t. \A t \in TxIds : tx'[t].status = "mined" => tx'[t].block > 0
  BY <1>0, NodeStep DEF TxStep
<1>v. ASSUME NEW v \in Workers,
             \/ wk'[v] = Idle
             \/ /\ wk'[v].pc = wk[v].pc /\ wk'[v].event = wk[v].event
                /\ wk'[v].err = wk[v].err /\ wk'[v].block = wk[v].block
      PROVE  SeenOK(wk[v])'
  <2>1. CASE wk'[v] = Idle
    <3>1. Idle.pc = "idle"
      BY DEF Idle
    <3> QED BY <2>1, <3>1 DEF SeenOK
  <2>2. CASE /\ wk'[v].pc = wk[v].pc /\ wk'[v].event = wk[v].event
             /\ wk'[v].err = wk[v].err /\ wk'[v].block = wk[v].block
    <3>1. PICK e : e = wk[v].event
      OBVIOUS
    <3>2. SeenOK(wk[v])
      BY <1>0
    <3>3. wk[v].pc = "matched" => OnChain(e)'
      BY <1>0, <3>1, <3>2, OnChainStays DEF SeenOK
    <3> QED BY <2>2, <3>1, <3>2, <3>3 DEF SeenOK, OnChain
  <2> QED BY <1>v, <2>1, <2>2
<1>u. ASSUME UNCHANGED <<job, anchor>>, NEW e \in Events,
             (ob'[e].state = "none") <=> (ob[e].state = "none")
      PROVE  RowOK(e)'
  BY <1>0, <1>u DEF RowOK
<1>1. CASE Tick
  <2>1. \A e \in Events : ob'[e].state = ob[e].state
    BY <1>1 DEF Tick, TickOutbox, Later
  <2>2. \A v \in Workers : /\ wk'[v].pc = wk[v].pc /\ wk'[v].event = wk[v].event
                           /\ wk'[v].err = wk[v].err /\ wk'[v].block = wk[v].block
    BY <1>0, <1>1, EventOf DEF Tick, Locals
  <2> QED BY <1>1, <1>a, <1>t, <1>u, <1>v, <2>1, <2>2 DEF RowInv, Tick
<1>2. ASSUME NEW e \in Events, EnqueueAnchor(e) PROVE RowInv'
  <2>1. wk' = wk
    BY <1>2 DEF EnqueueAnchor
  <2>2. ASSUME NEW f \in Events \ {e} PROVE RowOK(f)'
    <3>1. ob'[f] = ob[f] /\ job'[f] = job[f] /\ anchor'[f] = anchor[f]
      BY <1>0, <1>2 DEF EnqueueAnchor, InsertEvent, Inv, TypeInv, OutboxTypeOK,
                        JobsOK, AnchorsOK
    <3> QED BY <1>0, <3>1 DEF RowOK
  <2>3. RowOK(e)'
    <3>1. /\ ob[e].state = "none" /\ ob'[e].state = "pending"
      BY <1>0, <1>2 DEF EnqueueAnchor, InsertEvent, Released, Inv, TypeInv, OutboxTypeOK
    <3>2. job'[e].state = "pending" /\ job'[e].amb = job[e].amb /\ anchor'[e] = "pending"
      BY <1>0, <1>2 DEF EnqueueAnchor, Inv, JobsOK, JobRow, AnchorsOK
    <3>3. ~job[e].amb
      BY <1>0, <3>1 DEF RowOK
    <3> QED BY <3>1, <3>2, <3>3 DEF RowOK
  <2>4. \A v \in Workers : SeenOK(wk[v])'
    BY <1>v, <2>1
  <2> QED BY <1>a, <1>t, <2>2, <2>3, <2>4 DEF RowInv
<1>3. ASSUME NEW w \in Workers, ClaimEvent(w) PROVE RowInv'
  <2>1. PICK e \in Events, lag \in Lags :
          /\ ClaimNext(w, e, lag)
          /\ Goto(w, [Idle EXCEPT !.pc = "load", !.event = e,
                                  !.attempt = ob[e].attempts + 1])
    BY <1>3 DEF ClaimEvent
  <2>2. /\ ob[e].state # "none" /\ ob'[e].state = "claimed"
        /\ \A f \in Events \ {e} : ob'[f] = ob[f]
    BY <1>0, <2>1 DEF ClaimNext, Claimable, OpenStates, Leased, Inv, TypeInv, OutboxTypeOK
  <2>3. PICK l : l = [Idle EXCEPT !.pc = "load", !.event = e,
                                  !.attempt = ob[e].attempts + 1]
    OBVIOUS
  <2>4. l.pc = "load"
    BY <2>3 DEF Idle
  <2>5. wk'[w] = l /\ \A v \in Workers \ {w} : wk'[v] = wk[v]
    BY <1>0, <2>1, <2>3, GotoFields
  <2>6. SeenOK(wk[w])'
    BY <2>4, <2>5 DEF SeenOK
  <2>7. \A v \in Workers : SeenOK(wk[v])'
    BY <1>v, <2>5, <2>6
  <2>8. \A f \in Events : RowOK(f)'
    BY <1>3, <1>u, <2>2 DEF ClaimEvent
  <2> QED BY <1>a, <1>t, <2>7, <2>8 DEF RowInv
<1>4. ASSUME NEW w \in Workers, Run(w) PROVE RowInv'
  <2>1. RowsAfter(w) /\ LocalsAfter(w)
    BY <1>0, <1>4, RunShape
  <2>2. SeenOK(wk[w])'
    BY <1>4, SeenRun
  <2>3. \A v \in Workers : SeenOK(wk[v])'
    BY <1>v, <2>1, <2>2 DEF LocalsAfter
  <2>4. \A f \in Events : (ob'[f].state = "none") <=> (ob[f].state = "none")
    BY <2>1 DEF RowsAfter, SameRow, Closed, FinalStates, Holds
  <2>5. \A f \in Events : RowOK(f)'
    BY <1>0, <1>4, <1>u, <2>4, RunUpdates, UpdateRows
  <2> QED BY <1>a, <1>t, <2>3, <2>5 DEF RowInv
<1>5. ASSUME NEW w \in Workers, Crash(w) PROVE RowInv'
  <2>1. wk'[w] = Idle /\ \A v \in Workers \ {w} : wk'[v] = wk[v]
    BY <1>0, <1>5, GotoFields DEF Crash
  <2>2. \A v \in Workers : SeenOK(wk[v])'
    BY <1>v, <2>1
  <2>3. \A f \in Events : RowOK(f)'
    BY <1>5, <1>u DEF Crash
  <2> QED BY <1>a, <1>t, <2>2, <2>3 DEF RowInv
<1>6. CASE UNCHANGED <<ob, job, anchor, wk>>
  BY <1>6, <1>a, <1>t, <1>u, <1>v DEF RowInv
<1> QED
  BY <1>1, <1>2, <1>3, <1>4, <1>5, <1>6
  DEF Next, NodeAccepts, NodeRejects, Mine, Reorganize, vars

\* The CHECK constraints of verus_job hold whatever workers, faults and clocks
\* do, even when two workers run under one reference.
THEOREM AnchorConstraintsHold == Spec => []ConstraintsHold
<1>1. Spec => []RowInv
  BY RowInit, RowStep, PTL DEF Spec
<1>2. RowInv => ConstraintsHold
  <2> SUFFICES ASSUME RowInv, NEW e \in Events
               PROVE  /\ job[e].state = "verified" => job[e].tx # NoTx /\ job[e].block > 0
                      /\ job[e].amb => job[e].state \in {"retryable_failed", "claimed", "preflight"}
    BY DEF ConstraintsHold
  <2>1. RowOK(e) /\ JobOK(job[e])
    BY DEF RowInv, Inv, JobsOK
  <2> QED BY <2>1, WorkerAssumption DEF RowOK, JobOK, Sent
<1> QED BY <1>1, <1>2, PTL

\* The triggers of the database accept every update the repository makes, in
\* whatever state of the pipeline it makes it.
THEOREM AnchorTriggersAccept == Spec => TriggersAccept
<1>1. Spec => []RowInv
  BY RowInit, RowStep, PTL DEF Spec
<1> DEFINE AcceptedBy(e) ==
      /\ job'[e] # job[e] => JobGuard(job[e].state, job'[e].state)
      /\ anchor'[e] # anchor[e] => AnchorGuard(anchor[e], anchor'[e])
<1>2. RowInv /\ [Next]_vars =>
        [\A e \in Events : job[e].state # "none" => AcceptedBy(e)]_vars
  <2> SUFFICES ASSUME RowInv, Next, NEW f \in Events, job[f].state # "none"
               PROVE  AcceptedBy(f)
    BY DEF vars
  <2>0. /\ Inv /\ RowOK(f) /\ job \in [Events -> JobRow]
        /\ anchor \in [Events -> JobStates \ {"claimed", "preflight"}]
    BY DEF RowInv, Inv, JobsOK, AnchorsOK
  <2>1. CASE UNCHANGED <<job, anchor>>
    BY <2>1
  <2>2. ASSUME NEW e \in Events, EnqueueAnchor(e) PROVE AcceptedBy(f)
    <3>1. f # e
      BY <2>0, <2>2 DEF EnqueueAnchor, InsertEvent, RowOK
    <3> QED BY <2>0, <2>2, <3>1 DEF EnqueueAnchor
  <2>3. ASSUME NEW w \in Workers, Updates(w) PROVE AcceptedBy(f)
    <3>0. wk[w].event \in Events
      BY EventOf DEF RowInv, Inv
    <3>1. PICK r \in JobRow : /\ Moved(w, job[wk[w].event], r)
                              /\ job' = [job EXCEPT ![wk[w].event] = r]
                              /\ AnchorAfter(wk[w].event, r)
      BY <2>3 DEF Updates
    <3>2. CASE f # wk[w].event
      BY <2>0, <3>0, <3>1, <3>2 DEF AnchorAfter
    <3>3. CASE f = wk[w].event
      <4>1. PICK j, a : j = job[f] /\ a = anchor[f]
        OBVIOUS
      <4>2. /\ job'[f] = r /\ Moved(w, j, r)
            /\ anchor'[f] = IF r.state \in {"claimed", "preflight"} THEN a ELSE r.state
        BY <2>0, <3>0, <3>1, <3>3, <4>1 DEF AnchorAfter
      <4>3. /\ a \notin {"claimed", "preflight"}
            /\ \/ a = j.state
               \/ j.state \in {"claimed", "preflight"} /\ a \in Resumable
        BY <2>0, <4>1 DEF RowOK
      <4>4. JobGuard(j.state, r.state)
        BY <4>2 DEF Moved, JobGuard, InProgress
      <4>5. r.state \notin {"claimed", "preflight"} => AnchorGuard(a, r.state)
        BY <4>2, <4>3 DEF Moved, AnchorGuard, InProgress, Resumable
      <4> QED BY <4>1, <4>2, <4>4, <4>5
    <3> QED BY <3>2, <3>3
  <2>4. ASSUME NEW w \in Workers, Run(w) PROVE AcceptedBy(f)
    <3>1. Updates(w) \/ UNCHANGED <<job, anchor>>
      BY <2>0, <2>4, RunUpdates
    <3> HIDE DEF AcceptedBy
    <3> QED BY <2>1, <2>3, <3>1
  <2> HIDE DEF AcceptedBy
  <2> QED
    BY <2>1, <2>2, <2>4
    DEF Next, Tick, ClaimEvent, Crash, NodeAccepts, NodeRejects, Mine, Reorganize
<1> QED BY <1>1, <1>2, PTL DEF Spec, TriggersAccept

-----------------------------------------------------------------------------
(* The promise.                                                            *)

Status == [e \in Events |-> StatusOf(e)]
Published == {e \in Events : \E t \in Writes(e) : tx[t].status # "mempool"}

\* An event is published once an update of it has been on the chain.
LEMMA PublishedIsOnChain ==
  Published = {e \in Events : OnChain(e)}
<1> SUFFICES ASSUME NEW e \in Events
             PROVE  (\E t \in Writes(e) : tx[t].status # "mempool") <=> OnChain(e)
  BY DEF Published
<1> QED BY DEF Writes, OnChain

\* Only mining adds to what is published, one event at a time.
LEMMA PublishedStep ==
  ASSUME Inv, [Next]_vars
  PROVE  \/ Published' = Published
         \/ /\ UNCHANGED job
            /\ \E e \in Events : Published' = Published \cup {e}
<1>0. \A e \in Events : OnChain(e) => OnChain(e)'
  BY OnChainStays
<1>p. Published = {e \in Events : OnChain(e)} /\ Published' = {e \in Events : OnChain(e)'}
  <2>1. Published = {e \in Events : OnChain(e)}
    BY PublishedIsOnChain
  <2>2. (Published = {e \in Events : OnChain(e)})'
    BY PublishedIsOnChain, PTL
  <2> QED BY <2>1, <2>2
<1>1. CASE \E u \in TxIds : Mine(u)
  <2>1. PICK u \in TxIds : Mine(u)
    BY <1>1
  <2>2. u[1] \in Events
    BY DEF TxIds
  <2>3. tx \in [TxIds -> NodeRow]
    BY DEF Inv, NodeOK
  <2>4. tx'[u].status = "mined" /\ \A t \in TxIds \ {u} : tx'[t] = tx[t]
    BY <2>1, <2>3 DEF Mine
  <2>5. OnChain(u[1])'
    BY <2>4 DEF OnChain
  <2>6. \A e \in Events \ {u[1]} : OnChain(e)' => OnChain(e)
    BY <2>4 DEF OnChain
  <2> QED BY <1>0, <1>p, <2>1, <2>2, <2>5, <2>6 DEF Mine
<1>2. CASE ~\E u \in TxIds : Mine(u)
  <2>1. ASSUME NEW t \in TxIds, tx'[t].status \in {"mined", "orphaned"}
        PROVE  tx[t].status \in {"mined", "orphaned"}
    <3>0. tx \in [TxIds -> NodeRow]
      BY DEF Inv, NodeOK
    <3>1. CASE tx'[t] = tx[t]
      BY <2>1, <3>1
    <3>2. ASSUME NEW u \in TxIds, NodeAccepts(u) \/ NodeRejects(u) \/ Reorganize(u)
          PROVE  tx[t].status \in {"mined", "orphaned"}
      <4>1. CASE u # t
        BY <2>1, <3>0, <3>2, <4>1 DEF NodeAccepts, NodeRejects, Reorganize
      <4>2. CASE u = t
        <5>1. NodeAccepts(t) => tx'[t].status = "mempool"
          BY <3>0 DEF NodeAccepts, NodeRow
        <5>2. NodeRejects(t) => tx'[t].status = "rejected"
          BY <3>0 DEF NodeRejects, NodeRow
        <5> QED BY <2>1, <3>2, <4>2, <5>1, <5>2 DEF Reorganize, Mined
      <4> QED BY <4>1, <4>2
    <3>3. ASSUME NEW w \in Workers, SendUpdate(w)
          PROVE  tx[t].status \in {"mined", "orphaned"}
      BY <2>1, <3>3, SendStep
    <3>4. ASSUME NEW w \in Workers, Run(w)
          PROVE  tx[t].status \in {"mined", "orphaned"}
      BY <3>1, <3>3, <3>4
      DEF Run, LoadForClaim, ClaimJob, BeginPreflight, HeartbeatLease,
          Preflight, ReadFails, SearchReadback, UpdateReturns,
          UpdateRejected, UpdateUnknown, RecordSubmission, BeginConfirmation,
          InspectConfirmation, RecordReorg, BeginReadback, Readback, VerifyReadback,
          CompleteEvent, RecordFailure, SettleRetryable, SettleTerminal,
          MarkDeadLetter, Conflict
    <3> QED
      BY <1>2, <3>1, <3>2, <3>4 DEF Next, Tick, EnqueueAnchor, ClaimEvent, Crash, vars
  <2>2. \A e \in Events : OnChain(e)' => OnChain(e)
    BY <2>1 DEF OnChain
  <2> QED BY <1>0, <1>p, <2>2
<1> QED BY <1>1, <1>2

\* An update verifies or gives up an open anchor, or leaves its status alone.
LEMMA StatusStep ==
  ASSUME RowInv, NEW w \in Workers, Updates(w)
  PROVE  \/ \A e \in Events : StatusOf(e)' = StatusOf(e)
         \/ \E e \in Events :
              /\ StatusOf(e) = "open"
              /\ \/ StatusOf(e)' = "verified" /\ OnChain(e)
                 \/ StatusOf(e)' = "failed"
              /\ \A f \in Events \ {e} : StatusOf(f)' = StatusOf(f)
<1>0. Inv /\ wk[w].event \in Events /\ job \in [Events -> JobRow] /\ SeenOK(wk[w])
  BY EventOf DEF RowInv, Inv, JobsOK
<1>1. PICK r \in JobRow : /\ Moved(w, job[wk[w].event], r)
                          /\ job' = [job EXCEPT ![wk[w].event] = r]
  BY DEF Updates
<1>2. PICK e : e = wk[w].event
  OBVIOUS
<1>3. e \in Events /\ job'[e] = r /\ \A f \in Events \ {e} : job'[f] = job[f]
  BY <1>0, <1>1, <1>2
<1>4. \A f \in Events \ {e} : StatusOf(f)' = StatusOf(f)
  BY <1>3 DEF StatusOf
<1>5. StatusOf(e) = "open"
  <2>1. job[e].state \notin {"verified", "terminal_failed"}
    BY <1>1, <1>2 DEF Moved, Resumable, InProgress
  <2> QED BY <2>1 DEF StatusOf
<1>6. CASE r.state = "verified"
  <2>1. OnChain(e)
    BY <1>0, <1>1, <1>2, <1>6 DEF Moved, SeenOK
  <2>2. StatusOf(e)' = "verified"
    BY <1>3, <1>6 DEF StatusOf
  <2> QED BY <1>3, <1>4, <1>5, <2>1, <2>2
<1>7. CASE r.state = "terminal_failed"
  <2>1. StatusOf(e)' = "failed"
    BY <1>3, <1>7 DEF StatusOf
  <2> QED BY <1>3, <1>4, <1>5, <2>1
<1>8. CASE r.state \notin {"verified", "terminal_failed"}
  <2>1. StatusOf(e)' = "open"
    BY <1>3, <1>8 DEF StatusOf
  <2> QED BY <1>3, <1>4, <1>5, <2>1
<1> QED BY <1>6, <1>7, <1>8

\* The pipeline implements the abstract promise for any workers, faults and
\* clocks: an anchor is verified only after its digest has been on the chain,
\* and what it has become it stays.
THEOREM AnchorKeepsPromise == Spec => KeepsPromise
<1>1. Spec => []RowInv
  BY RowInit, RowStep, PTL DEF Spec
<1>2. Init => Promise!Init
  <2> SUFFICES ASSUME Init PROVE Promise!Init
    OBVIOUS
  <2>1. \A e \in Events : StatusOf(e) = "open"
    BY DEF Init, StatusOf
  <2>2. Published = {}
    <3>1. \A t \in TxIds : tx[t].status = "unsent"
      BY DEF Init
    <3>2. \A e \in Events : ~OnChain(e)
      BY <3>1 DEF OnChain
    <3> QED BY <3>2, PublishedIsOnChain
  <2>3. Status = [e \in Events |-> "open"]
    BY <2>1 DEF Status
  <2> QED BY <2>2, <2>3 DEF Promise!Init, Status, Published
<1>3. RowInv /\ [Next]_vars => [Promise!Next]_<<Status, Published>>
  <2> SUFFICES ASSUME RowInv, [Next]_vars, ~UNCHANGED <<Status, Published>>
               PROVE  Promise!Next
    OBVIOUS
  <2>0. Inv
    BY DEF RowInv
  <2>d. DOMAIN Status = Events /\ \A e \in Events : Status[e] = StatusOf(e)
    BY DEF Status
  <2>e. Status' = [e \in Events |-> StatusOf(e)']
    BY DEF Status
  <2>1. CASE UNCHANGED job
    <3>1. \A e \in Events : StatusOf(e)' = StatusOf(e)
      BY <2>1 DEF StatusOf
    <3>2. Status' = Status
      BY <2>e, <3>1 DEF Status
    <3>3. PICK e \in Events : Published' = Published \cup {e}
      BY <2>0, <3>2, PublishedStep
    <3>4. Promise!Publish(e)
      BY <3>2, <3>3 DEF Promise!Publish, Status, Published
    <3> QED BY <3>4 DEF Promise!Next
  <2>2. ASSUME NEW e \in Events, EnqueueAnchor(e) PROVE Promise!Next
    <3>1. job[e].state = "none" /\ job \in [Events -> JobRow]
      BY <2>2 DEF EnqueueAnchor, InsertEvent, RowInv, RowOK, Inv, JobsOK
    <3>2. job'[e].state = "pending" /\ \A f \in Events \ {e} : job'[f] = job[f]
      BY <2>2, <3>1 DEF EnqueueAnchor, JobRow
    <3>3. \A f \in Events : StatusOf(f)' = StatusOf(f)
      BY <3>1, <3>2 DEF StatusOf
    <3>4. Status' = Status
      BY <2>e, <3>3 DEF Status
    <3>5. Published' = Published
      BY <2>0, <2>1, <3>4, PublishedStep, <2>2, <3>1, <3>2
    <3> QED BY <3>4, <3>5
  <2>3. ASSUME NEW w \in Workers, Updates(w) PROVE Promise!Next
    <3>1. Published' = Published
      BY <2>3 DEF Updates, Published, Writes
    <3>2. PICK e \in Events :
              /\ StatusOf(e) = "open"
              /\ \/ StatusOf(e)' = "verified" /\ OnChain(e)
                 \/ StatusOf(e)' = "failed"
              /\ \A f \in Events \ {e} : StatusOf(f)' = StatusOf(f)
      <4>1. CASE \A e \in Events : StatusOf(e)' = StatusOf(e)
        <5>1. Status' = Status
          BY <2>e, <4>1 DEF Status
        <5> QED BY <3>1, <5>1
      <4> QED BY <2>3, <4>1, StatusStep
    <3>3. CASE StatusOf(e)' = "verified" /\ OnChain(e)
      <4>1. Status' = [Status EXCEPT ![e] = "verified"]
        BY <2>d, <2>e, <3>2, <3>3 DEF Status
      <4>2. e \in Published
        BY <3>3, PublishedIsOnChain
      <4>3. Promise!Verify(e)
        BY <2>d, <3>1, <3>2, <4>1, <4>2 DEF Promise!Verify, Status, Published
      <4> QED BY <4>3 DEF Promise!Next
    <3>4. CASE StatusOf(e)' = "failed"
      <4>1. Status' = [Status EXCEPT ![e] = "failed"]
        BY <2>d, <2>e, <3>2, <3>4 DEF Status
      <4>2. Promise!GiveUp(e)
        BY <2>d, <3>1, <3>2, <4>1 DEF Promise!GiveUp, Status, Published
      <4> QED BY <4>2 DEF Promise!Next
    <3> QED BY <3>2, <3>3, <3>4
  <2>4. ASSUME NEW w \in Workers, Run(w) PROVE Promise!Next
    BY <2>0, <2>1, <2>3, <2>4, RunUpdates
  <2> QED
    BY <2>1, <2>2, <2>4
    DEF Next, Tick, ClaimEvent, Crash, NodeAccepts, NodeRejects, Mine, Reorganize, vars
<1> QED BY <1>1, <1>2, <1>3, PTL DEF Spec, KeepsPromise, Promise!Spec, Status, Published

-----------------------------------------------------------------------------
(* The lease invariant.                                                    *)

\* A worker whose call is accepted holds the lease, or buries a dead letter.
LEMMA AcceptedHolder ==
  ASSUME NEW w \in Workers, NEW lag \in Lags, Accepted(w, lag), wk[w].pc # "idle"
  PROVE  \/ Holder(w)
         \/ wk[w].pc = "bury" /\ ob[wk[w].event].state = "dead_letter"
  BY AcceptedExpected DEF Holder, Holds

\* Another worker's step neither gives a worker a lease nor changes the job
\* under it.
LEMMA OtherHolder ==
  ASSUME OwnReferences, LeaseInv, NEW w \in Workers, Run(w),
         NEW v \in Workers \ {w}, Holder(v)'
  PROVE  Holder(v) /\ wk'[v] = wk[v] /\ job'[wk[v].event] = job[wk[v].event]
<1>0. Inv /\ wk[v].event \in Events /\ wk[w].event \in Events
  BY EventOf DEF LeaseInv, RowInv, Inv
<1>1. RowsAfter(w) /\ LocalsAfter(w) /\ JobsAfter(w)
  BY <1>0, RunShape
<1>2. wk'[v] = wk[v]
  BY <1>1 DEF LocalsAfter
<1>3. SameRow(wk[v].event)
  BY <1>0, <1>1, <1>2 DEF RowsAfter, Closed, FinalStates, Holder
<1>4. Holder(v)
  BY <1>2, <1>3 DEF Holder, SameRow
<1>5. job'[wk[v].event] = job[wk[v].event]
  <2> SUFFICES ASSUME job'[wk[v].event] # job[wk[v].event] PROVE FALSE
    OBVIOUS
  <2>1. PICK lag \in Lags : Accepted(w, lag) /\ wk[v].event = wk[w].event
    BY <1>0, <1>1 DEF JobsAfter
  <2>2. wk[w].pc # "idle"
    BY RunsOnlyBusy
  <2>3. Holder(w)
    BY <1>4, <2>1, <2>2, AcceptedHolder DEF Holder
  <2>4. RefOf[v] = RefOf[w]
    BY <1>4, <2>1, <2>3 DEF Holder
  <2> QED BY <2>4 DEF OwnReferences
<1> QED BY <1>2, <1>4, <1>5

\* The stepping worker's locals go on telling what its job is.
LEMMA OwnView ==
  ASSUME LeaseInv, NEW w \in Workers, Run(w), Holder(w)'
  PROVE  ViewOK(wk[w], job[wk[w].event])'
<1>0. /\ Inv /\ wk[w] \in Locals /\ LocalsOK(wk[w]) /\ wk[w].event \in Events
      /\ job \in [Events -> JobRow] /\ \A e \in Events : RowOK(e)
  BY EventOf DEF LeaseInv, RowInv, Inv, JobsOK
<1>1. RowsAfter(w) /\ LocalsAfter(w)
  BY <1>0, RunShape
<1>2. wk'[w].pc \notin {"idle", "bury"} /\ wk'[w].event = wk[w].event
  <2>1. Idle.pc = "idle"
    BY DEF Idle
  <2> QED BY <1>1, <2>1 DEF Holder, LocalsAfter
<1>3. SameRow(wk[w].event)
  BY <1>0, <1>1, <1>2 DEF RowsAfter, Closed, FinalStates, Holder
<1>4. wk[w].pc \notin {"idle", "bury"}
  <2>1. wk[w].pc # "idle"
    BY RunsOnlyBusy
  <2>2. wk[w].pc # "bury"
    BY <1>2, RunSteps, <1>0, SendStep
    DEF Loads, Beats, Passes, Fails, Finds, Inspects, Continues, Closes, Ends,
        Updates, Moved, SendUpdate
  <2> QED BY <2>1, <2>2
<1>5. Holder(w)
  BY <1>2, <1>3, <1>4 DEF Holder, SameRow
<1>6. PICK e, k, l, j, i :
        /\ e = wk[w].event /\ k = wk[w] /\ l = wk'[w] /\ j = job[e] /\ i = job'[e]
  OBVIOUS
<1>7. ViewOK(k, j) /\ e \in Events /\ j \in JobRow /\ l.event = e /\ k.event = e
  BY <1>0, <1>2, <1>5, <1>6 DEF LeaseInv
<1> SUFFICES ViewOK(l, i)
  BY <1>2, <1>6 DEF ViewOK
<1>8. ob[e].state = "claimed" /\ j.state # "none"
  BY <1>0, <1>5, <1>6, <1>7 DEF Holder, RowOK
<1>9. CASE Loads(w)
  <2>1. /\ k.pc = "load" /\ i = j /\ l.err = k.err
        /\ l.js = j.state /\ l.tx = j.tx /\ l.amb = j.amb
        /\ l.pc = IF j.state \in Resumable \cup InProgress \cup {"claimed", "verified"}
                  THEN "run" ELSE "settle"
    BY <1>6, <1>9 DEF Loads
  <2>2. ~l.err.retryable
    BY <1>7, <2>1 DEF ViewOK
  <2>3. l.pc = "settle" => j.state = "terminal_failed"
    BY <1>7, <1>8, <2>1 DEF JobRow, JobStates, Resumable, InProgress
  <2> QED BY <2>1, <2>2, <2>3 DEF ViewOK
<1>10. CASE Beats(w)
  <2>1. /\ k.pc = "run" /\ i = j /\ l.pc = "beat" /\ l.js = k.js /\ k.js \in InProgress
        /\ l.tx = k.tx /\ l.amb = k.amb
    BY <1>6, <1>10 DEF Beats, Keeps
  <2> QED BY <1>7, <2>1 DEF ViewOK
<1>11. CASE Passes(w)
  <2>1. /\ k.pc = "beat" /\ i = j /\ k.js = "preflight"
        /\ l.pc = IF k.tx # NoTx THEN "record"
                  ELSE IF k.amb THEN "search" ELSE "write"
        /\ l.tx = k.tx /\ l.amb = k.amb
    BY <1>6, <1>11 DEF Passes, Keeps
  <2>2. j.state = "preflight" /\ k.tx = j.tx /\ k.amb = j.amb
    BY <1>7, <2>1 DEF ViewOK
  <2> QED BY <2>1, <2>2 DEF ViewOK
<1>12. CASE Fails(w)
  <2>1. /\ k.pc \in {"search", "beat", "writing"} /\ i = j /\ l.pc = "failed"
    BY <1>6, <1>12 DEF Fails
  <2>2. j.state \in InProgress
    BY <1>7, <2>1 DEF ViewOK, InProgress
  <2> QED BY <2>1, <2>2 DEF ViewOK
<1>13. CASE Finds(w)
  <2>1. k.pc \in {"search", "writing"} /\ i = j /\ l.pc = "record"
    BY <1>6, <1>13 DEF Finds
  <2> QED BY <1>7, <2>1 DEF ViewOK
<1>14. CASE SendUpdate(w)
  <2>1. k.pc = "write" /\ i = j /\ l.pc = "writing"
    BY <1>0, <1>6, <1>14, SendStep DEF SendUpdate
  <2> QED BY <1>7, <2>1 DEF ViewOK
<1>15. CASE Inspects(w)
  <2>1. /\ k.pc = "beat" /\ i = j /\ l.tx = k.tx /\ l.amb = k.amb
        /\ \/ k.js = "confirming" /\ l.pc \in {"confirmed", "reorged"}
           \/ k.js = "readback" /\ l.pc = "matched"
    BY <1>6, <1>15 DEF Inspects, Keeps
  <2> QED BY <1>7, <2>1 DEF ViewOK
<1>u. ASSUME Updates(w)
      PROVE  i \in JobRow /\ Moved(w, j, i)
  <2>1. PICK r \in JobRow : Moved(w, job[wk[w].event], r)
                            /\ job' = [job EXCEPT ![wk[w].event] = r]
    BY <1>u DEF Updates
  <2> QED BY <1>0, <1>6, <2>1
<1>16. CASE Continues(w)
  <2>1. Moved(w, j, i) /\ i \in JobRow
    BY <1>16, <1>u DEF Continues
  <2>2. /\ l.pc = "run"
        /\ \/ /\ k.pc = "run" /\ l.tx = j.tx /\ l.amb = j.amb
              /\ \/ k.js \in Resumable /\ l.js = "claimed"
                 \/ k.js = "claimed" /\ l.js = "preflight"
           \/ /\ k.pc = "record" /\ l.js = "submitted" /\ l.tx = k.tx /\ ~l.amb
           \/ /\ l.tx = k.tx /\ l.amb = k.amb
              /\ \/ k.pc = "beat" /\ k.js = "submitted" /\ l.js = "confirming"
                 \/ k.pc = "confirmed" /\ l.js = "readback"
                 \/ k.pc = "matched" /\ l.js = "verified"
    BY <1>6, <1>16 DEF Continues
  <2>3. l.js = i.state
    BY <1>6, <2>1, <2>2 DEF Moved, Resumable
  <2>4. l.tx = i.tx
    BY <1>6, <1>7, <2>1, <2>2 DEF Moved, ViewOK
  <2>5. l.amb = i.amb
    <3>1. l.amb \in BOOLEAN /\ i.amb \in BOOLEAN
      <4>1. LocalsOK(wk[w])'
        BY <1>0, RunOK DEF WorkersOK
      <4> QED BY <1>6, <2>1, <4>1 DEF LocalsOK, Locals, JobRow
    <3>2. k.pc = "record" => ~l.amb /\ ~i.amb
      BY <1>6, <2>1, <2>2 DEF Moved
    <3>3. k.pc # "record" => l.amb = j.amb /\ i.amb = j.amb
      BY <1>6, <1>7, <2>1, <2>2 DEF Moved, ViewOK
    <3> QED BY <3>1, <3>2, <3>3
  <2>6. l.js \in Resumable \cup InProgress \cup {"claimed", "verified"}
    BY <2>2 DEF InProgress
  <2> QED BY <2>2, <2>3, <2>4, <2>5, <2>6 DEF ViewOK
<1>17. CASE Closes(w)
  <2>1. Moved(w, j, i)
    BY <1>17, <1>u DEF Closes
  <2>2. /\ l.pc = "settle"
        /\ \/ k.pc = "reorged" /\ l.err.retryable
           \/ k.pc = "failed" /\ l.err = k.err
    BY <1>6, <1>17 DEF Closes
  <2>3. IF l.err.retryable THEN i.state \in {"retryable_failed", "reorg_pending"}
        ELSE i.state = "terminal_failed"
    BY <1>6, <2>1, <2>2 DEF Moved
  <2> QED BY <2>2, <2>3 DEF ViewOK
<1>18. ~Ends(w)
  BY <1>2 DEF Ends
<1> QED
  BY <1>0, <1>9, <1>10, <1>11, <1>12, <1>13, <1>14, <1>15, <1>16, <1>17, <1>18, RunSteps

\* A worker settles an event as its job tells.
LEMMA SettledRun ==
  ASSUME LeaseInv, NEW w \in Workers, Run(w), NEW f \in Events
  PROVE  SettledOK(ob'[f].state, job'[f].state)
<1>0. /\ Inv /\ wk[w].event \in Events /\ job \in [Events -> JobRow]
      /\ DOMAIN ob = Events /\ SettledOK(ob[f].state, job[f].state)
  BY EventOf DEF LeaseInv, RowInv, Inv, JobsOK, TypeInv, OutboxTypeOK
<1>1. RowsAfter(w) /\ JobsAfter(w)
  BY <1>0, RunShape
<1>2. CASE Updates(w)
  <2>1. ob' = ob
    BY <1>2 DEF Updates
  <2>2. CASE job'[f] = job[f]
    BY <1>0, <2>1, <2>2
  <2>3. CASE job'[f] # job[f]
    <3>1. PICK lag \in Lags : Accepted(w, lag) /\ f = wk[w].event
      BY <1>1, <2>3 DEF JobsAfter
    <3>2. PICK r \in JobRow : Moved(w, job[f], r) /\ job' = [job EXCEPT ![f] = r]
      BY <1>2, <3>1 DEF Updates
    <3>3. job'[f] = r
      BY <1>0, <3>2
    <3>4. CASE ob[f].state = "claimed"
      BY <2>1, <3>4 DEF SettledOK
    <3>5. CASE wk[w].pc = "bury" /\ ob[f].state = "dead_letter"
      BY <2>1, <3>2, <3>3, <3>5 DEF Moved, SettledOK
    <3> QED BY <3>1, <3>4, <3>5, AcceptedExpected
  <2> QED BY <2>2, <2>3
<1>3. CASE UNCHANGED job /\ (f # wk[w].event \/ SameRow(f))
  BY <1>0, <1>1, <1>3 DEF RowsAfter, SameRow
<1>s. ASSUME NEW lag \in Lags, Holds(w, f, lag), f = wk[w].event, wk[w].pc \notin {"idle", "bury"}
      PROVE  ViewOK(wk[w], job[f])
  <2>1. Holder(w)
    BY <1>s DEF Holds, Holder
  <2> QED BY <1>s, <2>1 DEF LeaseInv
<1>4. CASE CompleteEvent(w) /\ f = wk[w].event
  <2>1. PICK lag \in Lags : Succeed(w, f, lag)
    BY <1>4 DEF CompleteEvent
  <2>2. /\ wk[w].pc = "run" /\ wk[w].js = "verified" /\ job' = job
        /\ Holds(w, f, lag) /\ ob'[f].state = "succeeded"
    BY <1>0, <1>4, <2>1 DEF CompleteEvent, Succeed, Released
  <2>3. job[f].state = "verified"
    BY <1>4, <1>s, <2>2 DEF ViewOK
  <2> QED BY <2>2, <2>3 DEF SettledOK
<1>5. CASE SettleRetryable(w) /\ f = wk[w].event
  <2>1. PICK lag \in Lags : FailRetryable(w, f, lag)
    BY <1>5 DEF SettleRetryable
  <2>2. /\ wk[w].pc = "settle" /\ wk[w].err.retryable /\ job' = job
        /\ Holds(w, f, lag) /\ ob'[f].state \in {"dead_letter", "retryable_failed"}
    BY <1>0, <1>5, <2>1 DEF SettleRetryable, FailRetryable, Released
  <2>3. job[f].state \in {"retryable_failed", "reorg_pending"}
    BY <1>5, <1>s, <2>2 DEF ViewOK
  <2> QED BY <2>2, <2>3 DEF SettledOK
<1>6. CASE SettleTerminal(w) /\ f = wk[w].event
  <2>1. PICK lag \in Lags : FailTerminal(w, f, lag)
    BY <1>6 DEF SettleTerminal
  <2>2. /\ wk[w].pc = "settle" /\ ~wk[w].err.retryable /\ job' = job
        /\ Holds(w, f, lag) /\ ob'[f].state = "terminal_failed"
    BY <1>0, <1>6, <2>1 DEF SettleTerminal, FailTerminal, Released
  <2>3. job[f].state = "terminal_failed"
    BY <1>6, <1>s, <2>2 DEF ViewOK
  <2> QED BY <2>2, <2>3 DEF SettledOK
<1>7. CASE HeartbeatLease(w) /\ f = wk[w].event
  <2>1. PICK lag \in Lags : Heartbeat(w, f, lag)
    BY <1>7 DEF HeartbeatLease
  <2>2. SameRow(f)
    BY <1>0, <2>1 DEF Heartbeat, Extended, Holds, SameRow
  <2> QED BY <1>3, <1>7, <2>2 DEF HeartbeatLease
<1>8. CASE UNCHANGED <<ob, job>>
  BY <1>0, <1>8
<1>9. \/ Updates(w) \/ CompleteEvent(w) \/ SettleRetryable(w) \/ SettleTerminal(w)
      \/ HeartbeatLease(w) \/ UNCHANGED <<ob, job>>
  BY <1>0, TransitionUpdates
  DEF Run, LoadForClaim, Preflight, ReadFails, SearchReadback,
      SendUpdate, UpdateReturns, UpdateRejected, UpdateUnknown,
      InspectConfirmation, Readback, Conflict
<1>10. CASE f # wk[w].event /\ UNCHANGED job
  BY <1>3, <1>10
<1>11. CompleteEvent(w) \/ SettleRetryable(w) \/ SettleTerminal(w) \/ HeartbeatLease(w)
         => UNCHANGED job
  BY DEF CompleteEvent, SettleRetryable, SettleTerminal, HeartbeatLease
<1> QED BY <1>2, <1>4, <1>5, <1>6, <1>7, <1>8, <1>9, <1>10, <1>11

\* Nobody holds a lease in the beginning.
LEMMA LeaseInit == Init => LeaseInv
<1> SUFFICES ASSUME Init PROVE LeaseInv
  OBVIOUS
<1>1. RowInv /\ FenceInv
  BY RowInit, FenceInit
<1>2. \A w \in Workers : ~Holder(w)
  <2>1. \A w \in Workers : wk[w] = Idle
    BY DEF Init
  <2>2. Idle.pc = "idle"
    BY DEF Idle
  <2> QED BY <2>1, <2>2 DEF Holder
<1>3. \A e \in Events : ob[e].state = "none"
  BY DEF Init, OutboxInit
<1>4. \A e \in Events : SettledOK(ob[e].state, job[e].state)
  BY <1>3 DEF SettledOK
<1> QED BY <1>1, <1>2, <1>4 DEF LeaseInv

\* Every step keeps the holders' locals true to their jobs and the settled
\* events true to theirs.
LEMMA LeaseStep ==
  ASSUME OwnReferences, LeaseInv, [Next]_vars
  PROVE  LeaseInv'
<1>0. /\ RowInv /\ FenceInv /\ Inv /\ WorkersOK
      /\ \A w \in Workers : Holder(w) => ViewOK(wk[w], job[wk[w].event])
      /\ \A e \in Events : SettledOK(ob[e].state, job[e].state)
  BY DEF LeaseInv, RowInv, Inv
<1>a. RowInv' /\ FenceInv'
  BY <1>0, RowStep, FenceStep
<1>e. \A w \in Workers : wk[w].event \in Events
  BY <1>0, EventOf
\* A worker that is left alone with its row and its job.
<1>v. ASSUME NEW v \in Workers, wk'[v] = wk[v], SameRow(wk[v].event),
             job'[wk[v].event] = job[wk[v].event], Holder(v)'
      PROVE  ViewOK(wk[v], job[wk[v].event])'
  <2>1. Holder(v)
    BY <1>v DEF Holder, SameRow
  <2>2. ViewOK(wk[v], job[wk[v].event])
    BY <1>0, <2>1
  <2> QED BY <1>v, <2>2 DEF ViewOK
<1>1. CASE Tick
  <2>1. \A e \in Events : SameRow(e)
    BY <1>1 DEF Tick, TickOutbox, Later, SameRow
  <2>2. ASSUME NEW v \in Workers, Holder(v)' PROVE ViewOK(wk[v], job[wk[v].event])'
    <3>1. /\ wk'[v].pc = wk[v].pc /\ wk'[v].event = wk[v].event
          /\ wk'[v].err = wk[v].err /\ wk'[v].js = wk[v].js
          /\ wk'[v].tx = wk[v].tx /\ wk'[v].amb = wk[v].amb /\ job' = job
      BY <1>0, <1>1, EventOf DEF Tick, Locals
    <3>2. Holder(v)
      BY <1>e, <2>1, <2>2, <3>1 DEF Holder, SameRow
    <3>3. ViewOK(wk[v], job[wk[v].event])
      BY <1>0, <3>2
    <3> QED BY <3>1, <3>3 DEF ViewOK
  <2>3. \A e \in Events : SettledOK(ob'[e].state, job'[e].state)
    BY <1>0, <1>1, <2>1 DEF Tick, SameRow
  <2> QED BY <1>a, <2>2, <2>3 DEF LeaseInv
<1>2. ASSUME NEW e \in Events, EnqueueAnchor(e) PROVE LeaseInv'
  <2>1. /\ ob'[e].state = "pending" /\ wk' = wk
        /\ \A f \in Events \ {e} : ob'[f] = ob[f]
    BY <1>0, <1>2 DEF EnqueueAnchor, InsertEvent, Released, Inv, TypeInv, OutboxTypeOK
  <2>2. job'[e].state = "pending" /\ \A f \in Events \ {e} : job'[f] = job[f]
    BY <1>0, <1>2 DEF EnqueueAnchor, Inv, JobsOK, JobRow
  <2>3. ASSUME NEW v \in Workers, Holder(v)' PROVE ViewOK(wk[v], job[wk[v].event])'
    <3>1. wk[v].event # e
      BY <2>1, <2>3 DEF Holder
    <3> QED BY <1>e, <1>v, <2>1, <2>2, <2>3, <3>1 DEF SameRow
  <2>4. \A f \in Events : SettledOK(ob'[f].state, job'[f].state)
    <3>1. SettledOK(ob'[e].state, job'[e].state)
      BY <2>1, <2>2 DEF SettledOK
    <3> QED BY <1>0, <2>1, <2>2, <3>1
  <2> QED BY <1>a, <2>3, <2>4 DEF LeaseInv
<1>3. ASSUME NEW w \in Workers, ClaimEvent(w) PROVE LeaseInv'
  <2>1. PICK e \in Events, lag \in Lags :
          /\ ClaimNext(w, e, lag)
          /\ Goto(w, [Idle EXCEPT !.pc = "load", !.event = e,
                                  !.attempt = ob[e].attempts + 1])
    BY <1>3 DEF ClaimEvent
  <2>2. /\ ob'[e].state = "claimed" /\ ob'[e].owner = RefOf[w] /\ job' = job
        /\ \A f \in Events \ {e} : ob'[f] = ob[f]
    BY <1>0, <1>3, <2>1 DEF ClaimEvent, ClaimNext, Leased, Inv, TypeInv, OutboxTypeOK
  <2>3. PICK l : l = [Idle EXCEPT !.pc = "load", !.event = e,
                                  !.attempt = ob[e].attempts + 1]
    OBVIOUS
  <2>4. l.pc = "load" /\ ~l.err.retryable
    BY <2>3 DEF Idle, Error
  <2>5. wk'[w] = l /\ \A v \in Workers \ {w} : wk'[v] = wk[v]
    BY <1>0, <2>1, <2>3, GotoFields
  <2>6. ViewOK(wk[w], job[wk[w].event])'
    BY <2>4, <2>5 DEF ViewOK
  <2>7. ASSUME NEW v \in Workers \ {w}, Holder(v)' PROVE ViewOK(wk[v], job[wk[v].event])'
    <3>1. wk[v].event # e
      BY <2>2, <2>5, <2>7 DEF Holder, OwnReferences
    <3> QED BY <1>e, <1>v, <2>2, <2>5, <2>7, <3>1 DEF SameRow
  <2>8. \A f \in Events : SettledOK(ob'[f].state, job'[f].state)
    <3>1. SettledOK(ob'[e].state, job'[e].state)
      BY <2>2 DEF SettledOK
    <3> QED BY <1>0, <2>2, <3>1
  <2> QED BY <1>a, <2>6, <2>7, <2>8 DEF LeaseInv
<1>4. ASSUME NEW w \in Workers, Run(w) PROVE LeaseInv'
  <2>1. ASSUME NEW v \in Workers \ {w}, Holder(v)' PROVE ViewOK(wk[v], job[wk[v].event])'
    <3>1. Holder(v) /\ wk'[v] = wk[v] /\ job'[wk[v].event] = job[wk[v].event]
      BY <1>4, <2>1, OtherHolder
    <3>2. ViewOK(wk[v], job[wk[v].event])
      BY <1>0, <3>1
    <3> QED BY <3>1, <3>2 DEF ViewOK
  <2>2. Holder(w)' => ViewOK(wk[w], job[wk[w].event])'
    BY <1>4, OwnView
  <2>3. \A f \in Events : SettledOK(ob'[f].state, job'[f].state)
    BY <1>4, SettledRun
  <2> QED BY <1>a, <2>1, <2>2, <2>3 DEF LeaseInv
<1>5. ASSUME NEW w \in Workers, Crash(w) PROVE LeaseInv'
  <2>1. /\ wk'[w] = Idle /\ Idle.pc = "idle" /\ UNCHANGED <<ob, job>>
        /\ \A v \in Workers \ {w} : wk'[v] = wk[v]
    BY <1>0, <1>5, GotoFields DEF Crash, Idle
  <2>2. ~Holder(w)'
    BY <2>1 DEF Holder
  <2>3. \A v \in Workers : Holder(v)' => ViewOK(wk[v], job[wk[v].event])'
    BY <1>v, <2>1, <2>2 DEF SameRow
  <2> QED BY <1>0, <1>a, <2>1, <2>3 DEF LeaseInv
<1>6. CASE UNCHANGED <<ob, job, wk>>
  <2>1. \A v \in Workers : Holder(v)' => ViewOK(wk[v], job[wk[v].event])'
    BY <1>6, <1>v DEF SameRow
  <2> QED BY <1>0, <1>6, <1>a, <2>1 DEF LeaseInv
<1> QED
  BY <1>1, <1>2, <1>3, <1>4, <1>5, <1>6
  DEF Next, NodeAccepts, NodeRejects, Mine, Reorganize, vars

\* If no two workers share a reference, outbox, job and anchor record tell one
\* story in every state, also where a crash stopped a worker between two of its
\* transactions.
THEOREM AnchorTablesAgree ==
  ASSUME OwnReferences
  PROVE  Spec => []TablesAgree
<1>1. Spec => []LeaseInv
  BY LeaseInit, LeaseStep, PTL DEF Spec
<1>2. LeaseInv => TablesAgree
  <2> SUFFICES ASSUME LeaseInv, NEW e \in Events
               PROVE  /\ RowOK(e) /\ SettledOK(ob[e].state, job[e].state)
                      /\ ob[e].state \in OutboxStates
    BY DEF TablesAgree, RowOK, SettledOK, OutboxStates, OpenStates, FinalStates
  <2> QED BY DEF LeaseInv, RowInv, Inv, TypeInv, OutboxTypeOK
<1> QED BY <1>1, <1>2, PTL

\* If no two workers share a reference, a job that knows its transaction keeps
\* it, and the worker that holds the lease does not send another.
THEOREM AnchorKnownTxKept ==
  ASSUME OwnReferences
  PROVE  Spec => KnownTxKept
<1>1. Spec => []LeaseInv
  BY LeaseInit, LeaseStep, PTL DEF Spec
<1> DEFINE Kept0(e) ==
      /\ job'[e].tx = job[e].tx
      /\ \A w \in Workers :
           wk[w].pc = "write" /\ wk[w].event = e /\ Holds(w, e, 0)
             => wk'[w].pc # "writing"
<1>2. LeaseInv /\ [Next]_vars => [\A e \in Events : job[e].tx # NoTx => Kept0(e)]_vars
  <2> SUFFICES ASSUME LeaseInv, Next, NEW e \in Events, job[e].tx # NoTx
               PROVE  Kept0(e)
    BY DEF vars
  <2>0. Inv /\ job \in [Events -> JobRow] /\ WorkersOK
    BY DEF LeaseInv, RowInv, Inv, JobsOK
  <2>1. ASSUME NEW w \in Workers, wk[w].pc = "write", wk[w].event = e, Holds(w, e, 0)
        PROVE  FALSE
    <3>1. Holder(w)
      BY <2>1 DEF Holder, Holds
    <3>2. ViewOK(wk[w], job[e])
      BY <2>1, <3>1 DEF LeaseInv
    <3> QED BY <2>1, <3>2 DEF ViewOK
  <2>2. ASSUME NEW w \in Workers, Updates(w) PROVE job'[e].tx = job[e].tx
    <3>0. wk[w].event \in Events
      BY <2>0, EventOf
    <3>1. PICK r \in JobRow : /\ Moved(w, job[wk[w].event], r)
                              /\ job' = [job EXCEPT ![wk[w].event] = r]
      BY <2>2 DEF Updates
    <3>2. CASE e # wk[w].event
      BY <2>0, <3>0, <3>1, <3>2
    <3>3. CASE e = wk[w].event
      <4>1. job'[e] = r /\ Moved(w, job[e], r)
        BY <2>0, <3>1, <3>3
      <4>2. CASE wk[w].pc # "record"
        BY <4>1, <4>2 DEF Moved
      <4>3. CASE wk[w].pc = "record"
        <5>1. Holder(w)
          BY <2>2, <4>3, AcceptedHolder DEF Updates
        <5>2. ViewOK(wk[w], job[e])
          BY <3>3, <5>1 DEF LeaseInv
        <5>3. wk[w].tx = job[e].tx
          BY <4>3, <5>2 DEF ViewOK
        <5> QED BY <4>1, <4>3, <5>3 DEF Moved
      <4> QED BY <4>2, <4>3
    <3> QED BY <3>2, <3>3
  <2>3. ASSUME NEW f \in Events, EnqueueAnchor(f) PROVE job'[e].tx = job[e].tx
    BY <2>0, <2>3 DEF EnqueueAnchor, JobRow
  <2>4. ASSUME NEW w \in Workers, Run(w) PROVE job'[e].tx = job[e].tx
    BY <2>0, <2>2, <2>4, RunUpdates
  <2>5. job'[e].tx = job[e].tx
    BY <2>3, <2>4
    DEF Next, Tick, ClaimEvent, Crash, NodeAccepts, NodeRejects, Mine, Reorganize
  <2> QED BY <2>1, <2>5
<1> QED BY <1>1, <1>2, PTL DEF Spec, KnownTxKept

-----------------------------------------------------------------------------
(* Second writes.                                                          *)

\* A step changes a row of the outbox only under the lease on it.
LEMMA RowStays ==
  ASSUME Inv, NEW w \in Workers, Run(w), NEW f \in Events, ob'[f] # ob[f]
  PROVE  f = wk[w].event /\ ob[f].state = "claimed" /\ ob[f].owner = RefOf[w]
<1>0. wk[w].event \in Events /\ DOMAIN ob = Events
  BY EventOf DEF Inv, TypeInv, OutboxTypeOK
<1>1. \/ HeartbeatLease(w) \/ CompleteEvent(w) \/ SettleRetryable(w) \/ SettleTerminal(w)
  BY DEF Run, LoadForClaim, ClaimJob, BeginPreflight, Preflight, ReadFails,
         SearchReadback, SendUpdate, UpdateReturns, UpdateRejected, UpdateUnknown,
         RecordSubmission, BeginConfirmation, InspectConfirmation, RecordReorg,
         BeginReadback, Readback, VerifyReadback, RecordFailure, MarkDeadLetter, Conflict
<1>2. PICK e \in Events, lag \in Lags :
        /\ e = wk[w].event
        /\ \/ Heartbeat(w, e, lag) \/ Succeed(w, e, lag)
           \/ FailRetryable(w, e, lag) \/ FailTerminal(w, e, lag)
  BY <1>0, <1>1 DEF HeartbeatLease, CompleteEvent, SettleRetryable, SettleTerminal
<1>3. Holds(w, e, lag) /\ \E r : ob' = [ob EXCEPT ![e] = r]
  BY <1>2 DEF Heartbeat, Succeed, FailRetryable, FailTerminal
<1> QED BY <1>0, <1>2, <1>3 DEF Holds

\* One worker runs a smooth event at a time.
LEMMA RunsAlone ==
  ASSUME OwnReferences, NEW e \in Events, RunsHeld(e),
         NEW v \in Workers, NEW w \in Workers, Runs(v, e), Runs(w, e)
  PROVE  v = w
  BY DEF RunsHeld, OwnReferences

\* Attempt rows stay, so an event that is smooth after a step was so before.
LEMMA SmoothBefore ==
  ASSUME Inv, [Next]_vars, NEW e \in Events
  PROVE  /\ ledger \subseteq ledger'
         /\ HasFailed(e) => HasFailed(e)'
         /\ Smooth(e)' => Smooth(e)
<1>1. [OutboxNext]_obVars
  BY OutboxStep DEF Inv
<1>2. ledger \subseteq ledger'
  BY <1>1 DEF OutboxNext, TickOutbox, InsertEvent, ClaimNext, Heartbeat, Succeed,
              FailRetryable, FailTerminal, obVars
<1>3. RowsOf(e) \subseteq RowsOf(e)'
  BY <1>2 DEF RowsOf
<1> QED BY <1>2, <1>3 DEF HasFailed, Smooth, Lapsed, FailedTwice

\* A worker's step leaves the attempts alone, or ends its own.
SettlesOwn(w) ==
  LET e == wk[w].event
  IN  /\ ob[e].state = "claimed" /\ ob'[e].state # "claimed"
      /\ wk'[w].pc \in {"idle", "bury"}
      /\ UNCHANGED <<job, tx>>
      /\ \/ wk[w].pc = "settle" /\ ledger' = ledger \cup {AttemptRow(e, RefOf[w], "failed")}
         \/ wk[w].pc = "run" /\ wk[w].js = "verified"

LEMMA RunEnds ==
  ASSUME Inv, NEW w \in Workers, Run(w)
  PROVE  \/ SettlesOwn(w)
         \/ /\ ledger' = ledger
            /\ \A f \in Events : ob'[f].state = ob[f].state /\ ob'[f].owner = ob[f].owner
<1>0. wk[w].event \in Events /\ DOMAIN ob = Events /\ WorkersOK /\ ob \in [Events -> Row]
  BY EventOf DEF Inv, TypeInv, OutboxTypeOK, Row
<1>1. PICK e : e = wk[w].event
  OBVIOUS
<1>i. Idle.pc = "idle"
  BY DEF Idle
<1>2. CASE CompleteEvent(w)
  <2>1. PICK lag \in Lags : Succeed(w, e, lag)
    BY <1>1, <1>2 DEF CompleteEvent
  <2>2. ob[e].state = "claimed" /\ ob'[e].state # "claimed"
    BY <1>0, <1>1, <2>1 DEF Succeed, Holds, Released
  <2>3. wk'[w].pc = "idle"
    BY <1>0, <1>2, <1>i, GotoFields DEF CompleteEvent
  <2> QED BY <1>1, <1>2, <2>2, <2>3 DEF CompleteEvent, SettlesOwn
<1>3. CASE SettleTerminal(w)
  <2>1. PICK lag \in Lags : FailTerminal(w, e, lag)
    BY <1>1, <1>3 DEF SettleTerminal
  <2>2. /\ ob[e].state = "claimed" /\ ob'[e].state # "claimed"
        /\ ledger' = ledger \cup {AttemptRow(e, RefOf[w], "failed")}
    BY <1>0, <1>1, <2>1 DEF FailTerminal, Holds, Released
  <2>3. wk'[w].pc = "idle"
    BY <1>0, <1>3, <1>i, GotoFields DEF SettleTerminal
  <2> QED BY <1>1, <1>3, <2>2, <2>3 DEF SettleTerminal, SettlesOwn
<1>4. CASE SettleRetryable(w)
  <2>1. PICK lag \in Lags : FailRetryable(w, e, lag)
    BY <1>1, <1>4 DEF SettleRetryable
  <2>2. /\ ob[e].state = "claimed" /\ ob'[e].state # "claimed"
        /\ ledger' = ledger \cup {AttemptRow(e, RefOf[w], "failed")}
    BY <1>0, <1>1, <2>1 DEF FailRetryable, Holds, Released
  <2>3. wk'[w].pc \in {"idle", "bury"}
    <3>1. PICK l : l = [Idle EXCEPT !.pc = "bury", !.event = wk[w].event,
                                    !.attempt = wk[w].attempt]
      OBVIOUS
    <3>2. l.pc = "bury"
      BY <3>1 DEF Idle
    <3>3. Goto(w, l) \/ Goto(w, Idle)
      BY <1>4, <3>1 DEF SettleRetryable
    <3> QED BY <1>0, <1>i, <3>2, <3>3, GotoFields
  <2> QED BY <1>1, <1>4, <2>2, <2>3 DEF SettleRetryable, SettlesOwn
<1>5. CASE HeartbeatLease(w)
  <2>1. PICK lag \in Lags : Heartbeat(w, e, lag)
    BY <1>1, <1>5 DEF HeartbeatLease
  <2> QED BY <1>0, <1>1, <2>1 DEF Heartbeat, Holds, Extended
<1>6. CASE UNCHANGED <<ob, ledger>>
  BY <1>6
<1> QED
  BY <1>2, <1>3, <1>4, <1>5, <1>6
  DEF Run, LoadForClaim, ClaimJob, BeginPreflight, Preflight, ReadFails,
      SearchReadback, SendUpdate, UpdateReturns, UpdateRejected, UpdateUnknown,
      RecordSubmission, BeginConfirmation, InspectConfirmation, RecordReorg,
      BeginReadback, Readback, VerifyReadback, RecordFailure, MarkDeadLetter, Conflict

\* Rows are numbered by attempt, so another failure is a second one.
LEMMA FailsAgain ==
  ASSUME Inv, AttemptLedger, NEW e \in Events, ob[e].state = "claimed", HasFailed(e),
         NEW ref, ledger' = ledger \cup {AttemptRow(e, ref, "failed")}
  PROVE  FailedTwice(e)'
<1>1. PICK a \in ledger : a.event = e /\ a.result = "failed"
  BY DEF HasFailed, RowsOf
<1>2. PICK b : b = AttemptRow(e, ref, "failed")
  OBVIOUS
<1>3. b.event = e /\ b.result = "failed" /\ b.attempt = ob[e].attempts
  BY <1>2 DEF AttemptRow
<1>4. a.attempt \in 1 .. (ob[e].attempts - 1) /\ ob[e].attempts \in Nat
  <2>1. a \in RowsOf(e)
    BY <1>1 DEF RowsOf
  <2>2. {c.attempt : c \in RowsOf(e)} = 1 .. (ob[e].attempts - 1)
    BY DEF AttemptLedger
  <2>3. a.attempt \in {c.attempt : c \in RowsOf(e)}
    BY <2>1
  <2> QED BY <2>2, <2>3 DEF Inv, TypeInv, OutboxTypeOK
<1>5. a.attempt # b.attempt
  BY <1>3, <1>4
<1>6. a \in RowsOf(e)' /\ b \in RowsOf(e)'
  BY <1>1, <1>2, <1>3 DEF RowsOf
<1> QED BY <1>1, <1>3, <1>5, <1>6 DEF FailedTwice

\* A step that leaves e's lease, what its job says and who runs it.
LEMMA QuietWrite ==
  ASSUME NEW e \in Events, WriteOK(e), HasFailed(e) => HasFailed(e)',
         \A t \in TxIds : t[1] = e /\ Possible(t)' => Possible(t),
         ob[e].state = "claimed" => ob'[e].state = "claimed" /\ ob'[e].owner = ob[e].owner,
         JobKnown(e) => JobKnown(e)', job'[e].amb => job[e].amb,
         \A w \in Workers :
           \/ ~Runs(w, e) /\ ~Runs(w, e)'
           \/ /\ wk'[w].pc = wk[w].pc /\ wk'[w].event = wk[w].event
              /\ wk'[w].tx = wk[w].tx /\ wk'[w].err = wk[w].err
  PROVE  WriteOK(e)'
<1>1. \A w \in Workers : Runs(w, e)' <=> Runs(w, e)
  BY DEF Runs
<1>2. RunsHeld(e)'
  BY <1>1 DEF WriteOK, RunsHeld
<1>3. (Abandoned(e) => Abandoned(e)') /\ (Settling(e) => Settling(e)')
  BY <1>1 DEF Abandoned, Settling, Runs
<1>4. FlagOK(e)' /\ Once(e)'
  BY <1>3 DEF WriteOK, FlagOK, Once
<1>5. ASSUME NEW t \in TxIds, t[1] = e, NEW w \in Workers, Knows(w, t)
      PROVE  Knows(w, t)'
  BY <1>5 DEF Knows, Runs
<1>6. WritesKnown(e)'
  BY <1>3, <1>5 DEF WriteOK, WritesKnown, KnownWrite
<1> QED BY <1>2, <1>4, <1>6 DEF WriteOK

\* The only runner of e gives it up: what it knew is lost with its lease.
LEMMA AbandonedWrite ==
  ASSUME OwnReferences, NEW e \in Events, WriteOK(e), UNCHANGED tx,
         NEW w \in Workers, Runs(w, e), ~Runs(w, e)',
         ob'[e].state = "claimed",
         \A v \in Workers \ {w} : wk'[v] = wk[v]
  PROVE  WriteOK(e)'
<1>1. \A v \in Workers : ~Runs(v, e)'
  <2> SUFFICES ASSUME NEW v \in Workers, v # w, Runs(v, e)' PROVE FALSE
    OBVIOUS
  <2>1. Runs(v, e)
    BY DEF Runs
  <2> QED BY <2>1, RunsAlone DEF WriteOK
<1>2. Abandoned(e)'
  BY <1>1 DEF Abandoned
<1> QED BY <1>1, <1>2 DEF WriteOK, RunsHeld, FlagOK, Once, WritesKnown, KnownWrite, Possible

\* While the runner of a smooth event goes on, a write that may have succeeded
\* stays known.
LEMMA KnownRun ==
  ASSUME OwnReferences, LeaseInv, NEW w \in Workers, Run(w), ~Ends(w),
         NEW t \in TxIds, Possible(t), KnownWrite(t), WriteOK(t[1]),
         Runs(w, t[1]), HasFailed(t[1]) => HasFailed(t[1])'
  PROVE  KnownWrite(t)'
<1>0. /\ Inv /\ wk[w].event \in Events /\ LocalsOK(wk[w])
      /\ job \in [Events -> JobRow] /\ t[1] \in Events /\ WorkersOK
  BY EventOf DEF LeaseInv, RowInv, Inv, JobsOK, TxIds
<1>1. PICK e : e = t[1]
  OBVIOUS
<1>2. wk[w].event = e /\ e \in Events /\ RunsHeld(e)
  BY <1>0, <1>1 DEF Runs, WriteOK
<1>3. ~Abandoned(e) /\ ~Settling(e)
  <2>1. wk[w].pc # "settle"
    BY <1>0, RunSteps
    DEF Loads, Beats, Passes, Fails, SendUpdate, Finds, Inspects, Continues, Closes,
        Updates, Moved
  <2>2. ~Settling(e)
    BY <1>1, <1>2, <2>1, RunsAlone DEF Settling
  <2> QED BY <1>1, <2>2 DEF Abandoned
<1>u. ASSUME Updates(w)
      PROVE  \E r \in JobRow : Moved(w, job[e], r) /\ job'[e] = r
  <2>1. PICK r \in JobRow : Moved(w, job[e], r) /\ job' = [job EXCEPT ![e] = r]
    BY <1>2, <1>u DEF Updates
  <2> QED BY <1>0, <1>2, <2>1
<1>4. ASSUME NEW v \in Workers, Knows(v, t) PROVE v = w
  <2>1. Runs(v, e)
    BY <1>1, <1>4 DEF Knows, Runs
  <2> QED BY <1>1, <1>2, <2>1, RunsAlone
<1>5. CASE Knows(w, t)
  <2>0. wk[w].pc \in {"writing", "record", "failed"}
    BY <1>5 DEF Knows
  <2>2. CASE Fails(w)
    <3>1. wk[w].pc = "writing" /\ wk[w].tx = t
      BY <1>5, <2>0, <2>2 DEF Fails, Knows
    <3>2. wk'[w].err.ambiguous
      BY <2>2, <3>1 DEF Fails, Possible
    <3>3. Knows(w, t)'
      BY <1>1, <1>2, <2>2, <3>2 DEF Fails, Knows
    <3> QED BY <3>3 DEF KnownWrite
  <2>3. CASE Finds(w)
    <3>1. Knows(w, t)'
      BY <1>1, <1>2, <2>3 DEF Finds, Knows
    <3> QED BY <3>1 DEF KnownWrite
  <2>4. CASE Continues(w)
    <3>1. wk[w].pc = "record" /\ Updates(w)
      BY <2>0, <2>4 DEF Continues
    <3>2. job'[e].tx = wk[w].tx
      BY <1>u, <3>1 DEF Moved
    <3>3. wk[w].tx # NoTx
      BY <1>0, <3>1, WorkerAssumption DEF LocalsOK
    <3> QED BY <1>1, <3>2, <3>3 DEF KnownWrite, JobKnown
  <2>5. CASE Closes(w)
    <3>1. wk[w].pc = "failed" /\ Updates(w) /\ wk[w].err.ambiguous
      BY <1>5, <2>0, <2>5 DEF Closes, Knows
    <3>2. PICK r \in JobRow : Moved(w, job[e], r) /\ job'[e] = r
      BY <1>u, <3>1
    <3>3. r.amb
      BY <3>1, <3>2 DEF Moved
    <3> QED BY <1>1, <3>2, <3>3 DEF KnownWrite, JobKnown
  <2> QED
    BY <1>0, <2>0, <2>2, <2>3, <2>4, <2>5, RunSteps
    DEF Loads, Beats, Passes, SendUpdate, Inspects
<1>6. CASE JobKnown(e)
  <2>1. CASE job'[e] = job[e]
    BY <1>1, <1>6, <2>1 DEF KnownWrite, JobKnown
  <2>2. CASE job'[e] # job[e]
    <3>1. Updates(w)
      BY <1>0, <2>2, RunUpdates
    <3>2. PICK r \in JobRow : Moved(w, job[e], r) /\ job'[e] = r
      BY <1>u, <3>1
    <3>3. CASE wk[w].pc = "record"
      <4>1. r.tx = wk[w].tx /\ wk[w].tx # NoTx
        BY <1>0, <3>2, <3>3, WorkerAssumption DEF LocalsOK, Moved
      <4> QED BY <1>1, <3>2, <4>1 DEF KnownWrite, JobKnown
    <3>4. CASE wk[w].pc = "failed"
      <4>1. r.tx = job[e].tx
        BY <3>2, <3>4 DEF Moved
      <4>2. job[e].state # "terminal_failed"
        BY <3>2, <3>4 DEF Moved, InProgress
      <4>3. CASE r.tx # NoTx
        BY <1>1, <3>2, <4>3 DEF KnownWrite, JobKnown
      <4>4. CASE r.tx = NoTx
        <5>1. job[e].amb
          BY <1>6, <4>1, <4>2, <4>4 DEF JobKnown
        <5>2. HasFailed(e)
          BY <1>1, <1>3, <5>1 DEF WriteOK, FlagOK
        <5>3. Closes(w)
          BY <1>0, <3>4, RunSteps
          DEF Loads, Beats, Passes, SendUpdate, Inspects, Fails, Finds, Continues
        <5>4. Settling(e)'
          BY <1>2, <5>3 DEF Settling, Runs, Closes
        <5> QED BY <1>1, <5>2, <5>4 DEF KnownWrite
      <4> QED BY <4>3, <4>4
    <3>5. CASE wk[w].pc \notin {"record", "bury", "failed"}
      <4>1. r.tx = job[e].tx /\ r.amb = job[e].amb
        BY <3>2, <3>5 DEF Moved
      <4>2. job[e].state # "terminal_failed"
        BY <3>2, <3>5 DEF Moved, Resumable
      <4> QED BY <1>1, <1>6, <3>2, <4>1, <4>2 DEF KnownWrite, JobKnown
    <3> QED BY <3>3, <3>4, <3>5 DEF Runs
  <2> QED BY <2>1, <2>2
<1> QED BY <1>1, <1>3, <1>4, <1>5, <1>6 DEF KnownWrite

\* The runner of a smooth event sends an update only if no earlier one may have
\* succeeded.
LEMMA SendsFirst ==
  ASSUME OwnReferences, LeaseInv, NEW w \in Workers, wk[w].pc = "write",
         NEW t \in TxIds, t[1] = wk[w].event, WriteOK(t[1])
  PROVE  ~Possible(t)
<1> SUFFICES ASSUME Possible(t) PROVE FALSE
  OBVIOUS
<1>0. t[1] \in Events /\ KnownWrite(t) /\ RunsHeld(t[1]) /\ Runs(w, t[1])
  BY DEF TxIds, WriteOK, WritesKnown, Runs
<1>1. ViewOK(wk[w], job[t[1]])
  BY <1>0 DEF LeaseInv, Holder, RunsHeld, Runs
<1>2. ~JobKnown(t[1])
  BY <1>1 DEF JobKnown, ViewOK
<1>3. \A v \in Workers : Runs(v, t[1]) => v = w
  BY <1>0, RunsAlone
<1>4. ~Settling(t[1]) /\ ~Abandoned(t[1])
  BY <1>0, <1>3 DEF Settling, Abandoned
<1>5. \A v \in Workers : ~Knows(v, t)
  BY <1>0, <1>3 DEF Knows, Runs
<1> QED BY <1>0, <1>2, <1>4, <1>5 DEF KnownWrite

\* Of a worker's steps only SendUpdate reaches the node.
LEMMA SendsOnly ==
  ASSUME NEW w \in Workers, Run(w), ~SendUpdate(w)
  PROVE  UNCHANGED tx
  BY DEF Run, LoadForClaim, ClaimJob, BeginPreflight, HeartbeatLease,
         Preflight, ReadFails, SearchReadback, UpdateReturns,
         UpdateRejected, UpdateUnknown, RecordSubmission, BeginConfirmation,
         InspectConfirmation, RecordReorg, BeginReadback, Readback, VerifyReadback,
         CompleteEvent, RecordFailure, SettleRetryable, SettleTerminal,
         MarkDeadLetter, Conflict

\* The runner of a smooth event takes a step.
LEMMA WriteRun ==
  ASSUME OwnReferences, LeaseInv, AttemptLedger, NEW w \in Workers, Run(w), [Next]_vars,
         NEW e \in Events, Runs(w, e), WriteOK(e), Smooth(e)'
  PROVE  WriteOK(e)'
<1>0. /\ Inv /\ wk[w].event = e /\ job \in [Events -> JobRow] /\ WorkersOK /\ RunsHeld(e)
  BY DEF LeaseInv, RowInv, Inv, JobsOK, Runs, WriteOK
<1>1. /\ HasFailed(e) => HasFailed(e)'
      /\ \A v \in Workers \ {w} : wk'[v] = wk[v]
  BY <1>0, RunShape, SmoothBefore DEF LocalsAfter
<1>2. \A v \in Workers : Runs(v, e) => v = w
  BY <1>0, RunsAlone
<1>3. ob[e].state = "claimed" /\ ~Abandoned(e) /\ (Settling(e) => wk[w].pc = "settle")
  BY <1>0, <1>2 DEF RunsHeld, Abandoned, Settling
<1>4. CASE SettlesOwn(w)
  <2>1. /\ ob[e].state = "claimed" /\ ob'[e].state # "claimed" /\ wk'[w].pc \in {"idle", "bury"}
        /\ UNCHANGED <<job, tx>>
    BY <1>0, <1>4 DEF SettlesOwn
  <2>2. \A v \in Workers : ~Runs(v, e)'
    BY <1>1, <1>2, <2>1 DEF Runs
  <2>3. RunsHeld(e)' /\ Once(e)'
    BY <2>1, <2>2 DEF RunsHeld, WriteOK, Once, Possible
  <2>4. CASE wk[w].pc = "settle"
    <3>0. ledger' = ledger \cup {AttemptRow(e, RefOf[w], "failed")}
      BY <1>0, <1>4, <2>4 DEF SettlesOwn
    <3>1. ~HasFailed(e)
      BY <1>0, <2>1, <3>0, FailsAgain DEF Smooth
    <3>2. HasFailed(e)'
      <4>1. PICK a : a = AttemptRow(e, RefOf[w], "failed")
        OBVIOUS
      <4>2. a.event = e /\ a.result = "failed" /\ a \in ledger'
        BY <3>0, <4>1 DEF AttemptRow
      <4> QED BY <4>2 DEF HasFailed, RowsOf
    <3>3. ASSUME NEW t \in TxIds, t[1] = e, Possible(t)' PROVE KnownWrite(t)'
      <4>1. KnownWrite(t)
        BY <2>1, <3>3 DEF WriteOK, WritesKnown, Possible
      <4>2. \A v \in Workers : ~Knows(v, t)
        BY <1>2, <2>4, <3>3 DEF Knows, Runs
      <4>3. JobKnown(e)
        BY <1>3, <3>1, <3>3, <4>1, <4>2 DEF KnownWrite
      <4> QED BY <2>1, <3>3, <4>3 DEF KnownWrite, JobKnown
    <3> QED BY <2>3, <3>2, <3>3 DEF WriteOK, FlagOK, WritesKnown
  <2>5. CASE wk[w].pc = "run"
    <3>1. FlagOK(e)'
      BY <1>1, <1>3, <2>1, <2>5 DEF WriteOK, FlagOK
    <3>2. ASSUME NEW t \in TxIds, t[1] = e, Possible(t)' PROVE KnownWrite(t)'
      <4>1. KnownWrite(t)
        BY <2>1, <3>2 DEF WriteOK, WritesKnown, Possible
      <4>2. \A v \in Workers : ~Knows(v, t)
        BY <1>2, <2>5, <3>2 DEF Knows, Runs
      <4>3. JobKnown(e)
        BY <1>3, <2>5, <3>2, <4>1, <4>2 DEF KnownWrite
      <4> QED BY <2>1, <3>2, <4>3 DEF KnownWrite, JobKnown
    <3> QED BY <2>3, <3>1, <3>2 DEF WriteOK, WritesKnown
  <2> QED BY <1>4, <2>4, <2>5 DEF SettlesOwn
<1>5. CASE ~SettlesOwn(w)
  <2>1. ob'[e].state = "claimed" /\ ob'[e].owner = ob[e].owner
    BY <1>0, <1>3, <1>5, RunEnds
  <2>2. CASE Ends(w)
    <3>1. ~SendUpdate(w)
      BY <1>0, <2>2, SendStep DEF Ends
    <3>2. UNCHANGED tx
      BY <3>1, SendsOnly
    <3>3. ~Runs(w, e)'
      BY <2>2 DEF Ends, Runs
    <3> QED BY <1>1, <2>1, <3>2, <3>3, AbandonedWrite
  <2>3. CASE ~Ends(w)
    <3>1. \A v \in Workers : Runs(v, e)' => v = w
      BY <1>1, <1>2 DEF Runs
    <3>2. RunsHeld(e)'
      BY <1>0, <2>1, <3>1 DEF RunsHeld
    <3>3. FlagOK(e)'
      <4> SUFFICES ASSUME job'[e].amb PROVE HasFailed(e)' \/ Settling(e)'
        BY DEF FlagOK
      <4>1. CASE job[e].amb
        <5>1. wk[w].pc # "settle"
          BY <1>0, <2>3, RunSteps
          DEF Loads, Beats, Passes, Fails, SendUpdate, Finds, Inspects, Continues, Closes,
              Updates, Moved
        <5> QED BY <1>1, <1>3, <4>1, <5>1 DEF WriteOK, FlagOK
      <4>2. CASE ~job[e].amb
        <5>1. Updates(w)
          BY <1>0, <4>2, RunUpdates
        <5>2. PICK r \in JobRow : Moved(w, job[e], r) /\ job'[e] = r
          BY <1>0, <5>1 DEF Updates
        <5>3. wk[w].pc = "failed"
          BY <4>2, <5>2 DEF Moved
        <5>4. Closes(w)
          BY <1>0, <2>3, <5>3, RunSteps
          DEF Loads, Beats, Passes, SendUpdate, Inspects, Fails, Finds, Continues
        <5> QED BY <1>0, <5>4 DEF Settling, Runs, Closes
      <4> QED BY <4>1, <4>2
    <3>4. ASSUME NEW t \in TxIds, t[1] = e, Possible(t) PROVE KnownWrite(t)'
      <4>1. KnownWrite(t)
        BY <3>4 DEF WriteOK, WritesKnown
      <4> QED BY <1>1, <2>3, <3>4, <4>1, KnownRun
    <3>5. CASE SendUpdate(w)
      <4>1. PICK n \in 1 .. MaxWrites :
               /\ <<wk[w].event, n>> \in TxIds
               /\ \A t \in TxIds : t # <<wk[w].event, n>> => tx'[t] = tx[t]
               /\ wk'[w].pc = "writing" /\ wk'[w].event = wk[w].event
               /\ wk'[w].tx = <<wk[w].event, n>>
        BY <1>0, <3>5, SendStep
      <4>2. PICK u : u = <<wk[w].event, n>>
        OBVIOUS
      <4>3. u \in TxIds /\ u[1] = e
        BY <1>0, <4>1, <4>2
      <4>4. \A t \in TxIds : t[1] = e => ~Possible(t)
        BY <1>0, <3>5, SendsFirst DEF SendUpdate
      <4>5. \A t \in TxIds : t[1] = e /\ Possible(t)' => t = u
        BY <4>1, <4>2, <4>4 DEF Possible
      <4>6. KnownWrite(u)'
        BY <1>0, <4>1, <4>2, <4>3 DEF Knows, KnownWrite
      <4> QED BY <3>2, <3>3, <4>5, <4>6 DEF WriteOK, Once, WritesKnown
    <3>6. CASE ~SendUpdate(w)
      <4>1. UNCHANGED tx
        BY <3>6, SendsOnly
      <4> QED BY <3>2, <3>3, <3>4, <4>1 DEF WriteOK, Once, WritesKnown, Possible
    <3> QED BY <3>5, <3>6
  <2> QED BY <2>2, <2>3
<1> QED BY <1>4, <1>5

\* Nobody runs and nothing has been written in the beginning.
LEMMA WriteInit == Init => WriteInv
<1> SUFFICES ASSUME Init PROVE WriteInv
  OBVIOUS
<1>1. \A t \in TxIds : ~Possible(t)
  BY DEF Init, Possible
<1>2. \A w \in Workers : wk[w] = Idle
  BY DEF Init
<1>3. Idle.pc = "idle"
  BY DEF Idle
<1>4. \A e \in Events : ~job[e].amb
  BY DEF Init
<1> QED
  BY <1>1, <1>2, <1>3, <1>4, LeaseInit
  DEF WriteInv, WriteOK, RunsHeld, Runs, FlagOK, Once, WritesKnown

\* Every step leaves at most one write of a smooth event that may have
\* succeeded, and that one known.
LEMMA WriteStep ==
  ASSUME OwnReferences, AttemptLedger, WriteInv, [Next]_vars
  PROVE  WriteInv'
<1>0. /\ LeaseInv /\ Inv /\ WorkersOK /\ job \in [Events -> JobRow] /\ ob \in [Events -> Row]
  BY DEF WriteInv, LeaseInv, RowInv, Inv, JobsOK, TypeInv, OutboxTypeOK, Row
<1>a. LeaseInv'
  BY <1>0, LeaseStep
<1> SUFFICES ASSUME NEW e \in Events, Smooth(e)' PROVE WriteOK(e)'
  BY <1>a DEF WriteInv
<1>w. \A w \in Workers : wk[w].event \in Events /\ wk[w] \in Locals
  BY <1>0, EventOf
<1>b. WriteOK(e) /\ (HasFailed(e) => HasFailed(e)')
  BY <1>0, SmoothBefore DEF WriteInv
<1>i. Idle.pc = "idle"
  BY DEF Idle
\* A step that leaves the locals of all workers but their timers.
<1>k. ASSUME \A t \in TxIds : t[1] = e /\ Possible(t)' => Possible(t),
             ob[e].state = "claimed" =>
               ob'[e].state = "claimed" /\ ob'[e].owner = ob[e].owner,
             job'[e].tx = job[e].tx, job'[e].amb = job[e].amb,
             job[e].state = "terminal_failed" => job'[e].state = "terminal_failed",
             \A w \in Workers : /\ wk'[w].pc = wk[w].pc /\ wk'[w].event = wk[w].event
                                /\ wk'[w].tx = wk[w].tx /\ wk'[w].err = wk[w].err
      PROVE  WriteOK(e)'
  <2>1. JobKnown(e) => JobKnown(e)'
    BY <1>k DEF JobKnown
  <2> QED BY <1>b, <1>k, <2>1, QuietWrite
<1>1. CASE Tick
  <2>1. \A w \in Workers : /\ wk'[w].pc = wk[w].pc /\ wk'[w].event = wk[w].event
                           /\ wk'[w].tx = wk[w].tx /\ wk'[w].err = wk[w].err
    BY <1>1, <1>w DEF Tick, Locals
  <2>2. UNCHANGED <<job, tx>> /\ ob'[e].state = ob[e].state /\ ob'[e].owner = ob[e].owner
    BY <1>1 DEF Tick, TickOutbox, Later
  <2> QED BY <1>k, <2>1, <2>2 DEF Possible
<1>2. ASSUME NEW f \in Events, EnqueueAnchor(f) PROVE WriteOK(e)'
  <2>1. UNCHANGED <<wk, tx>> /\ ob[f].state = "none"
    BY <1>2 DEF EnqueueAnchor, InsertEvent
  <2>2. job[f].state = "none" /\ (f # e => ob'[e] = ob[e])
    BY <1>0, <1>2, <2>1 DEF LeaseInv, RowInv, RowOK, EnqueueAnchor, InsertEvent
  <2>3. /\ job'[e].tx = job[e].tx /\ job'[e].amb = job[e].amb
        /\ f # e => job'[e] = job[e]
    BY <1>0, <1>2 DEF EnqueueAnchor, JobRow
  <2> QED BY <1>k, <2>1, <2>2, <2>3 DEF Possible
<1>3. ASSUME NEW w \in Workers, ClaimEvent(w) PROVE WriteOK(e)'
  <2>1. PICK f \in Events, lag \in Lags :
          /\ ClaimNext(w, f, lag)
          /\ Goto(w, [Idle EXCEPT !.pc = "load", !.event = f,
                                  !.attempt = ob[f].attempts + 1])
    BY <1>3 DEF ClaimEvent
  <2>2. PICK l : l = [Idle EXCEPT !.pc = "load", !.event = f,
                                  !.attempt = ob[f].attempts + 1]
    OBVIOUS
  <2>3. l.pc = "load" /\ l.event = f
    BY <2>2 DEF Idle
  <2>4. wk'[w] = l /\ \A v \in Workers \ {w} : wk'[v] = wk[v]
    BY <1>0, <2>1, <2>2, GotoFields
  <2>5. wk[w].pc = "idle" /\ UNCHANGED <<job, tx>>
    BY <1>3 DEF ClaimEvent
  <2>6. CASE f # e
    <3>1. ob'[e] = ob[e]
      BY <2>1, <2>6 DEF ClaimNext
    <3>2. ~Runs(w, e) /\ ~Runs(w, e)'
      BY <2>3, <2>4, <2>5, <2>6 DEF Runs
    <3>3. JobKnown(e) => JobKnown(e)'
      BY <2>5 DEF JobKnown
    <3> QED BY <1>b, <2>4, <2>5, <3>1, <3>2, <3>3, QuietWrite DEF Possible
  <2>7. CASE f = e
    <3>1. ob[e].state # "claimed"
      <4> SUFFICES ASSUME ob[e].state = "claimed" PROVE FALSE
        OBVIOUS
      <4>1. PICK a : a = AttemptRow(e, ob[e].owner, "lease_expired")
        OBVIOUS
      <4>2. a.event = e /\ a.result = "lease_expired" /\ a \in ledger'
        BY <2>1, <2>7, <4>1 DEF ClaimNext, AttemptRow
      <4> QED BY <4>2 DEF Smooth, Lapsed, RowsOf
    <3>2. \A v \in Workers : ~Runs(v, e)
      BY <1>b, <3>1 DEF WriteOK, RunsHeld
    <3>3. ob'[e].state = "claimed" /\ ob'[e].owner = RefOf[w]
      BY <1>0, <2>1, <2>7 DEF ClaimNext, Leased
    <3>4. RunsHeld(e)'
      BY <2>4, <3>2, <3>3 DEF RunsHeld, Runs
    <3>5. ~Abandoned(e) /\ ~Settling(e)
      BY <3>1, <3>2 DEF Abandoned, Settling
    <3>6. FlagOK(e)' /\ Once(e)'
      BY <1>b, <2>5, <3>5 DEF WriteOK, FlagOK, Once, Possible
    <3>7. WritesKnown(e)'
      <4> SUFFICES ASSUME NEW t \in TxIds, t[1] = e, Possible(t)' PROVE KnownWrite(t)'
        BY DEF WritesKnown
      <4>1. KnownWrite(t)
        BY <1>b, <2>5 DEF WriteOK, WritesKnown, Possible
      <4>2. \A v \in Workers : ~Knows(v, t)
        BY <3>2 DEF Knows, Runs
      <4>3. JobKnown(e)
        BY <3>5, <4>1, <4>2 DEF KnownWrite
      <4> QED BY <2>5, <4>3 DEF KnownWrite, JobKnown
    <3> QED BY <3>4, <3>6, <3>7 DEF WriteOK
  <2> QED BY <2>6, <2>7
<1>4. ASSUME NEW w \in Workers, Run(w) PROVE WriteOK(e)'
  <2>1. CASE Runs(w, e)
    BY <1>0, <1>4, <1>b, <2>1, WriteRun
  <2>2. CASE ~Runs(w, e)
    <3>0. /\ LocalsAfter(w) /\ JobsAfter(w) /\ wk[w].pc # "idle"
      BY <1>0, <1>4, RunShape, RunsOnlyBusy
    <3>1. ~Runs(w, e)' /\ \A v \in Workers \ {w} : wk'[v] = wk[v]
      <4>1. CASE wk[w].event # e
        BY <1>i, <3>0, <4>1 DEF LocalsAfter, Runs
      <4>2. CASE wk[w].pc = "bury"
        <5>1. Ends(w)
          BY <1>0, <1>4, <4>2, RunSteps
          DEF Loads, Beats, Passes, Fails, SendUpdate, Finds, Inspects, Continues, Closes
        <5> QED BY <3>0, <5>1 DEF Ends, Runs, LocalsAfter
      <4> QED BY <2>2, <3>0, <4>1, <4>2 DEF Runs
    <3>2. ob[e].state = "claimed" => ob'[e].state = "claimed" /\ ob'[e].owner = ob[e].owner
      <4>1. CASE ob'[e] = ob[e]
        BY <4>1
      <4>2. CASE ob'[e] # ob[e]
        <5>1. e = wk[w].event /\ ob[e].state = "claimed"
          BY <1>0, <1>4, <4>2, RowStays
        <5>2. wk[w].pc = "bury"
          BY <2>2, <3>0, <5>1 DEF Runs
        <5> QED BY <1>0, <1>4, <5>1, <5>2, RunEnds DEF SettlesOwn
      <4> QED BY <4>1, <4>2
    <3>3. (JobKnown(e) => JobKnown(e)') /\ (job'[e].amb => job[e].amb)
      <4>1. CASE job'[e] = job[e]
        BY <4>1 DEF JobKnown
      <4>2. CASE job'[e] # job[e]
        <5>1. wk[w].event = e /\ Updates(w)
          BY <1>0, <1>4, <3>0, <4>2, RunUpdates DEF JobsAfter
        <5>2. PICK r \in JobRow : Moved(w, job[e], r) /\ job'[e] = r
          BY <1>0, <5>1 DEF Updates
        <5>3. wk[w].pc = "bury"
          BY <2>2, <3>0, <5>1 DEF Runs
        <5>4. r.state = "terminal_failed" /\ ~r.amb
          BY <5>2, <5>3 DEF Moved
        <5> QED BY <5>2, <5>4 DEF JobKnown
      <4> QED BY <4>1, <4>2
    <3>4. ASSUME NEW t \in TxIds, t[1] = e, Possible(t)' PROVE Possible(t)
      <4>1. CASE SendUpdate(w)
        <5>1. wk[w].event # e
          BY <2>2, <4>1 DEF SendUpdate, Runs
        <5>2. PICK n \in 1 .. MaxWrites :
                 /\ <<wk[w].event, n>> \in TxIds
                 /\ \A u \in TxIds : u # <<wk[w].event, n>> => tx'[u] = tx[u]
          BY <1>0, <4>1, SendStep
        <5>3. t # <<wk[w].event, n>>
          BY <3>4, <5>1
        <5> QED BY <3>4, <5>2, <5>3 DEF Possible
      <4>2. CASE ~SendUpdate(w)
        BY <1>4, <3>4, <4>2, SendsOnly DEF Possible
      <4> QED BY <4>1, <4>2
    <3> QED BY <1>b, <2>2, <3>1, <3>2, <3>3, <3>4, QuietWrite
  <2> QED BY <2>1, <2>2
<1>5. ASSUME NEW w \in Workers, Crash(w) PROVE WriteOK(e)'
  <2>1. /\ wk'[w] = Idle /\ UNCHANGED <<ob, ledger, job, tx>>
        /\ \A v \in Workers \ {w} : wk'[v] = wk[v]
    BY <1>0, <1>5, GotoFields DEF Crash
  <2>2. ~Runs(w, e)'
    BY <1>i, <2>1 DEF Runs
  <2>3. CASE Runs(w, e)
    <3>1. ob'[e].state = "claimed"
      BY <1>b, <2>1, <2>3 DEF WriteOK, RunsHeld
    <3> QED BY <1>b, <2>1, <2>2, <2>3, <3>1, AbandonedWrite
  <2>4. CASE ~Runs(w, e)
    <3>1. JobKnown(e) => JobKnown(e)'
      BY <2>1 DEF JobKnown
    <3> QED BY <1>b, <2>1, <2>2, <2>4, <3>1, QuietWrite DEF Possible
  <2> QED BY <2>3, <2>4
<1>6. ASSUME NEW u \in TxIds,
             NodeAccepts(u) \/ NodeRejects(u) \/ Mine(u) \/ Reorganize(u)
      PROVE  WriteOK(e)'
  <2>1. UNCHANGED <<ob, job, wk>>
    BY <1>6 DEF NodeAccepts, NodeRejects, Mine, Reorganize
  <2>2. ASSUME NEW t \in TxIds, Possible(t)' PROVE Possible(t)
    <3>1. tx \in [TxIds -> NodeRow]
      BY <1>0 DEF Inv, NodeOK
    <3>2. CASE t = u
      BY <1>6, <3>2 DEF NodeAccepts, NodeRejects, Mine, Reorganize, Mined, Possible
    <3>3. CASE t # u
      BY <1>6, <2>2, <3>1, <3>3 DEF NodeAccepts, NodeRejects, Mine, Reorganize, Possible
    <3> QED BY <3>2, <3>3
  <2> QED BY <1>k, <2>1, <2>2
<1>7. CASE UNCHANGED vars
  BY <1>7, <1>k DEF vars, Possible
<1> QED BY <1>1, <1>2, <1>3, <1>4, <1>5, <1>6, <1>7 DEF Next

\* With references of their own, whatever else fails, the workers write an
\* anchor a second time only after an attempt that ended with its lease, or
\* after two failed ones.
THEOREM AnchorSecondWriteExplained ==
  ASSUME OwnReferences
  PROVE  Spec => []SecondWriteExplained
<1>1. Spec => []AttemptLedger
  BY AnchorAttemptHistory, PTL
<1>2. WriteInv /\ AttemptLedger /\ [Next]_vars => WriteInv'
  BY WriteStep
<1>3. WriteInv => SecondWriteExplained
  <2> SUFFICES ASSUME WriteInv, NEW e \in Events, Smooth(e)
               PROVE  ~(Cardinality(Writes(e)) >= 2)
    BY DEF SecondWriteExplained, Smooth
  <2>1. \A t, u \in Writes(e) : t = u
    BY DEF WriteInv, WriteOK, Once, Writes, Possible
  <2>2. CASE Writes(e) = {}
    BY <2>2, FS_EmptySet
  <2>3. CASE Writes(e) # {}
    <3>1. PICK t : Writes(e) = {t}
      BY <2>1, <2>3
    <3> QED BY <3>1, FS_Singleton
  <2> QED BY <2>2, <2>3
<1> QED BY <1>1, <1>2, <1>3, WriteInit, PTL DEF Spec
=============================================================================
