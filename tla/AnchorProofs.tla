---------------------------- MODULE AnchorProofs ----------------------------
(***************************************************************************)
(* Theorems about the anchor pipeline, for any number of workers, events   *)
(* and identities, any durations and any set of faults.                    *)
(***************************************************************************)
EXTENDS AnchorWorker, OutboxProofs

JobRow == [state : JobStates, tx : TxIds \cup {NoTx}, block : Nat, amb : BOOLEAN]

Errors == [retryable : BOOLEAN, ambiguous : BOOLEAN]

Locals == [pc : Pcs, event : Events, attempt : Nat, js : JobStates,
           tx : TxIds \cup {NoTx}, amb : BOOLEAN, block : Nat,
           timer : 0 .. WriteTimeout, err : Errors]

NodeRow == [status : TxStates, block : 0 .. MaxHeight]

\* The job states a job reaches only with a transaction.
Sent == {"submitted", "confirming", "readback", "verified"}

\* A job past submission has its transaction (requireTransactionId never
\* throws), and so has every worker that is about to record or inspect one.
JobOK(j) == j \in JobRow /\ (j.state \in Sent => j.tx \in TxIds)

LocalsOK(l) ==
  /\ l \in Locals
  /\ l.pc \in {"writing", "record", "confirmed", "reorged", "matched"} => l.tx \in TxIds
  /\ l.pc \in {"run", "beat"} /\ l.js \in Sent => l.tx \in TxIds

JobsOK == job \in [Events -> JobRow] /\ \A e \in Events : JobOK(job[e])
AnchorsOK == anchor \in [Events -> JobStates \ {"claimed", "preflight"}]
WorkersOK == wk \in [Workers -> Locals] /\ \A w \in Workers : LocalsOK(wk[w])
NodeOK == tx \in [TxIds -> NodeRow] /\ height \in 0 .. MaxHeight

Inv == TypeInv /\ JobsOK /\ AnchorsOK /\ WorkersOK /\ NodeOK

-----------------------------------------------------------------------------
(* The pipeline on the outbox.                                             *)

\* A worker works on an event that exists.
LEMMA EventOf ==
  ASSUME WorkersOK, NEW w \in Workers
  PROVE  wk[w].event \in Events /\ wk[w] \in Locals /\ LocalsOK(wk[w])
  BY DEF WorkersOK, Locals

\* Each step of the pipeline performs one operation of the outbox or none.
LEMMA OutboxStep ==
  ASSUME WorkersOK, [Next]_vars
  PROVE  [OutboxNext]_obVars
<1>1. CASE Tick
  BY <1>1 DEF Tick, OutboxNext
<1>2. ASSUME NEW e \in Events, EnqueueAnchor(e) PROVE OutboxNext
  BY <1>2 DEF EnqueueAnchor, OutboxNext
<1>3. ASSUME NEW w \in Workers, ClaimEvent(w) PROVE OutboxNext
  BY <1>3 DEF ClaimEvent, OutboxNext
<1>4. ASSUME NEW w \in Workers, Run(w) PROVE OutboxNext \/ UNCHANGED obVars
  <2>0. wk[w].event \in Events
    BY EventOf
  <2>1. CASE HeartbeatLease(w)
    BY <2>0, <2>1 DEF HeartbeatLease, OutboxNext
  <2>2. CASE CompleteEvent(w)
    BY <2>0, <2>2 DEF CompleteEvent, OutboxNext
  <2>3. CASE SettleRetryable(w)
    BY <2>0, <2>3 DEF SettleRetryable, OutboxNext
  <2>4. CASE SettleTerminal(w)
    BY <2>0, <2>4 DEF SettleTerminal, OutboxNext
  <2>5. CASE ~(\/ HeartbeatLease(w) \/ CompleteEvent(w)
               \/ SettleRetryable(w) \/ SettleTerminal(w))
    BY <1>4, <2>5 DEF Run, obVars, LoadForClaim, ClaimJob, BeginPreflight,
       Preflight, ReadFails, SearchReadback, SendUpdate, UpdateReturns,
       UpdateRejected, UpdateUnknown, RecordSubmission, BeginConfirmation,
       InspectConfirmation, RecordReorg, BeginReadback, Readback,
       VerifyReadback, RecordFailure, MarkDeadLetter, Conflict
  <2> QED BY <2>1, <2>2, <2>3, <2>4, <2>5
<1>5. ASSUME NEW w \in Workers, Crash(w) PROVE UNCHANGED obVars
  BY <1>5 DEF Crash, obVars
<1>6. ASSUME NEW t \in TxIds,
             NodeAccepts(t) \/ NodeRejects(t) \/ Mine(t) \/ Reorganize(t)
      PROVE  UNCHANGED obVars
  BY <1>6 DEF NodeAccepts, NodeRejects, Mine, Reorganize, obVars
<1>7. CASE UNCHANGED vars
  BY <1>7 DEF vars, obVars
<1> QED BY <1>1, <1>2, <1>3, <1>4, <1>5, <1>6, <1>7 DEF Next

-----------------------------------------------------------------------------
(* The parts of a step.                                                    *)

\* Giving one worker well-formed locals keeps all of them well-formed.
LEMMA GotoOK ==
  ASSUME WorkersOK, NEW w \in Workers, NEW l, LocalsOK(l), Goto(w, l)
  PROVE  WorkersOK'
<1>1. l \in Locals
  BY DEF LocalsOK
<1> QED BY <1>1 DEF WorkersOK, Goto, LocalsOK

\* A process that starts over has well-formed locals.
LEMMA IdleOK == LocalsOK(Idle)
<1> DEFINE e0 == CHOOSE e \in Events : TRUE
<1>1. e0 \in Events
  BY WorkerAssumption
<1>2. Error(FALSE, FALSE) \in Errors
  BY DEF Error, Errors
<1>3. 0 \in 0 .. WriteTimeout /\ NoTx \in TxIds \cup {NoTx}
  BY WorkerAssumption
<1>4. "idle" \in Pcs /\ "none" \in JobStates
  BY DEF Pcs, JobStates
<1>5. Idle = [pc |-> "idle", event |-> e0, attempt |-> 0,
              js |-> "none", tx |-> NoTx, amb |-> FALSE, block |-> 0,
              timer |-> 0, err |-> Error(FALSE, FALSE)]
  BY Zenon DEF Idle
<1> HIDE DEF e0
<1>6. Idle \in Locals
  BY <1>1, <1>2, <1>3, <1>4, <1>5 DEF Locals
<1>7. Idle.pc = "idle"
  BY <1>5
<1> QED BY <1>6, <1>7 DEF LocalsOK

\* A transition writes a well-formed job row and a state that the anchor record
\* may be in.
LEMMA TransitionOK ==
  ASSUME JobsOK, AnchorsOK, NEW w \in Workers, wk[w].event \in Events,
         NEW next \in JobStates, NEW j, JobOK([j EXCEPT !.state = next]),
         Transition(w, next, j)
  PROVE  JobsOK' /\ AnchorsOK'
<1>1. [j EXCEPT !.state = next] \in JobRow
  BY DEF JobOK
<1>2. job' = [job EXCEPT ![wk[w].event] = [j EXCEPT !.state = next]]
  BY DEF Transition
<1>3. JobsOK'
  <2> DEFINE r == [j EXCEPT !.state = next]
  <2>1. JobOK(r) /\ r \in JobRow /\ job' = [job EXCEPT ![wk[w].event] = r]
    BY <1>1, <1>2
  <2> HIDE DEF r
  <2> QED BY <2>1 DEF JobsOK, JobOK
<1>4. AnchorsOK'
  BY DEF AnchorsOK, Transition
<1> QED BY <1>3, <1>4

\* The error path leaves well-formed locals.
LEMMA FailOK ==
  ASSUME WorkersOK, NEW w \in Workers, NEW error \in Errors, Fail(w, error)
  PROVE  WorkersOK'
<1> DEFINE l == [wk[w] EXCEPT !.pc = "failed", !.err = error, !.timer = 0,
                              !.tx = NoTx, !.amb = FALSE]
<1>1. wk[w] \in Locals
  BY EventOf
<1>2. \A n \in 0 .. WriteTimeout, flag \in BOOLEAN :
        LET r == [wk[w] EXCEPT !.pc = "failed", !.err = error, !.timer = n,
                               !.tx = NoTx, !.amb = flag]
        IN  r \in Locals /\ r.pc = "failed"
  BY <1>1 DEF Locals, Pcs
<1>0. 0 \in 0 .. WriteTimeout /\ FALSE \in BOOLEAN
  BY WorkerAssumption
<1>3. l \in Locals /\ l.pc = "failed"
  BY <1>0, <1>2, Zenon
<1>4. LocalsOK(l)
  BY <1>3 DEF LocalsOK
<1> QED BY <1>4, GotoOK DEF Fail

\* Going on with the record a transition returned leaves well-formed locals.
LEMMA ContinueOK ==
  ASSUME WorkersOK, NEW w \in Workers, NEW next \in JobStates,
         NEW t \in TxIds \cup {NoTx}, NEW flag \in BOOLEAN,
         next \in Sent => t \in TxIds,
         Continue(w, next, t, flag)
  PROVE  WorkersOK'
<1> DEFINE l == [wk[w] EXCEPT !.pc = "run", !.js = next, !.tx = t,
                              !.amb = flag, !.block = 0]
<1>1. wk[w] \in Locals
  BY EventOf
<1>2. l \in Locals /\ l.pc = "run" /\ l.js = next /\ l.tx = t
  BY <1>1 DEF Locals, Pcs
<1>3. LocalsOK(l)
  BY <1>2 DEF LocalsOK
<1> QED BY <1>3, GotoOK DEF Continue

\* Moving the program counter alone leaves well-formed locals where the new
\* place needs no transaction or there is one.
LEMMA JumpOK ==
  ASSUME WorkersOK, NEW w \in Workers, NEW pc \in Pcs,
         \/ pc \notin {"writing", "record", "confirmed", "reorged", "matched",
                       "run", "beat"}
         \/ wk[w].tx \in TxIds
         \/ pc = "beat" /\ wk[w].pc = "run",
         Goto(w, [wk[w] EXCEPT !.pc = pc])
  PROVE  WorkersOK'
<1> DEFINE l == [wk[w] EXCEPT !.pc = pc]
<1>1. wk[w] \in Locals /\ LocalsOK(wk[w])
  BY EventOf
<1>2. l \in Locals /\ l.pc = pc /\ l.js = wk[w].js /\ l.tx = wk[w].tx
  BY <1>1 DEF Locals
<1>3. LocalsOK(l)
  BY <1>1, <1>2 DEF LocalsOK
<1> QED BY <1>3, GotoOK

\* A row keeps its type when transition changes its state.
LEMMA JobStateOK ==
  ASSUME NEW j \in JobRow, NEW next \in JobStates, next \in Sent => j.tx \in TxIds
  PROVE  JobOK([j EXCEPT !.state = next])
<1>1. /\ [j EXCEPT !.state = next] \in JobRow
      /\ [j EXCEPT !.state = next].state = next
      /\ [j EXCEPT !.state = next].tx = j.tx
  BY DEF JobRow
<1> QED BY <1>1 DEF JobOK

-----------------------------------------------------------------------------
(* The inductive step.                                                     *)

\* What a worker does keeps the job and anchor tables, the locals and the
\* node's transactions well-formed.
LEMMA RunOK ==
  ASSUME Inv, NEW w \in Workers, Run(w)
  PROVE  JobsOK' /\ AnchorsOK' /\ WorkersOK' /\ NodeOK'
<1> DEFINE e == wk[w].event
<1>0. /\ JobsOK /\ AnchorsOK /\ WorkersOK /\ NodeOK
      /\ e \in Events /\ wk[w] \in Locals /\ LocalsOK(wk[w])
  BY EventOf DEF Inv
<1>j. job[e] \in JobRow /\ JobOK(job[e])
  BY <1>0 DEF JobsOK
<1>n. ASSUME UNCHANGED <<tx, height>> PROVE NodeOK'
  BY <1>0, <1>n DEF NodeOK
<1>u. ASSUME UNCHANGED <<job, anchor>> PROVE JobsOK' /\ AnchorsOK'
  BY <1>0, <1>u DEF JobsOK, AnchorsOK, JobOK
<1>e. \A r, a \in BOOLEAN : Error(r, a) \in Errors
  BY DEF Error, Errors
<1>i. ASSUME Goto(w, Idle) PROVE WorkersOK'
  BY <1>0, <1>i, IdleOK, GotoOK
<1> HIDE DEF e
\* A transition of the job that goes on in processNext.
<1>t. ASSUME NEW next \in JobStates, NEW j \in JobRow,
             next \in Sent => j.tx \in TxIds, Transition(w, next, j),
             UNCHANGED <<tx, height>>
      PROVE  JobsOK' /\ AnchorsOK' /\ NodeOK'
  <2>1. JobOK([j EXCEPT !.state = next])
    BY <1>t, JobStateOK
  <2>2. JobsOK' /\ AnchorsOK'
    BY <1>0, <1>t, <2>1, TransitionOK DEF e
  <2> QED BY <1>n, <1>t, <2>2
<1>s. /\ Sent \subseteq JobStates
      /\ Resumable \cup InProgress \cup {"claimed", "preflight", "terminal_failed"}
           \subseteq JobStates
      /\ \A st \in {"claimed", "preflight", "retryable_failed", "reorg_pending",
                    "terminal_failed"} : st \in JobStates /\ st \notin Sent
      /\ {"submitted", "confirming", "readback", "verified"} = Sent
  BY DEF Sent, JobStates, Resumable, InProgress
<1>r. job[e].tx \in TxIds \cup {NoTx} /\ job[e].amb \in BOOLEAN
      /\ wk[w].tx \in TxIds \cup {NoTx} /\ wk[w].amb \in BOOLEAN
      /\ wk[w].block \in Nat /\ wk[w].err \in Errors
  BY <1>0, <1>j DEF JobRow, Locals
<1>1. CASE LoadForClaim(w)
  <2> DEFINE l == [wk[w] EXCEPT !.pc = IF job[e].state \in Resumable \cup InProgress \cup {"claimed", "verified"}
                                       THEN "run" ELSE "settle",
                                !.js = job[e].state, !.tx = job[e].tx, !.amb = job[e].amb]
  <2>1. Goto(w, l) /\ UNCHANGED <<job, anchor, tx, height>>
    BY <1>1 DEF LoadForClaim, e
  <2>2. /\ l \in Locals /\ l.pc \in {"run", "settle"}
        /\ l.js = job[e].state /\ l.tx = job[e].tx
    BY <1>0, <1>j DEF Locals, JobRow, Pcs
  <2>3. LocalsOK(l)
    BY <1>j, <2>2 DEF LocalsOK, JobOK
  <2> QED BY <1>0, <1>n, <1>u, <2>1, <2>3, GotoOK
<1>2. CASE ClaimJob(w)
  <2>1. /\ Transition(w, "claimed", job[e]) /\ UNCHANGED <<tx, height>>
        /\ Continue(w, "claimed", job[e].tx, job[e].amb)
    BY <1>2 DEF ClaimJob, e
  <2> QED BY <1>0, <1>j, <1>r, <1>s, <1>t, <2>1, ContinueOK
<1>3. CASE BeginPreflight(w)
  <2>1. /\ Transition(w, "preflight", job[e]) /\ UNCHANGED <<tx, height>>
        /\ Continue(w, "preflight", job[e].tx, job[e].amb)
    BY <1>3 DEF BeginPreflight, e
  <2> QED BY <1>0, <1>j, <1>r, <1>s, <1>t, <2>1, ContinueOK
<1>4. CASE HeartbeatLease(w)
  <2>1. Goto(w, [wk[w] EXCEPT !.pc = "beat"]) /\ wk[w].pc = "run"
        /\ UNCHANGED <<job, anchor, tx, height>>
    BY <1>4 DEF HeartbeatLease
  <2>2. WorkersOK'
    BY <1>0, <2>1, JumpOK DEF Pcs
  <2> QED BY <1>n, <1>u, <2>1, <2>2
<1>5. CASE Preflight(w)
  <2>1. PICK pc \in {"record", "search", "write"} :
          /\ Goto(w, [wk[w] EXCEPT !.pc = pc])
          /\ pc = "record" => wk[w].tx # NoTx
    BY <1>5 DEF Preflight
  <2>2. WorkersOK'
    BY <1>0, <1>r, <2>1, JumpOK DEF Pcs
  <2> QED BY <1>5, <1>n, <1>u, <2>2 DEF Preflight
<1>6. CASE ReadFails(w) \/ UpdateRejected(w) \/ UpdateUnknown(w)
  <2>1. PICK r, a \in BOOLEAN : Fail(w, Error(r, a))
    BY <1>6 DEF ReadFails, UpdateRejected, UpdateUnknown
  <2>2. WorkersOK'
    BY <1>0, <1>e, <2>1, FailOK
  <2> QED BY <1>6, <1>n, <1>u, <2>2 DEF ReadFails, UpdateRejected, UpdateUnknown
<1>7. CASE SearchReadback(w)
  <2>1. ASSUME Fail(w, Error(TRUE, TRUE)) PROVE WorkersOK'
    BY <1>0, <1>e, <2>1, FailOK
  <2>2. ASSUME NEW t \in TxIds, Goto(w, [wk[w] EXCEPT !.pc = "record", !.tx = t])
        PROVE  WorkersOK'
    <3> DEFINE l == [wk[w] EXCEPT !.pc = "record", !.tx = t]
    <3>1. l \in Locals /\ l.pc = "record" /\ l.tx = t
      BY <1>0 DEF Locals, Pcs
    <3>2. LocalsOK(l)
      BY <3>1 DEF LocalsOK
    <3> QED BY <1>0, <2>2, <3>2, GotoOK
  <2> QED BY <1>7, <1>n, <1>u, <2>1, <2>2 DEF SearchReadback, e
<1>8. CASE SendUpdate(w)
  <2>1. PICK n \in 1 .. MaxWrites :
          /\ tx' = [tx EXCEPT ![<<e, n>>].status = "sent"]
          /\ Goto(w, [wk[w] EXCEPT !.pc = "writing", !.timer = WriteTimeout,
                                   !.tx = <<e, n>>])
    BY <1>8 DEF SendUpdate, e
  <2> DEFINE t == <<e, n>>
             l == [wk[w] EXCEPT !.pc = "writing", !.timer = WriteTimeout, !.tx = t]
  <2>2. t \in TxIds
    BY <1>0 DEF TxIds
  <2>3. WriteTimeout \in 0 .. WriteTimeout
    BY WorkerAssumption
  <2>4. Goto(w, l) /\ tx' = [tx EXCEPT ![t].status = "sent"]
    BY <2>1
  <2> HIDE DEF t
  <2>5. l \in Locals /\ l.pc = "writing" /\ l.tx = t
    BY <1>0, <2>2, <2>3 DEF Locals, Pcs
  <2>6. WorkersOK'
    <3>1. LocalsOK(l)
      BY <2>2, <2>5 DEF LocalsOK
    <3> QED BY <1>0, <2>4, <3>1, GotoOK
  <2>7. NodeOK'
    BY <1>0, <1>8, <2>2, <2>4 DEF NodeOK, NodeRow, TxStates, SendUpdate
  <2> QED BY <1>8, <1>u, <2>6, <2>7 DEF SendUpdate
<1>9. CASE UpdateReturns(w)
  <2> DEFINE l == [wk[w] EXCEPT !.pc = "record", !.timer = 0]
  <2>1. wk[w].tx \in TxIds /\ Goto(w, l)
    BY <1>0, <1>9 DEF UpdateReturns, LocalsOK
  <2>2. 0 \in 0 .. WriteTimeout
    BY WorkerAssumption
  <2>3. l \in Locals /\ l.pc = "record" /\ l.tx = wk[w].tx
    BY <1>0, <2>2 DEF Locals, Pcs
  <2>4. LocalsOK(l)
    BY <2>1, <2>3 DEF LocalsOK
  <2>5. WorkersOK'
    BY <1>0, <2>1, <2>4, GotoOK
  <2> QED BY <1>9, <1>n, <1>u, <2>5 DEF UpdateReturns
<1>10. CASE RecordSubmission(w)
  <2> DEFINE j == [job[e] EXCEPT !.tx = wk[w].tx, !.amb = FALSE]
  <2>1. /\ Transition(w, "submitted", j) /\ UNCHANGED <<tx, height>>
        /\ Continue(w, "submitted", wk[w].tx, FALSE)
    BY <1>10 DEF RecordSubmission, e
  <2>2. wk[w].tx \in TxIds
    BY <1>0, <1>10 DEF RecordSubmission, LocalsOK
  <2>3. j \in JobRow /\ j.tx = wk[w].tx
    <3>1. \A flag \in BOOLEAN : LET r == [job[e] EXCEPT !.tx = wk[w].tx, !.amb = flag]
                                IN  r \in JobRow /\ r.tx = wk[w].tx
      BY <1>j, <2>2 DEF JobRow
    <3>2. FALSE \in BOOLEAN
      OBVIOUS
    <3> QED BY <3>1, <3>2, Zenon
  <2> HIDE DEF j
  <2>4. JobsOK' /\ AnchorsOK' /\ NodeOK'
    BY <1>s, <1>t, <2>1, <2>2, <2>3
  <2>5. WorkersOK'
    BY <1>0, <1>s, <2>1, <2>2, ContinueOK
  <2> QED BY <2>4, <2>5
<1>11. CASE BeginConfirmation(w)
  <2>1. /\ Transition(w, "confirming", job[e]) /\ UNCHANGED <<tx, height>>
        /\ Continue(w, "confirming", wk[w].tx, wk[w].amb)
        /\ wk[w].pc = "beat" /\ wk[w].js = "submitted"
        /\ job[e].state \in Expected(w)
    BY <1>11 DEF BeginConfirmation, Accepted, e
  <2>2. wk[w].tx \in TxIds
    BY <1>0, <2>1 DEF LocalsOK, Sent
  <2>3. job[e].tx \in TxIds
    BY <1>j, <2>1 DEF Expected, JobOK, Sent
  <2>4. JobsOK' /\ AnchorsOK' /\ NodeOK'
    BY <1>j, <1>s, <1>t, <2>1, <2>3
  <2>5. WorkersOK'
    BY <1>0, <1>r, <1>s, <2>1, <2>2, ContinueOK
  <2> QED BY <2>4, <2>5
<1>12. CASE InspectConfirmation(w)
  <2>0. wk[w].tx \in TxIds
    BY <1>0, <1>12 DEF InspectConfirmation, LocalsOK, Sent
  <2>1. ASSUME Fail(w, Error(TRUE, FALSE)) PROVE WorkersOK'
    BY <1>0, <1>e, <2>1, FailOK
  <2>2. ASSUME Goto(w, [wk[w] EXCEPT !.pc = "reorged"]) PROVE WorkersOK'
    BY <1>0, <2>0, <2>2, JumpOK DEF Pcs
  <2>3. ASSUME Goto(w, [wk[w] EXCEPT !.pc = "confirmed", !.block = tx[wk[w].tx].block])
        PROVE  WorkersOK'
    <3> DEFINE b == tx[wk[w].tx].block
               l == [wk[w] EXCEPT !.pc = "confirmed", !.block = b]
    <3>1. b \in Nat
      BY <1>0, <2>0, WorkerAssumption DEF NodeOK, NodeRow
    <3> HIDE DEF b
    <3>2. l \in Locals /\ l.pc = "confirmed" /\ l.tx = wk[w].tx
      BY <1>0, <3>1 DEF Locals, Pcs
    <3>3. LocalsOK(l)
      BY <2>0, <3>2 DEF LocalsOK
    <3> QED BY <1>0, <2>3, <3>3, GotoOK DEF b
  <2> QED BY <1>12, <1>n, <1>u, <2>1, <2>2, <2>3 DEF InspectConfirmation
<1>13. CASE RecordReorg(w)
  <2> DEFINE l == [wk[w] EXCEPT !.pc = "settle", !.err = Error(TRUE, FALSE)]
  <2>1. /\ Transition(w, "reorg_pending", job[e]) /\ UNCHANGED <<tx, height>>
        /\ Goto(w, l)
    BY <1>13 DEF RecordReorg, e
  <2>2. JobsOK' /\ AnchorsOK' /\ NodeOK'
    BY <1>j, <1>s, <1>t, <2>1
  <2>3. Error(TRUE, FALSE) \in Errors
    BY <1>e
  <2>4. l \in Locals /\ l.pc = "settle"
    BY <1>0, <2>3 DEF Locals, Pcs
  <2>5. LocalsOK(l)
    BY <2>4 DEF LocalsOK
  <2> QED BY <1>0, <2>1, <2>2, <2>5, GotoOK
<1>14. CASE BeginReadback(w)
  <2> DEFINE j == [job[e] EXCEPT !.block = wk[w].block]
  <2>1. /\ Transition(w, "readback", j) /\ UNCHANGED <<tx, height>>
        /\ Continue(w, "readback", wk[w].tx, wk[w].amb)
        /\ wk[w].pc = "confirmed" /\ job[e].state \in Expected(w)
    BY <1>14 DEF BeginReadback, Accepted, e
  <2>2. wk[w].tx \in TxIds
    BY <1>0, <2>1 DEF LocalsOK
  <2>3. job[e].tx \in TxIds
    BY <1>j, <2>1 DEF Expected, JobOK, Sent
  <2>4. j \in JobRow /\ j.tx = job[e].tx
    BY <1>j, <1>r DEF JobRow
  <2> HIDE DEF j
  <2>5. JobsOK' /\ AnchorsOK' /\ NodeOK'
    BY <1>s, <1>t, <2>1, <2>3, <2>4
  <2>6. WorkersOK'
    BY <1>0, <1>r, <1>s, <2>1, <2>2, ContinueOK
  <2> QED BY <2>5, <2>6
<1>15. CASE Readback(w)
  <2>0. wk[w].tx \in TxIds
    BY <1>0, <1>15 DEF Readback, LocalsOK, Sent
  <2>1. ASSUME Fail(w, Error(FALSE, FALSE)) PROVE WorkersOK'
    BY <1>0, <1>e, <2>1, FailOK
  <2>2. ASSUME Goto(w, [wk[w] EXCEPT !.pc = "matched"]) PROVE WorkersOK'
    BY <1>0, <2>0, <2>2, JumpOK DEF Pcs
  <2> QED BY <1>15, <1>n, <1>u, <2>1, <2>2 DEF Readback
<1>16. CASE VerifyReadback(w)
  <2>1. /\ Transition(w, "verified", job[e]) /\ UNCHANGED <<tx, height>>
        /\ Continue(w, "verified", wk[w].tx, wk[w].amb)
        /\ wk[w].pc = "matched" /\ job[e].state \in Expected(w)
    BY <1>16 DEF VerifyReadback, Accepted, e
  <2>2. wk[w].tx \in TxIds
    BY <1>0, <2>1 DEF LocalsOK
  <2>3. job[e].tx \in TxIds
    BY <1>j, <2>1 DEF Expected, JobOK, Sent
  <2>4. JobsOK' /\ AnchorsOK' /\ NodeOK'
    BY <1>j, <1>s, <1>t, <2>1, <2>3
  <2>5. WorkersOK'
    BY <1>0, <1>r, <1>s, <2>1, <2>2, ContinueOK
  <2> QED BY <2>4, <2>5
<1>17. CASE RecordFailure(w)
  <2> DEFINE j == [job[e] EXCEPT !.amb = wk[w].err.ambiguous]
  <2>1. PICK next \in {"retryable_failed", "terminal_failed"} : Transition(w, next, j)
    BY <1>17 DEF RecordFailure, e
  <2>2. j \in JobRow
    <3>1. wk[w].err.ambiguous \in BOOLEAN
      BY <1>r DEF Errors
    <3> QED BY <1>j, <3>1 DEF JobRow
  <2> HIDE DEF j
  <2>3. JobsOK' /\ AnchorsOK' /\ NodeOK'
    BY <1>17, <1>s, <1>t, <2>1, <2>2 DEF RecordFailure
  <2>4. Goto(w, [wk[w] EXCEPT !.pc = "settle"])
    BY <1>17 DEF RecordFailure
  <2>5. WorkersOK'
    BY <1>0, <2>4, JumpOK DEF Pcs
  <2> QED BY <2>3, <2>5
<1>18. CASE SettleRetryable(w)
  <2> DEFINE l == [Idle EXCEPT !.pc = "bury", !.event = wk[w].event,
                               !.attempt = wk[w].attempt]
  <2>1. Goto(w, l) \/ Goto(w, Idle)
    BY <1>18 DEF SettleRetryable
  <2>2. LocalsOK(l)
    <3>1. Idle \in Locals
      BY IdleOK DEF LocalsOK
    <3>2. l \in Locals /\ l.pc = "bury"
      BY <1>0, <3>1 DEF Locals, Pcs
    <3> QED BY <3>2 DEF LocalsOK
  <2>3. WorkersOK'
    BY <1>0, <1>i, <2>1, <2>2, GotoOK
  <2> QED BY <1>18, <1>n, <1>u, <2>3 DEF SettleRetryable
<1>19. CASE CompleteEvent(w) \/ SettleTerminal(w) \/ Conflict(w)
  BY <1>19, <1>i, <1>n, <1>u DEF CompleteEvent, SettleTerminal, Conflict
<1>20. CASE MarkDeadLetter(w)
  <2> DEFINE j == [job[e] EXCEPT !.amb = FALSE]
  <2>1. /\ Transition(w, "terminal_failed", j) /\ Goto(w, Idle)
        /\ UNCHANGED <<tx, height>>
    BY <1>20 DEF MarkDeadLetter, e
  <2>2. j \in JobRow
    BY <1>j DEF JobRow
  <2> HIDE DEF j
  <2> QED BY <1>i, <1>s, <1>t, <2>1, <2>2
<1> QED
  BY <1>1, <1>2, <1>3, <1>4, <1>5, <1>6, <1>7, <1>8, <1>9, <1>10, <1>11, <1>12,
     <1>13, <1>14, <1>15, <1>16, <1>17, <1>18, <1>19, <1>20 DEF Run

\* The tables, locals and chain start well-formed.
LEMMA InvInit == Init => Inv
<1> SUFFICES ASSUME Init PROVE Inv
  OBVIOUS
<1>1. TypeInv
  BY TypeInit DEF Init
<1>2. JobsOK /\ AnchorsOK
  <2> DEFINE r == [state |-> "none", tx |-> NoTx, block |-> 0, amb |-> FALSE]
  <2>1. r \in JobRow /\ r.state \notin Sent
    BY DEF JobRow, JobStates, Sent
  <2>2. job = [e \in Events |-> r]
    BY DEF Init
  <2> HIDE DEF r
  <2> QED BY <2>1, <2>2 DEF Init, JobsOK, JobOK, AnchorsOK, JobStates
<1>3. WorkersOK
  <2>1. Idle \in Locals
    BY IdleOK DEF LocalsOK
  <2> QED BY <2>1, IdleOK DEF Init, WorkersOK
<1>4. NodeOK
  BY WorkerAssumption DEF Init, NodeOK, NodeRow, TxStates
<1> QED BY <1>1, <1>2, <1>3, <1>4 DEF Inv

\* Every step of the pipeline preserves the invariant.
LEMMA InvStep == Inv /\ [Next]_vars => Inv'
<1> SUFFICES ASSUME Inv, [Next]_vars PROVE Inv'
  OBVIOUS
<1>0. TypeInv /\ JobsOK /\ AnchorsOK /\ WorkersOK /\ NodeOK
  BY DEF Inv
<1>a. TypeInv'
  BY <1>0, OutboxStep, TypeStep
<1>u. /\ UNCHANGED <<job, anchor>> => JobsOK' /\ AnchorsOK'
      /\ UNCHANGED wk => WorkersOK'
      /\ UNCHANGED <<tx, height>> => NodeOK'
  BY <1>0 DEF JobsOK, JobOK, AnchorsOK, WorkersOK, LocalsOK, NodeOK
<1>1. CASE Tick
  <2> DEFINE timer(w) == IF wk[w].timer > 0 THEN wk[w].timer - 1 ELSE 0
             l(w) == [wk[w] EXCEPT !.timer = timer(w)]
  <2>1. wk' = [w \in Workers |-> l(w)] /\ UNCHANGED <<job, anchor, tx, height>>
    BY <1>1 DEF Tick
  <2>2. ASSUME NEW w \in Workers PROVE LocalsOK(l(w)) /\ l(w) \in Locals
    <3>1. wk[w] \in Locals /\ LocalsOK(wk[w])
      BY <1>0, EventOf
    <3>2. timer(w) \in 0 .. WriteTimeout
      BY <3>1, WorkerAssumption DEF Locals
    <3> HIDE DEF timer
    <3>3. l(w) \in Locals /\ l(w).pc = wk[w].pc /\ l(w).js = wk[w].js
          /\ l(w).tx = wk[w].tx
      BY <3>1, <3>2 DEF Locals
    <3> QED BY <3>1, <3>3 DEF LocalsOK
  <2> HIDE DEF l
  <2>3. WorkersOK'
    BY <2>1, <2>2 DEF WorkersOK, LocalsOK
  <2> QED BY <1>a, <1>u, <2>1, <2>3 DEF Inv
<1>2. ASSUME NEW e \in Events, EnqueueAnchor(e) PROVE Inv'
  <2>1. job[e] \in JobRow /\ JobOK(job[e])
    BY <1>0 DEF JobsOK
  <2> DEFINE r == [job[e] EXCEPT !.state = "pending"]
  <2>2. r \in JobRow /\ JobOK(r)
    <3>1. "pending" \in JobStates /\ "pending" \notin Sent
      BY DEF JobStates, Sent
    <3>2. JobOK(r)
      BY <2>1, <3>1, JobStateOK
    <3> QED BY <3>2 DEF JobOK
  <2>3. job' = [job EXCEPT ![e] = r]
    BY <1>2 DEF EnqueueAnchor
  <2> HIDE DEF r
  <2>4. JobsOK'
    BY <1>0, <2>2, <2>3 DEF JobsOK, JobOK
  <2>5. AnchorsOK'
    BY <1>0, <1>2 DEF EnqueueAnchor, AnchorsOK, JobStates
  <2> QED BY <1>2, <1>a, <1>u, <2>4, <2>5 DEF EnqueueAnchor, Inv
<1>3. ASSUME NEW w \in Workers, ClaimEvent(w) PROVE Inv'
  <2>1. PICK e \in Events :
          Goto(w, [Idle EXCEPT !.pc = "load", !.event = e,
                               !.attempt = ob[e].attempts + 1])
    BY <1>3 DEF ClaimEvent
  <2> DEFINE n == ob[e].attempts + 1
             l == [Idle EXCEPT !.pc = "load", !.event = e, !.attempt = n]
  <2>2. n \in Nat
    BY <1>0 DEF TypeInv, OutboxTypeOK
  <2> HIDE DEF n
  <2>3. Idle \in Locals
    BY IdleOK DEF LocalsOK
  <2>4. l \in Locals /\ l.pc = "load"
    BY <2>2, <2>3 DEF Locals, Pcs
  <2>5. LocalsOK(l)
    BY <2>4 DEF LocalsOK
  <2>6. WorkersOK'
    BY <1>0, <2>1, <2>5, GotoOK DEF n
  <2> QED BY <1>3, <1>a, <1>u, <2>6 DEF ClaimEvent, Inv
<1>4. ASSUME NEW w \in Workers, Run(w) PROVE Inv'
  BY <1>4, <1>a, RunOK DEF Inv
<1>5. ASSUME NEW w \in Workers, Crash(w) PROVE Inv'
  <2>1. WorkersOK'
    BY <1>0, <1>5, IdleOK, GotoOK DEF Crash
  <2> QED BY <1>5, <1>a, <1>u, <2>1 DEF Crash, Inv
<1>6. ASSUME NEW t \in TxIds,
             NodeAccepts(t) \/ NodeRejects(t) \/ Mine(t) \/ Reorganize(t)
      PROVE  Inv'
  <2>1. NodeOK'
    BY <1>0, <1>6, WorkerAssumption
    DEF NodeAccepts, NodeRejects, Mine, Reorganize, NodeOK, NodeRow, TxStates
  <2> QED BY <1>6, <1>a, <1>u, <2>1
          DEF NodeAccepts, NodeRejects, Mine, Reorganize, Inv
<1>7. CASE UNCHANGED vars
  BY <1>7, <1>a, <1>u DEF vars, Inv
<1> QED BY <1>1, <1>2, <1>3, <1>4, <1>5, <1>6, <1>7 DEF Next

\* All tables, local variables and chain records are well-typed in every
\* reachable state; the proof carries that a job past submission always has the
\* transaction that inspectTransactionConfirmation is asked about.
THEOREM AnchorTypeCorrect == Spec => []TypeOK
<1>1. Spec => []Inv
  BY InvInit, InvStep, PTL DEF Spec
<1>2. Inv => TypeOK
  BY DEF Inv, TypeInv, JobsOK, AnchorsOK, WorkersOK, NodeOK, TypeOK, JobRow,
         Locals, Errors, NodeRow
<1> QED BY <1>1, <1>2, PTL

\* The pipeline uses the outbox as its repository offers it: every behaviour of
\* the pipeline is a behaviour of the outbox specification.
THEOREM AnchorUsesOutbox == Spec => UsesOutbox
<1>1. Init => OutboxInit
  BY DEF Init
<1>2. Inv /\ [Next]_vars => [OutboxNext]_obVars
  BY OutboxStep DEF Inv
<1>3. Spec => []Inv
  BY InvInit, InvStep, PTL DEF Spec
<1> QED BY <1>1, <1>2, <1>3, PTL DEF Spec, UsesOutbox, OutboxSpec

\* Hence the attempt history of the pipeline is complete and exact, and what it
\* has settled stays settled.
THEOREM AnchorAttemptHistory == Spec => []AttemptLedger /\ SettledForever
  BY AnchorUsesOutbox, OutboxLedgerExact, OutboxSettledForever, PTL DEF UsesOutbox

\* And whatever clocks its workers read, two live leases of one target identity
\* come about only when a late heartbeat of a worker revives an expired one.
THEOREM AnchorOverlapOnlyByRevival == Spec => OverlapOnlyByRevival
BY AnchorUsesOutbox, OutboxOverlapOnlyByRevival, PTL DEF UsesOutbox
=============================================================================
