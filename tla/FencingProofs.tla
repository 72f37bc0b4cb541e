---------------------------- MODULE FencingProofs ----------------------------
(***************************************************************************)
(* The lease fences the job table: when the workers run under references   *)
(* of their own, only the worker that makes the current attempt of an      *)
(* event can change its job.                                               *)
(***************************************************************************)
EXTENDS AnchorProofs

OwnReferences == \A v, w \in Workers : RefOf[v] = RefOf[w] => v = w

\* A worker that holds the lease of its event makes the event's last attempt,
\* and so did the worker that is about to bury a dead letter.
Current(w) == wk[w].attempt = ob[wk[w].event].attempts

FenceOf(w) ==
  /\ /\ wk[w].pc # "idle"
     /\ ob[wk[w].event].state = "claimed"
     /\ ob[wk[w].event].owner = RefOf[w]
     => Current(w)
  /\ wk[w].pc = "bury" => ob[wk[w].event].state = "dead_letter" /\ Current(w)

Fence == \A w \in Workers : FenceOf(w)

\* enqueueAnchor inserts the job together with its event.
Together == \A e \in Events : ob[e].state = "none" => job[e].state = "none"

FenceInv == Inv /\ Fence /\ Together

-----------------------------------------------------------------------------
(* The shape of a worker's step.                                           *)

SameRow(f) ==
  /\ ob'[f].state = ob[f].state /\ ob'[f].owner = ob[f].owner
  /\ ob'[f].attempts = ob[f].attempts

Closed == FinalStates \cup {"retryable_failed"}

\* The rows of the other events, and the row of w's own event unless the step
\* settles it under the lease.
RowsAfter(w) ==
  \A f \in Events :
    \/ SameRow(f)
    \/ /\ f = wk[w].event /\ \E lag \in Lags : Holds(w, f, lag)
       /\ ob'[f].state \in Closed /\ ob'[f].attempts = ob[f].attempts

\* w goes on with the same attempt, to bury it only if it just became a dead
\* letter, or ends its run.
LocalsAfter(w) ==
  /\ wk'[w] # wk[w]
  /\ \A v \in Workers \ {w} : wk'[v] = wk[v]
  /\ \/ wk'[w] = Idle
     \/ /\ wk[w].pc # "idle"
        /\ wk'[w].event = wk[w].event /\ wk'[w].attempt = wk[w].attempt
        /\ wk'[w].pc = "bury" =>
             /\ \E lag \in Lags : Holds(w, wk[w].event, lag)
             /\ ob'[wk[w].event].state = "dead_letter"

\* Jobs change only where the repository accepted the call.
JobsAfter(w) ==
  \A f \in Events : job'[f] # job[f] =>
    f = wk[w].event /\ \E lag \in Lags : Accepted(w, lag)

\* Giving w locals at another place of the same attempt.
LEMMA GotoShape ==
  ASSUME Inv, NEW w \in Workers, NEW l, Goto(w, l),
         wk[w].pc # "idle", l.pc # "bury",
         l.pc # wk[w].pc \/ l.js # wk[w].js,
         l.event = wk[w].event, l.attempt = wk[w].attempt
  PROVE  LocalsAfter(w)
<1>1. wk'[w] = l /\ \A v \in Workers \ {w} : wk'[v] = wk[v]
  BY DEF Inv, WorkersOK, Goto
<1>2. l # wk[w]
  OBVIOUS
<1> QED BY <1>1, <1>2 DEF LocalsAfter

\* Ending w's run.
LEMMA IdleShape ==
  ASSUME Inv, NEW w \in Workers, Goto(w, Idle), wk[w].pc # "idle"
  PROVE  LocalsAfter(w)
<1>1. wk'[w] = Idle /\ \A v \in Workers \ {w} : wk'[v] = wk[v]
  BY DEF Inv, WorkersOK, Goto
<1>2. Idle.pc = "idle"
  BY DEF Idle
<1> QED BY <1>1, <1>2 DEF LocalsAfter

\* A call that only moves w on leaves the rows and the jobs alone.
LEMMA LocalShape ==
  ASSUME Inv, NEW w \in Workers,
         \/ LoadForClaim(w) \/ Preflight(w) \/ ReadFails(w) \/ SearchReadback(w)
         \/ SendUpdate(w) \/ UpdateReturns(w) \/ UpdateRejected(w)
         \/ UpdateUnknown(w) \/ InspectConfirmation(w) \/ Readback(w) \/ Conflict(w)
  PROVE  RowsAfter(w) /\ LocalsAfter(w) /\ JobsAfter(w)
<1>0. wk[w] \in Locals
  BY EventOf DEF Inv
<1>1. RowsAfter(w) /\ JobsAfter(w)
  BY DEF LoadForClaim, Preflight, ReadFails, SearchReadback, SendUpdate,
         UpdateReturns, UpdateRejected, UpdateUnknown, InspectConfirmation,
         Readback, Conflict, RowsAfter, SameRow, JobsAfter
<1> SUFFICES LocalsAfter(w)
  BY <1>1
<1>f. ASSUME NEW error, Fail(w, error), wk[w].pc \notin {"idle", "failed"}
      PROVE  LocalsAfter(w)
  <2> DEFINE l == [wk[w] EXCEPT !.pc = "failed", !.err = error, !.timer = 0,
                                !.tx = NoTx, !.amb = FALSE]
  <2>1. l.pc = "failed" /\ l.event = wk[w].event /\ l.attempt = wk[w].attempt
    BY <1>0 DEF Locals
  <2>2. Goto(w, l)
    BY <1>f DEF Fail
  <2> HIDE DEF l
  <2> QED BY <1>f, <2>1, <2>2, GotoShape
<1>p. ASSUME NEW pc, Goto(w, [wk[w] EXCEPT !.pc = pc]), wk[w].pc # "idle",
             pc # wk[w].pc, pc # "bury"
      PROVE  LocalsAfter(w)
  <2> DEFINE l == [wk[w] EXCEPT !.pc = pc]
  <2>1. l.pc = pc /\ l.event = wk[w].event /\ l.attempt = wk[w].attempt
    BY <1>0 DEF Locals
  <2> HIDE DEF l
  <2> QED BY <1>p, <2>1, GotoShape DEF l
<1>2. CASE LoadForClaim(w)
  <2> DEFINE pc == IF job[wk[w].event].state \in Resumable \cup InProgress \cup {"claimed", "verified"}
                   THEN "run" ELSE "settle"
             l == [wk[w] EXCEPT !.pc = pc, !.js = job[wk[w].event].state,
                                !.tx = job[wk[w].event].tx,
                                !.amb = job[wk[w].event].amb]
  <2>1. Goto(w, l) /\ wk[w].pc = "load" /\ pc \in {"run", "settle"}
    BY <1>2 DEF LoadForClaim
  <2> HIDE DEF pc
  <2>2. l.pc = pc /\ l.event = wk[w].event /\ l.attempt = wk[w].attempt
    BY <1>0 DEF Locals
  <2> HIDE DEF l
  <2> QED BY <2>1, <2>2, GotoShape
<1>3. CASE Preflight(w)
  <2>1. PICK pc \in {"record", "search", "write"} : Goto(w, [wk[w] EXCEPT !.pc = pc])
    BY <1>3 DEF Preflight
  <2> QED BY <1>3, <1>p, <2>1 DEF Preflight
<1>4. CASE ReadFails(w) \/ UpdateRejected(w) \/ UpdateUnknown(w)
  <2>1. PICK error : Fail(w, error)
    BY <1>4 DEF ReadFails, UpdateRejected, UpdateUnknown
  <2>2. wk[w].pc \in {"search", "beat", "writing"}
    BY <1>4 DEF ReadFails, UpdateRejected, UpdateUnknown
  <2> QED BY <1>f, <2>1, <2>2
<1>5. CASE SearchReadback(w)
  <2>0. wk[w].pc = "search"
    BY <1>5 DEF SearchReadback
  <2>1. ASSUME NEW error, Fail(w, error) PROVE LocalsAfter(w)
    BY <1>f, <2>0, <2>1
  <2>2. ASSUME NEW t, Goto(w, [wk[w] EXCEPT !.pc = "record", !.tx = t])
        PROVE  LocalsAfter(w)
    <3> DEFINE l == [wk[w] EXCEPT !.pc = "record", !.tx = t]
    <3>1. l.pc = "record" /\ l.event = wk[w].event /\ l.attempt = wk[w].attempt
      BY <1>0 DEF Locals
    <3> HIDE DEF l
    <3> QED BY <2>0, <2>2, <3>1, GotoShape DEF l
  <2> QED BY <1>5, <2>1, <2>2 DEF SearchReadback
<1>6. CASE SendUpdate(w)
  <2>1. PICK n \in 1 .. MaxWrites :
          Goto(w, [wk[w] EXCEPT !.pc = "writing", !.timer = WriteTimeout,
                                !.tx = <<wk[w].event, n>>])
    BY <1>6 DEF SendUpdate
  <2> DEFINE l == [wk[w] EXCEPT !.pc = "writing", !.timer = WriteTimeout,
                                !.tx = <<wk[w].event, n>>]
  <2>2. l.pc = "writing" /\ l.event = wk[w].event /\ l.attempt = wk[w].attempt
    BY <1>0 DEF Locals
  <2>3. Goto(w, l) /\ wk[w].pc = "write"
    BY <1>6, <2>1 DEF SendUpdate
  <2> HIDE DEF l
  <2> QED BY <2>2, <2>3, GotoShape
<1>7. CASE UpdateReturns(w)
  <2> DEFINE l == [wk[w] EXCEPT !.pc = "record", !.timer = 0]
  <2>1. l.pc = "record" /\ l.event = wk[w].event /\ l.attempt = wk[w].attempt
    BY <1>0 DEF Locals
  <2>2. Goto(w, l) /\ wk[w].pc = "writing"
    BY <1>7 DEF UpdateReturns
  <2> HIDE DEF l
  <2> QED BY <2>1, <2>2, GotoShape
<1>8. CASE InspectConfirmation(w)
  <2>0. wk[w].pc = "beat"
    BY <1>8 DEF InspectConfirmation
  <2>1. ASSUME Fail(w, Error(TRUE, FALSE)) PROVE LocalsAfter(w)
    BY <1>f, <2>0, <2>1
  <2>2. ASSUME Goto(w, [wk[w] EXCEPT !.pc = "reorged"]) PROVE LocalsAfter(w)
    BY <1>p, <2>0, <2>2
  <2>3. ASSUME NEW b, Goto(w, [wk[w] EXCEPT !.pc = "confirmed", !.block = b])
        PROVE  LocalsAfter(w)
    <3> DEFINE l == [wk[w] EXCEPT !.pc = "confirmed", !.block = b]
    <3>1. l.pc = "confirmed" /\ l.event = wk[w].event /\ l.attempt = wk[w].attempt
      BY <1>0 DEF Locals
    <3> HIDE DEF l
    <3> QED BY <2>0, <2>3, <3>1, GotoShape DEF l
  <2> QED BY <1>8, <2>1, <2>2, <2>3 DEF InspectConfirmation
<1>9. CASE Readback(w)
  <2>1. wk[w].pc = "beat"
    BY <1>9 DEF Readback
  <2>2. Fail(w, Error(FALSE, FALSE)) \/ Goto(w, [wk[w] EXCEPT !.pc = "matched"])
    BY <1>9 DEF Readback
  <2>3. ASSUME Fail(w, Error(FALSE, FALSE)) PROVE LocalsAfter(w)
    BY <1>f, <2>1, <2>3
  <2>4. ASSUME Goto(w, [wk[w] EXCEPT !.pc = "matched"]) PROVE LocalsAfter(w)
    BY <1>p, <2>1, <2>4
  <2> QED BY <2>2, <2>3, <2>4
<1>10. CASE Conflict(w)
  <2>1. Goto(w, Idle) /\ wk[w].pc # "idle"
    BY <1>10 DEF Conflict, CallsDatabase
  <2> QED BY <2>1, IdleShape
<1> QED BY <1>2, <1>3, <1>4, <1>5, <1>6, <1>7, <1>8, <1>9, <1>10

\* A transition of the job leaves the rows alone and was accepted.
LEMMA TransitionShape ==
  ASSUME Inv, NEW w \in Workers,
         \/ ClaimJob(w) \/ BeginPreflight(w) \/ RecordSubmission(w)
         \/ BeginConfirmation(w) \/ RecordReorg(w) \/ BeginReadback(w)
         \/ VerifyReadback(w) \/ RecordFailure(w) \/ MarkDeadLetter(w)
  PROVE  RowsAfter(w) /\ LocalsAfter(w) /\ JobsAfter(w)
<1>0. wk[w] \in Locals /\ job \in [Events -> JobRow]
  BY EventOf DEF Inv, JobsOK
<1>1. RowsAfter(w)
  BY DEF ClaimJob, BeginPreflight, RecordSubmission, BeginConfirmation,
         RecordReorg, BeginReadback, VerifyReadback, RecordFailure,
         MarkDeadLetter, RowsAfter, SameRow
<1>2. JobsAfter(w)
  <2>1. PICK next, j : Transition(w, next, j)
    BY DEF ClaimJob, BeginPreflight, RecordSubmission, BeginConfirmation,
           RecordReorg, BeginReadback, VerifyReadback, RecordFailure, MarkDeadLetter
  <2>2. 0 \in Lags
    BY OutboxAssumption DEF Lags
  <2>3. \E lag \in Lags : Accepted(w, lag)
    BY <2>2 DEF ClaimJob, BeginPreflight, RecordSubmission, BeginConfirmation,
           RecordReorg, BeginReadback, VerifyReadback, RecordFailure, MarkDeadLetter
  <2>4. \A f \in Events : job'[f] # job[f] => f = wk[w].event
    BY <1>0, <2>1 DEF Transition
  <2> QED BY <2>3, <2>4 DEF JobsAfter
<1>3. LocalsAfter(w)
  <2>c. ASSUME NEW next, NEW t, NEW flag, Continue(w, next, t, flag),
               wk[w].pc # "idle", wk[w].pc # "run" \/ next # wk[w].js
        PROVE  LocalsAfter(w)
    <3> DEFINE l == [wk[w] EXCEPT !.pc = "run", !.js = next, !.tx = t,
                                  !.amb = flag, !.block = 0]
    <3>1. l.pc = "run" /\ l.js = next /\ l.event = wk[w].event
          /\ l.attempt = wk[w].attempt
      BY <1>0 DEF Locals
    <3>2. Goto(w, l)
      BY <2>c DEF Continue
    <3> HIDE DEF l
    <3> QED BY <2>c, <3>1, <3>2, GotoShape
  <2>1. CASE \/ ClaimJob(w) \/ BeginPreflight(w) \/ RecordSubmission(w)
             \/ BeginConfirmation(w) \/ BeginReadback(w) \/ VerifyReadback(w)
    <3>1. PICK next, t, flag :
            /\ Continue(w, next, t, flag)
            /\ wk[w].pc # "idle" /\ (wk[w].pc # "run" \/ next # wk[w].js)
      <4>1. ASSUME ClaimJob(w)
            PROVE  \E t, flag : /\ Continue(w, "claimed", t, flag)
                                /\ wk[w].pc # "idle" /\ "claimed" # wk[w].js
        BY <4>1 DEF ClaimJob, Resumable
      <4>2. ASSUME BeginPreflight(w)
            PROVE  \E t, flag : /\ Continue(w, "preflight", t, flag)
                                /\ wk[w].pc # "idle" /\ "preflight" # wk[w].js
        BY <4>2 DEF BeginPreflight
      <4>3. ASSUME \/ RecordSubmission(w) \/ BeginConfirmation(w)
                   \/ BeginReadback(w) \/ VerifyReadback(w)
            PROVE  \E next, t, flag : /\ Continue(w, next, t, flag)
                                      /\ wk[w].pc # "idle" /\ wk[w].pc # "run"
        BY <4>3 DEF RecordSubmission, BeginConfirmation, BeginReadback, VerifyReadback
      <4> QED BY <2>1, <4>1, <4>2, <4>3
    <3> QED BY <2>c, <3>1
  <2>2. CASE RecordReorg(w)
    <3> DEFINE l == [wk[w] EXCEPT !.pc = "settle", !.err = Error(TRUE, FALSE)]
    <3>1. l.pc = "settle" /\ l.event = wk[w].event /\ l.attempt = wk[w].attempt
      BY <1>0 DEF Locals
    <3>2. Goto(w, l) /\ wk[w].pc = "reorged"
      BY <2>2 DEF RecordReorg
    <3> HIDE DEF l
    <3> QED BY <3>1, <3>2, GotoShape
  <2>3. CASE RecordFailure(w)
    <3> DEFINE l == [wk[w] EXCEPT !.pc = "settle"]
    <3>1. l.pc = "settle" /\ l.event = wk[w].event /\ l.attempt = wk[w].attempt
      BY <1>0 DEF Locals
    <3>2. Goto(w, l) /\ wk[w].pc = "failed"
      BY <2>3 DEF RecordFailure
    <3> HIDE DEF l
    <3> QED BY <3>1, <3>2, GotoShape
  <2>4. CASE MarkDeadLetter(w)
    BY <2>4, IdleShape DEF MarkDeadLetter
  <2> QED BY <2>1, <2>2, <2>3, <2>4
<1> QED BY <1>1, <1>2, <1>3

\* A heartbeat keeps the row's owner and attempt; a settlement happens under the
\* lease, and leads to a burial only when it made a dead letter.
LEMMA SettleShape ==
  ASSUME Inv, NEW w \in Workers,
         \/ HeartbeatLease(w) \/ CompleteEvent(w) \/ SettleRetryable(w)
         \/ SettleTerminal(w)
  PROVE  RowsAfter(w) /\ LocalsAfter(w) /\ JobsAfter(w)
<1> DEFINE e == wk[w].event
<1>0. wk[w] \in Locals /\ e \in Events /\ DOMAIN ob = Events
  BY EventOf DEF Inv, TypeInv, OutboxTypeOK
<1>1. JobsAfter(w)
  BY DEF HeartbeatLease, CompleteEvent, SettleRetryable, SettleTerminal, JobsAfter
<1>r. ASSUME NEW lag \in Lags, NEW st \in Closed, NEW wait, Holds(w, e, lag),
             ob' = [ob EXCEPT ![e] = Released(e, st, wait)]
      PROVE  RowsAfter(w) /\ ob'[e].state = st
  <2>1. ob'[e].state = st /\ ob'[e].attempts = ob[e].attempts
    BY <1>0, <1>r DEF Released, Inv, TypeInv, OutboxTypeOK
  <2>2. \A f \in Events \ {e} : ob'[f] = ob[f]
    BY <1>0, <1>r DEF Inv, TypeInv, OutboxTypeOK
  <2> QED BY <1>r, <2>1, <2>2 DEF RowsAfter, SameRow
<1>2. CASE HeartbeatLease(w)
  <2>1. RowsAfter(w)
    <3>1. PICK lag \in Lags : Heartbeat(w, e, lag)
      BY <1>2 DEF HeartbeatLease
    <3> QED BY <1>0, <3>1 DEF Heartbeat, Holds, Extended, RowsAfter, SameRow,
                              Inv, TypeInv, OutboxTypeOK
  <2> DEFINE l == [wk[w] EXCEPT !.pc = "beat"]
  <2>2. l.pc = "beat" /\ l.event = wk[w].event /\ l.attempt = wk[w].attempt
    BY <1>0 DEF Locals
  <2>3. Goto(w, l) /\ wk[w].pc = "run"
    BY <1>2 DEF HeartbeatLease
  <2> HIDE DEF l
  <2> QED BY <1>1, <2>1, <2>2, <2>3, GotoShape
<1>3. CASE CompleteEvent(w) \/ SettleTerminal(w)
  <2>1. PICK lag \in Lags : Succeed(w, e, lag) \/ FailTerminal(w, e, lag)
    BY <1>3 DEF CompleteEvent, SettleTerminal
  <2>2. PICK st \in {"succeeded", "terminal_failed"} :
          Holds(w, e, lag) /\ \E wait : ob' = [ob EXCEPT ![e] = Released(e, st, wait)]
    BY <2>1 DEF Succeed, FailTerminal
  <2>3. st \in Closed
    BY DEF Closed, FinalStates
  <2>4. LocalsAfter(w)
    BY <1>3, IdleShape DEF CompleteEvent, SettleTerminal
  <2> QED BY <1>1, <1>r, <2>2, <2>3, <2>4
<1>4. CASE SettleRetryable(w)
  <2>1. PICK lag \in Lags : FailRetryable(w, e, lag)
    BY <1>4 DEF SettleRetryable
  <2>2. PICK st \in {"dead_letter", "retryable_failed"} :
          Holds(w, e, lag) /\ \E wait : ob' = [ob EXCEPT ![e] = Released(e, st, wait)]
    BY <2>1 DEF FailRetryable
  <2>3. st \in Closed
    BY DEF Closed, FinalStates
  <2>4. RowsAfter(w) /\ ob'[e].state = st
    BY <1>r, <2>2, <2>3
  <2>5. wk[w].pc = "settle"
    BY <1>4 DEF SettleRetryable
  <2>6. CASE ob'[e].state = "dead_letter"
    <3> DEFINE l == [Idle EXCEPT !.pc = "bury", !.event = e, !.attempt = wk[w].attempt]
    <3>1. Goto(w, l)
      BY <1>4, <2>6 DEF SettleRetryable
    <3>2. l.pc = "bury" /\ l.event = e /\ l.attempt = wk[w].attempt
      BY DEF Idle
    <3> HIDE DEF l
    <3>3. wk'[w] = l /\ \A v \in Workers \ {w} : wk'[v] = wk[v]
      BY <3>1 DEF Inv, WorkersOK, Goto
    <3>4. l # wk[w]
      BY <2>5, <3>2
    <3>5. LocalsAfter(w)
      BY <2>2, <2>5, <2>6, <3>2, <3>3, <3>4 DEF LocalsAfter
    <3> QED BY <1>1, <2>4, <3>5
  <2>7. CASE ob'[e].state # "dead_letter"
    <3>1. Goto(w, Idle)
      BY <1>4, <2>7 DEF SettleRetryable
    <3> QED BY <1>1, <2>4, <2>5, <3>1, IdleShape
  <2> QED BY <2>6, <2>7
<1> QED BY <1>2, <1>3, <1>4

\* Every step of processNext after the claim has that shape.
LEMMA RunShape ==
  ASSUME Inv, NEW w \in Workers, Run(w)
  PROVE  RowsAfter(w) /\ LocalsAfter(w) /\ JobsAfter(w)
  BY LocalShape, TransitionShape, SettleShape DEF Run

\* Only a worker that has claimed an event runs on.
LEMMA RunsOnlyBusy ==
  ASSUME NEW w \in Workers, Run(w)
  PROVE  wk[w].pc # "idle"
  BY DEF Run, LoadForClaim, ClaimJob, BeginPreflight, HeartbeatLease,
     Preflight, ReadFails, SearchReadback, SendUpdate, UpdateReturns,
     UpdateRejected, UpdateUnknown, RecordSubmission, BeginConfirmation,
     InspectConfirmation, RecordReorg, BeginReadback, Readback, VerifyReadback,
     CompleteEvent, RecordFailure, SettleRetryable, SettleTerminal,
     MarkDeadLetter, Conflict, CallsDatabase

-----------------------------------------------------------------------------
(* The fence is an invariant.                                              *)

\* A call that is accepted is made in the current attempt.
LEMMA AcceptedIsCurrent ==
  ASSUME FenceInv, NEW w \in Workers, NEW lag \in Lags, Accepted(w, lag),
         wk[w].pc # "idle"
  PROVE  Current(w) /\ ob[wk[w].event].state \in {"claimed", "dead_letter"}
<1>1. CASE wk[w].pc = "bury"
  BY <1>1 DEF FenceInv, Fence, FenceOf
<1>2. CASE wk[w].pc # "bury"
  BY <1>2 DEF Accepted, Holds, FenceInv, Fence, FenceOf
<1> QED BY <1>1, <1>2

\* Nobody runs in the beginning.
LEMMA FenceInit == Init => FenceInv
<1> SUFFICES ASSUME Init PROVE FenceInv
  OBVIOUS
<1>1. Inv
  BY InvInit
<1>2. \A w \in Workers : wk[w] = Idle
  BY DEF Init
<1>3. Idle.pc = "idle"
  BY DEF Idle
<1>4. Together
  BY DEF Init, Together
<1> QED BY <1>1, <1>2, <1>3, <1>4 DEF FenceInv, Fence, FenceOf

\* A claim moves the fence to the claiming worker; every other step leaves a
\* lease with its owner and attempt, or ends it.
LEMMA FenceStep ==
  ASSUME OwnReferences, FenceInv, [Next]_vars
  PROVE  FenceInv'
<1>0. Inv /\ Fence /\ Together /\ WorkersOK /\ TypeInv /\ JobsOK
  BY DEF FenceInv, Inv
<1>a. Inv'
  BY <1>0, InvStep
<1>e. \A w \in Workers : wk[w].event \in Events /\ wk[w] \in Locals
  BY <1>0, EventOf
<1>c. \A e \in Events : job[e] \in JobRow
  BY <1>0 DEF JobsOK
<1>i. Idle.pc = "idle"
  BY DEF Idle
<1>k. ASSUME \A f \in Events : SameRow(f), \A w \in Workers :
               wk'[w] = Idle \/ (/\ wk'[w].pc = wk[w].pc
                                 /\ wk'[w].event = wk[w].event
                                 /\ wk'[w].attempt = wk[w].attempt)
      PROVE  Fence'
  BY <1>0, <1>e, <1>i, <1>k DEF Fence, FenceOf, Current, SameRow
<1>1. CASE Tick
  <2>1. \A f \in Events : SameRow(f)
    BY <1>1 DEF Tick, TickOutbox, Later, SameRow
  <2>2. \A w \in Workers : /\ wk'[w].pc = wk[w].pc
                           /\ wk'[w].event = wk[w].event
                           /\ wk'[w].attempt = wk[w].attempt
    BY <1>1, <1>e DEF Tick, Locals
  <2>3. Together'
    BY <1>0, <1>1, <2>1 DEF Tick, Together, SameRow
  <2> QED BY <1>a, <1>k, <2>1, <2>2, <2>3 DEF FenceInv
<1>2. ASSUME NEW e \in Events, EnqueueAnchor(e) PROVE FenceInv'
  <2>1. /\ ob[e].state = "none" /\ ob'[e].state = "pending"
        /\ \A f \in Events \ {e} : ob'[f] = ob[f] /\ job'[f] = job[f]
        /\ wk' = wk
    BY <1>0, <1>2 DEF EnqueueAnchor, InsertEvent, Released, TypeInv, OutboxTypeOK,
                      JobsOK
  <2>2. Fence'
    BY <1>0, <1>e, <2>1 DEF Fence, FenceOf, Current
  <2>3. Together'
    BY <1>0, <2>1 DEF Together
  <2> QED BY <1>a, <2>2, <2>3 DEF FenceInv
<1>3. ASSUME NEW w \in Workers, ClaimEvent(w) PROVE FenceInv'
  <2>1. PICK e \in Events, lag \in Lags :
          /\ ClaimNext(w, e, lag)
          /\ Goto(w, [Idle EXCEPT !.pc = "load", !.event = e,
                                  !.attempt = ob[e].attempts + 1])
    BY <1>3 DEF ClaimEvent
  <2>2. /\ ob[e].state \notin {"none", "dead_letter"}
        /\ ob'[e].state = "claimed" /\ ob'[e].owner = RefOf[w]
        /\ ob'[e].attempts = ob[e].attempts + 1
        /\ \A f \in Events \ {e} : ob'[f] = ob[f]
    BY <1>0, <2>1 DEF ClaimNext, Claimable, OpenStates, Leased, TypeInv, OutboxTypeOK
  <2> DEFINE l == [Idle EXCEPT !.pc = "load", !.event = e,
                               !.attempt = ob[e].attempts + 1]
  <2>3. l.pc = "load" /\ l.event = e /\ l.attempt = ob[e].attempts + 1
    BY DEF Idle
  <2>4. wk'[w] = l /\ \A v \in Workers \ {w} : wk'[v] = wk[v]
    BY <1>0, <2>1 DEF WorkersOK, Goto
  <2> HIDE DEF l
  <2>5. \A v \in Workers \ {w} : RefOf[v] # RefOf[w]
    BY DEF OwnReferences
  <2>6. Fence'
    BY <1>0, <1>e, <2>2, <2>3, <2>4, <2>5 DEF Fence, FenceOf, Current
  <2>7. Together'
    BY <1>0, <1>3, <2>2 DEF ClaimEvent, Together
  <2> QED BY <1>a, <2>6, <2>7 DEF FenceInv
<1>4. ASSUME NEW w \in Workers, Run(w) PROVE FenceInv'
  <2>1. RowsAfter(w) /\ LocalsAfter(w) /\ JobsAfter(w)
    BY <1>0, <1>4, RunShape
  <2>2. ASSUME NEW lag \in Lags, Holds(w, wk[w].event, lag), wk[w].pc # "idle"
        PROVE  ob[wk[w].event].state = "claimed" /\ Current(w)
    BY <1>0, <2>2 DEF Holds, Fence, FenceOf
  <2>3. "claimed" \notin Closed /\ "none" \notin Closed
    BY DEF Closed, FinalStates
  <2>r. wk[w].pc # "idle"
    BY <1>4, RunsOnlyBusy
  <2>4. ASSUME NEW v \in Workers \ {w} PROVE FenceOf(v)'
    <3>1. wk'[v] = wk[v] /\ FenceOf(v) /\ wk[v].event \in Events
      BY <1>0, <1>e, <2>1 DEF LocalsAfter, Fence
    <3>2. CASE SameRow(wk[v].event)
      BY <3>1, <3>2 DEF FenceOf, Current, SameRow
    <3>3. CASE ~SameRow(wk[v].event)
      <4>1. /\ ob'[wk[v].event].state # "claimed"
            /\ ob[wk[v].event].state = "claimed"
        BY <2>1, <2>3, <3>1, <3>3 DEF RowsAfter, Holds
      <4> QED BY <3>1, <4>1 DEF FenceOf
    <3> QED BY <3>2, <3>3
  <2>5. FenceOf(w)'
    <3> DEFINE e == wk[w].event
    <3>1. e \in Events /\ FenceOf(w)
      BY <1>0, <1>e DEF Fence
    <3>2. CASE wk'[w] = Idle
      BY <1>i, <3>2 DEF FenceOf
    <3>3. CASE wk'[w].event = e /\ wk'[w].attempt = wk[w].attempt
               /\ (wk'[w].pc = "bury" =>
                     /\ \E lag \in Lags : Holds(w, e, lag)
                     /\ ob'[e].state = "dead_letter")
      <4>1. ob'[e].attempts = ob[e].attempts
        BY <2>1, <3>1 DEF RowsAfter, SameRow
      <4>2. ob'[e].state = "claimed" => ob[e].state = "claimed" /\ ob'[e].owner = ob[e].owner
        BY <2>1, <2>3, <3>1 DEF RowsAfter, SameRow
      <4> QED BY <2>2, <2>r, <3>1, <3>3, <4>1, <4>2 DEF FenceOf, Current
    <3> QED BY <2>1, <3>2, <3>3 DEF LocalsAfter
  <2>6. Together'
    <3> SUFFICES ASSUME NEW f \in Events, ob'[f].state = "none"
                 PROVE  job'[f].state = "none"
      BY DEF Together
    <3>1. ob[f].state = "none"
      BY <2>1, <2>3 DEF RowsAfter, SameRow
    <3>2. job'[f] = job[f]
      BY <1>0, <2>1, <2>r, <3>1, AcceptedIsCurrent DEF FenceInv, JobsAfter
    <3> QED BY <1>0, <3>1, <3>2 DEF Together
  <2> QED BY <1>a, <2>4, <2>5, <2>6 DEF FenceInv, Fence
<1>5. ASSUME NEW w \in Workers, Crash(w) PROVE FenceInv'
  <2>1. /\ wk'[w] = Idle /\ \A v \in Workers \ {w} : wk'[v] = wk[v]
        /\ UNCHANGED <<ob, job>>
    BY <1>0, <1>5 DEF Crash, Goto, WorkersOK
  <2> QED BY <1>0, <1>a, <1>k, <2>1 DEF FenceInv, SameRow, Together
<1>6. ASSUME UNCHANGED <<ob, job, wk>> PROVE FenceInv'
  BY <1>0, <1>6, <1>a, <1>k DEF FenceInv, SameRow, Together
<1>7. ASSUME NEW t \in TxIds,
             NodeAccepts(t) \/ NodeRejects(t) \/ Mine(t) \/ Reorganize(t)
      PROVE  FenceInv'
  BY <1>6, <1>7 DEF NodeAccepts, NodeRejects, Mine, Reorganize
<1>8. CASE UNCHANGED vars
  BY <1>6, <1>8 DEF vars
<1> QED BY <1>1, <1>2, <1>3, <1>4, <1>5, <1>7, <1>8 DEF Next

\* If no two workers share a reference, a job changes only by a step of the
\* worker that runs the current attempt of its event: a worker whose lease has
\* expired and been taken over cannot write, however late it goes on.
THEOREM AnchorFencedWrites ==
  ASSUME OwnReferences
  PROVE  Spec => FencedWrites
<1>1. Spec => []FenceInv
  BY FenceInit, FenceStep, PTL DEF Spec
<1> DEFINE Fenced ==
      \A e \in Events : job[e].state # "none" /\ job'[e] # job[e] =>
        \E w \in Workers : /\ wk'[w] # wk[w]
                           /\ wk[w].event = e
                           /\ wk[w].attempt = ob[e].attempts
<1>2. FenceInv /\ [Next]_vars => [Fenced]_vars
  <2> SUFFICES ASSUME FenceInv, Next PROVE Fenced
    BY DEF vars
  <2>0. Inv /\ Together /\ JobsOK
    BY DEF FenceInv, Inv
  <2>1. ASSUME NEW e \in Events, EnqueueAnchor(e) PROVE Fenced
    <3>1. job[e].state = "none"
      BY <2>0, <2>1 DEF EnqueueAnchor, InsertEvent, Together
    <3>2. \A f \in Events \ {e} : job'[f] = job[f]
      BY <2>0, <2>1 DEF EnqueueAnchor, JobsOK
    <3> QED BY <3>1, <3>2
  <2>2. ASSUME NEW w \in Workers, Run(w) PROVE Fenced
    <3>1. LocalsAfter(w) /\ JobsAfter(w)
      BY <2>0, <2>2, RunShape
    <3>2. wk[w].pc # "idle"
      BY <2>2, RunsOnlyBusy
    <3>3. ASSUME NEW e \in Events, job'[e] # job[e]
          PROVE  e = wk[w].event /\ Current(w)
      BY <3>1, <3>2, <3>3, AcceptedIsCurrent DEF JobsAfter
    <3> QED BY <3>1, <3>3 DEF LocalsAfter, Current
  <2>3. ASSUME UNCHANGED job PROVE Fenced
    BY <2>3
  <2>4. CASE Tick
    BY <2>3, <2>4 DEF Tick
  <2>5. ASSUME NEW w \in Workers, ClaimEvent(w) \/ Crash(w) PROVE Fenced
    BY <2>3, <2>5 DEF ClaimEvent, Crash
  <2>6. ASSUME NEW t \in TxIds,
               NodeAccepts(t) \/ NodeRejects(t) \/ Mine(t) \/ Reorganize(t)
        PROVE  Fenced
    BY <2>3, <2>6 DEF NodeAccepts, NodeRejects, Mine, Reorganize
  <2> QED BY <2>1, <2>2, <2>4, <2>5, <2>6 DEF Next
<1> QED BY <1>1, <1>2, PTL DEF Spec, FencedWrites
=============================================================================
