-------------------------- MODULE ReviewQueueSafety -------------------------
(***************************************************************************)
(* Three promises of the queue about single tasks, proved for every value  *)
(* of the constants: nothing is published without approval (PublishGate),  *)
(* a retried task is neither dropped nor retried without end               *)
(* (RetriesSound), and only an operator restarts what was stopped          *)
(* (OperatorsDecide).                                                      *)
(*                                                                         *)
(* All three follow from one strengthening, SafeRow, which relates a row   *)
(* to its own history only; so each action is one step about the rows it   *)
(* writes.                                                                 *)
(***************************************************************************)
EXTENDS ReviewQueueProofs

(* The operator requests that the promises do not survive (see README).    *)
GateTargets == {"awaiting_approval", "awaiting_publish"}
NoGateTarget == ResumeTargets \intersect GateTargets = {}
PlainResume == ResumeTargets = {}
NoStageRetry == "retry_stage" \notin OpKinds

WorkNodes == ModelNodes \union {"queued", "ci", "planning"}
Working == Claimables \union {"running"}

\* A run that was not created yet has no past.
Unborn(t, h) == t.exec = "absent" => t = NoRow /\ h = NoHist

\* The gate of the publishing: also a paused run keeps what it will need.
GateRow(t, h) ==
    /\ t.wf = "awaiting_approval" => t.plan = "done"
    /\ t.wf = "awaiting_publish" => t.plan = "done" /\ h.approved
    /\ t.wf = "paused" /\ t.pausedFrom = "awaiting_approval"
           => t.plan = "done"
    /\ t.wf = "paused" /\ t.pausedFrom = "awaiting_publish"
           => t.plan = "done" /\ h.approved

\* A task whose review is complete has no work left, even if it is paused.
DoneRow(t) ==
    t.plan = "done" =>
        /\ t.exec \notin Working
        /\ t.wf \notin WorkNodes
        /\ t.wf = "paused" => t.pausedFrom \in GateTargets

\* Every failure was paid for: the counter that the claim advanced exceeds
\* the failures charged to it while the task runs.
BudgetRow(t, h) ==
    /\ t.models > 0 => t.plan # "none"
    /\ h.work <= MaxAttempts /\ h.model <= MaxAttempts
    /\ t.exec \in Working => /\ h.work < MaxAttempts /\ h.work <= t.attempts
                             /\ h.model < MaxAttempts /\ h.model <= t.models
    /\ t.exec = "running" =>
           IF t.claimedFrom = "ready_for_review" /\ t.plan # "none"
           THEN h.model < t.models
           ELSE t.claimedFrom # "waiting_for_ci" => h.work < t.attempts

SafeRow(t, h) ==
    /\ Unborn(t, h)
    /\ NoGateTarget => GateRow(t, h)
    /\ PlainResume => DoneRow(t)
    /\ NoStageRetry => BudgetRow(t, h)

SafeInv == \A r \in Runs : SafeRow(row[r], hist[r])

LEMMA InitSafe == Init => SafeInv
  BY QueueAssumption
     DEF Init, SafeInv, SafeRow, Unborn, GateRow, DoneRow, BudgetRow, NoRow,
         NoHist, GateTargets, Working, WorkNodes, Claimables, ModelNodes

-----------------------------------------------------------------------------
(* What one changed row means for the invariant.                           *)

LEMMA SafeStep ==
    ASSUME Inv, SafeInv, NEW r \in Runs, NEW t, NEW h, SafeRow(t, h),
           row' = [row EXCEPT ![r] = t], hist' = [hist EXCEPT ![r] = h]
    PROVE  SafeInv'
  <1> SUFFICES ASSUME NEW s \in Runs
               PROVE  SafeRow(row'[s], hist'[s])
    BY DEF SafeInv, SafeRow, Unborn, GateRow, DoneRow, BudgetRow
  <1>1. CASE s = r
    <2>1. row'[s] = t /\ hist'[s] = h
      BY <1>1, InvRows
    <2> QED BY <2>1
  <1>2. CASE s # r
    <2>1. row'[s] = row[s] /\ hist'[s] = hist[s]
      BY <1>2, InvRows
    <2> QED BY <2>1 DEF SafeInv
  <1> QED BY <1>1, <1>2

\* The same when the history stays.
LEMMA SafeRowStep ==
    ASSUME Inv, SafeInv, NEW r \in Runs, NEW t, SafeRow(t, hist[r]),
           row' = [row EXCEPT ![r] = t], hist' = hist
    PROVE  SafeInv'
  <1>1. hist' = [hist EXCEPT ![r] = hist[r]]
    BY InvRows
  <1> QED BY <1>1, SafeStep

\* The same when no row changes.
LEMMA SafeSame ==
    ASSUME SafeInv, row' = row, hist' = hist
    PROVE  SafeInv'
  BY DEF SafeInv, SafeRow, Unborn, GateRow, DoneRow, BudgetRow

\* A process that passes the ownership check works on a safe running row.
LEMMA OwnsSafe ==
    ASSUME Inv, SafeInv, NEW p \in Procs, Owns(p)
    PROVE  /\ held[p].run \in Runs
           /\ GoodRow(row[held[p].run])
           /\ row[held[p].run] \in Row
           /\ row[held[p].run].exec = "running"
           /\ hist[held[p].run] \in Hist
           /\ SafeRow(row[held[p].run], hist[held[p].run])
  BY OwnsRunning, InvRows DEF SafeInv

-----------------------------------------------------------------------------
(* What the worker writes to a row.                                        *)

\* u is row t out of its lease, with status e at node n.
Ended(u, t, e, n) ==
    /\ u \in Row
    /\ u.exec = e /\ u.wf = n /\ u.pausedFrom = "none"
    /\ u.plan = t.plan /\ u.models = t.models /\ u.attempts = t.attempts
    /\ u.coverage = t.coverage /\ u.snapshot = t.snapshot /\ u.head = t.head

\* _set_owned_status followed by _set_workflow_status.
LEMMA OwnedStatusFields ==
    ASSUME NEW t \in Row, NEW e \in Idles, NEW n \in Nodes
    PROVE  Ended(SetWorkflow(SetOwnedStatus(t, e), n), t, e, n)
  <1>1. SetWorkflow(SetOwnedStatus(t, e), n) \in Row
    BY OwnedStatusGood DEF GoodRow
  <1> QED BY <1>1 DEF Ended, Row, SetWorkflow, SetOwnedStatus, Unleased

\* A task that ends its lease without a complete review: it waits, fails, is
\* paused for the budget or leaves the review.
LEMMA ReleaseSafe ==
    ASSUME NEW t, NEW h \in Hist, NEW u, NEW g, GoodRow(t), SafeRow(t, h),
           t.exec = "running",
           u.exec \in Execs \ {"running", "absent"},
           u.wf \notin GateTargets,
           u.wf = "paused" => u.pausedFrom = "agent_batches",
           u.plan \in {t.plan, "open"},
           u.models = t.models, u.attempts = t.attempts,
           g.work = h.work, g.model = h.model
    PROVE  SafeRow(u, g)
  <1>1. Unborn(u, g)
    BY DEF Unborn
  <1>2. GateRow(u, g)
    BY DEF GateRow, GateTargets
  <1>3. PlainResume => DoneRow(u)
    BY DEF SafeRow, DoneRow, Working
  <1>4. NoStageRetry => BudgetRow(u, g)
    BY DEF SafeRow, BudgetRow, Working, GoodRow, Row, Hist
  <1> QED BY <1>1, <1>2, <1>3, <1>4 DEF SafeRow

LEMMA SupersededSafe ==
    ASSUME NEW t \in Row, NEW h \in Hist, t.exec # "absent", SafeRow(t, h)
    PROVE  SafeRow(Superseded(t), h)
  <1> DEFINE u == SetWorkflow(SetOwnedStatus(t, "superseded"), "superseded")
             v == [u EXCEPT !.coverage = "stale"]
  <1>1. Ended(u, t, "superseded", "superseded")
    BY OwnedStatusFields, ExecFacts, NodeFacts
  <1> HIDE DEF u
  <1>2. /\ v.exec = "superseded" /\ v.wf = "superseded"
        /\ v.plan = t.plan /\ v.models = t.models
    BY <1>1 DEF Ended, Row
  <1> HIDE DEF v
  <1>3. SafeRow(v, h)
    BY <1>2 DEF SafeRow, Unborn, GateRow, DoneRow, BudgetRow, Working,
                WorkNodes, ModelNodes, Claimables
  <1> QED BY <1>3 DEF Superseded, u, v

LEMMA RescheduledFields ==
    ASSUME NEW t, GoodRow(t), t.exec = "running", NEW kind
    PROVE  LET u == RescheduleOrFail(t, kind)
               busy == kind = "batch_busy" /\ IsModelStage(t)
               models == IF busy THEN t.models - 1 ELSE t.models
               spent == IF IsModelStage(t) THEN models ELSE t.attempts
           IN  /\ u.plan = t.plan /\ u.models = models
               /\ u.attempts = t.attempts
               /\ \/ u.exec = "failed" /\ u.wf = "failed"
                  \/ /\ u.exec = t.claimedFrom /\ u.wf = t.wf
                     /\ u.pausedFrom = t.pausedFrom
                     /\ kind # "permanent" /\ (spent < MaxAttempts \/ busy)
  <1> DEFINE busy == kind = "batch_busy" /\ IsModelStage(t)
             models == IF busy THEN t.models - 1 ELSE t.models
             spent == IF IsModelStage(t) THEN models ELSE t.attempts
             fails == kind = "permanent" \/ (spent >= MaxAttempts /\ ~busy)
             u == [Unleased(t) EXCEPT !.models = models]
             v == SetWorkflow([u EXCEPT !.exec = "failed"], "failed")
             w == [u EXCEPT !.exec = t.claimedFrom, !.due = FALSE]
  <1>1. models \in Int /\ spent \in Int
    BY DEF GoodRow, Row
  <1>2. RescheduleOrFail(t, kind) = IF fails THEN v ELSE w
    BY DEF RescheduleOrFail
  <1>3. ~fails => kind # "permanent" /\ (spent < MaxAttempts \/ busy)
    BY <1>1, QueueAssumption
  <1> HIDE DEF spent, models, fails, busy
  <1>4. /\ v.plan = t.plan /\ v.models = models /\ v.attempts = t.attempts
        /\ v.exec = "failed" /\ v.wf = "failed"
    BY DEF GoodRow, Row, Unleased, SetWorkflow
  <1>5. /\ w.plan = t.plan /\ w.models = models /\ w.attempts = t.attempts
        /\ w.exec = t.claimedFrom /\ w.wf = t.wf
        /\ w.pausedFrom = t.pausedFrom
    BY DEF GoodRow, Row, Unleased
  <1> HIDE DEF v, w
  <1>6. LET x == RescheduleOrFail(t, kind)
        IN  /\ x.plan = t.plan /\ x.models = models
            /\ x.attempts = t.attempts
            /\ \/ x.exec = "failed" /\ x.wf = "failed"
               \/ /\ x.exec = t.claimedFrom /\ x.wf = t.wf
                  /\ x.pausedFrom = t.pausedFrom
                  /\ kind # "permanent" /\ (spent < MaxAttempts \/ busy)
    BY <1>2, <1>3, <1>4, <1>5
  <1> QED BY <1>6 DEF spent, models, busy

\* What Charged counts.
LEMMA ChargedFields ==
    ASSUME NEW t, NEW h \in Hist, NEW kind
    PROVE  LET g == Charged(h, t, kind)
               model == t.claimedFrom = "ready_for_review" /\ t.plan # "none"
           IN  /\ kind = "batch_busy" => g = h
               /\ kind # "batch_busy" /\ model
                     => g.model = h.model + 1 /\ g.work = h.work
               /\ kind # "batch_busy" /\ ~model
                  /\ t.claimedFrom = "waiting_for_ci"
                     => g.model = h.model /\ g.work = h.work
               /\ kind # "batch_busy" /\ ~model
                  /\ t.claimedFrom # "waiting_for_ci"
                     => g.model = h.model /\ g.work = h.work + 1
               /\ g.approved = h.approved
  BY DEF Charged, Hist

LEMMA RescheduledSafe ==
    ASSUME NEW t, NEW h \in Hist, GoodRow(t), SafeRow(t, h),
           t.exec = "running", NEW kind
    PROVE  SafeRow(RescheduleOrFail(t, kind), Charged(h, t, kind))
  <1> DEFINE u == RescheduleOrFail(t, kind)
             g == Charged(h, t, kind)
             busy == kind = "batch_busy" /\ IsModelStage(t)
             models == IF busy THEN t.models - 1 ELSE t.models
             spent == IF IsModelStage(t) THEN models ELSE t.attempts
  <1>1. /\ u.plan = t.plan /\ u.models = models /\ u.attempts = t.attempts
        /\ \/ u.exec = "failed" /\ u.wf = "failed"
           \/ /\ u.exec = t.claimedFrom /\ u.wf = t.wf
              /\ u.pausedFrom = t.pausedFrom
              /\ kind # "permanent" /\ (spent < MaxAttempts \/ busy)
    BY RescheduledFields
  <1>2. /\ kind = "batch_busy" => g = h
        /\ g.approved = h.approved
        /\ kind # "batch_busy"
           => IF t.claimedFrom = "ready_for_review" /\ t.plan # "none"
              THEN g.model = h.model + 1 /\ g.work = h.work
              ELSE IF t.claimedFrom = "waiting_for_ci"
              THEN g.model = h.model /\ g.work = h.work
              ELSE g.model = h.model /\ g.work = h.work + 1
    BY ChargedFields, ZenonT(30)
  <1> HIDE DEF u, g
  <1>3. /\ t.claimedFrom \in Claimables /\ t.models \in Nat
        /\ t.attempts \in Nat /\ t.wf # "paused"
        /\ h.work \in Nat /\ h.model \in Nat
    BY DEF GoodRow, Consistent, Row, Hist
  <1>4. Unborn(u, g)
    BY <1>1, <1>3 DEF Unborn, Claimables
  <1>5. NoGateTarget => GateRow(u, g)
    BY <1>1, <1>2, <1>3 DEF SafeRow, GateRow
  <1>6. PlainResume => DoneRow(u)
    BY <1>1, <1>3 DEF SafeRow, DoneRow, Working, WorkNodes, ModelNodes,
                      Claimables
  <1>7. NoStageRetry => BudgetRow(u, g)
    <2> SUFFICES ASSUME NoStageRetry, BudgetRow(t, h)
                 PROVE  BudgetRow(u, g)
      BY DEF SafeRow
    <2>1. /\ h.work < MaxAttempts /\ h.work <= t.attempts
          /\ h.model < MaxAttempts /\ h.model <= t.models
          /\ t.models > 0 => t.plan # "none"
          /\ IF t.claimedFrom = "ready_for_review" /\ t.plan # "none"
             THEN h.model < t.models
             ELSE t.claimedFrom # "waiting_for_ci" => h.work < t.attempts
      BY DEF BudgetRow, Working
    <2>2. /\ u.models > 0 => u.plan # "none"
          /\ g.work <= MaxAttempts /\ g.model <= MaxAttempts
          /\ u.exec # "running"
      BY <1>1, <1>2, <1>3, <2>1, QueueAssumption DEF IsModelStage, Claimables
    <2>3. ASSUME u.exec \in Working
          PROVE  /\ g.work < MaxAttempts /\ g.work <= u.attempts
                 /\ g.model < MaxAttempts /\ g.model <= u.models
      <3>1. u.exec = t.claimedFrom /\ (spent < MaxAttempts \/ busy)
        BY <1>1, <2>3 DEF Working, Claimables
      <3> QED BY <1>1, <1>2, <1>3, <2>1, <3>1, QueueAssumption
              DEF IsModelStage
    <2> QED BY <2>2, <2>3 DEF BudgetRow
  <1> QED BY <1>4, <1>5, <1>6, <1>7 DEF SafeRow, u, g

-----------------------------------------------------------------------------
(* The worker's actions keep the rows safe.                                *)

LEMMA ClaimSafe ==
    ASSUME Inv, SafeInv, NEW p \in Procs, NEW r \in Runs, Claim(p, r)
    PROVE  SafeInv'
  <1> DEFINE o == row[r]
             h == hist[r]
             t == ClaimedBy(o, WorkerOf[p])
             g == [h EXCEPT !.epoch = @ + 1]
  <1>1. /\ o \in Row /\ h \in Hist /\ SafeRow(o, h)
        /\ o.exec \in Claimables /\ o.wf # "paused"
    BY InvRows DEF Claim, Claimable, SafeInv
  <1>2. /\ t.exec = "running" /\ t.wf = o.wf /\ t.plan = o.plan
        /\ t.claimedFrom = o.exec
        /\ t.models = o.models + (IF IsModelClaim(o) THEN 1 ELSE 0)
        /\ t.attempts = o.attempts + (IF /\ o.exec # "waiting_for_ci"
                                         /\ ~IsModelClaim(o)
                                      THEN 1 ELSE 0)
    BY <1>1 DEF ClaimedBy, Row
  <1>3. g.work = h.work /\ g.model = h.model /\ g.approved = h.approved
    BY <1>1 DEF Hist
  <1>4. row' = [row EXCEPT ![r] = t] /\ hist' = [hist EXCEPT ![r] = g]
    BY DEF Claim
  <1>5. /\ o.models \in Nat /\ o.attempts \in Nat
        /\ h.work \in Nat /\ h.model \in Nat
    BY <1>1 DEF Row, Hist
  <1> HIDE DEF t, g
  <1>6. Unborn(t, g) /\ (NoGateTarget => GateRow(t, g))
    BY <1>1, <1>2, <1>3 DEF SafeRow, Unborn, GateRow
  <1>7. PlainResume => DoneRow(t)
    BY <1>1, <1>2 DEF SafeRow, DoneRow, Working
  <1>8. NoStageRetry => BudgetRow(t, g)
    BY <1>1, <1>2, <1>3, <1>5
       DEF SafeRow, BudgetRow, Working, IsModelClaim, Claimables
  <1>9. SafeRow(t, g)
    BY <1>6, <1>7, <1>8 DEF SafeRow
  <1> QED BY <1>4, <1>9, SafeStep

\* A renewal, the passing of time and EXPEDITE touch no field of SafeRow.
LEMMA TouchSafe ==
    ASSUME NEW t \in Row, NEW h, SafeRow(t, h), t.exec # "absent",
           NEW u, u \in {[t EXCEPT !.lease = "live"],
                         [t EXCEPT !.lease = "expired"],
                         [t EXCEPT !.due = TRUE],
                         [t EXCEPT !.deadline = "passed"]}
    PROVE  SafeRow(u, h)
  <1>1. /\ u.exec = t.exec /\ u.wf = t.wf /\ u.pausedFrom = t.pausedFrom
        /\ u.plan = t.plan /\ u.models = t.models /\ u.attempts = t.attempts
        /\ u.claimedFrom = t.claimedFrom
    BY DEF Row
  <1> QED BY <1>1 DEF SafeRow, Unborn, GateRow, DoneRow, BudgetRow

LEMMA RenewSafe ==
    ASSUME Inv, SafeInv, NEW p \in Procs, Renew(p)
    PROVE  SafeInv'
  <1> DEFINE r == held[p].run
             t == [row[r] EXCEPT !.lease = "live"]
  <1>1. r \in Runs /\ SafeRow(t, hist[r])
    BY OwnsSafe, TouchSafe DEF Renew
  <1>2. row' = [row EXCEPT ![r] = t] /\ hist' = hist
    BY DEF Renew
  <1> HIDE DEF t
  <1> QED BY <1>1, <1>2, SafeRowStep

LEMMA MarkAggregatingSafe ==
    ASSUME Inv, SafeInv, NEW p \in Procs, MarkAggregating(p)
    PROVE  SafeInv'
  <1> DEFINE r == held[p].run
             o == row[r]
             t == SetWorkflow(o, "aggregating")
  <1>1. /\ r \in Runs /\ o \in Row /\ SafeRow(o, hist[r])
        /\ o.exec = "running"
    BY OwnsSafe DEF MarkAggregating
  <1>2. /\ t.exec = o.exec /\ t.wf = "aggregating" /\ t.plan = o.plan
        /\ t.models = o.models /\ t.attempts = o.attempts
        /\ t.claimedFrom = o.claimedFrom
    BY <1>1 DEF SetWorkflow, Row
  <1>3. row' = [row EXCEPT ![r] = t] /\ hist' = hist
    BY DEF MarkAggregating
  <1> HIDE DEF t
  <1>4. SafeRow(t, hist[r])
    BY <1>1, <1>2 DEF SafeRow, Unborn, GateRow, DoneRow, BudgetRow, Working
  <1> QED BY <1>1, <1>3, <1>4, SafeRowStep

\* A leased transaction that ends the lease and leaves the history alone.
LEMMA FinishSafe ==
    ASSUME Inv, SafeInv, NEW p \in Procs, NEW t, Owns(p), Finish(p, t),
           SafeRow(t, hist[held[p].run]), hist' = hist
    PROVE  SafeInv'
  BY OwnsSafe, SafeRowStep DEF Finish

LEMMA StoreEndsSafe ==
    ASSUME Inv, SafeInv, NEW p \in Procs,
           StoreHeadMismatch(p) \/ StoreNotReviewable(p) \/ StorePlanStale(p)
    PROVE  SafeInv'
  <1> DEFINE t == row[held[p].run]
             u == SetWorkflow(SetOwnedStatus(t, "cancelled"), "cancelled")
  <1>1. Owns(p)
    BY DEF StoreHeadMismatch, StoreNotReviewable, StorePlanStale, ReadyToStore
  <1>2. /\ GoodRow(t) /\ t \in Row /\ t.exec = "running"
        /\ SafeRow(t, hist[held[p].run]) /\ hist[held[p].run] \in Hist
    BY <1>1, OwnsSafe
  <1>3. SafeRow(Superseded(t), hist[held[p].run])
    BY <1>2, SupersededSafe
  <1>4. SafeRow(u, hist[held[p].run])
    <2>1. Ended(u, t, "cancelled", "cancelled")
      BY <1>2, OwnedStatusFields, ExecFacts, NodeFacts
    <2> HIDE DEF u
    <2> QED BY <1>2, <2>1, ReleaseSafe, ExecFacts DEF Ended, GateTargets
  <1> QED BY <1>1, <1>3, <1>4, FinishSafe
          DEF StoreHeadMismatch, StoreNotReviewable, StorePlanStale

LEMMA AcceptSafe ==
    ASSUME Inv, SafeInv, NEW p \in Procs, NEW t, NEW complete \in BOOLEAN,
           ReadyToStore(p), AcceptContext(p, t, complete),
           \A g : /\ g.work = hist[held[p].run].work
                  /\ g.model = hist[held[p].run].model
                  => SafeRow(t, g)
    PROVE  SafeInv'
  <1> DEFINE r == held[p].run
             g == [hist[r] EXCEPT !.stored = ~row[r].snapshot]
  <1>1. r \in Runs /\ hist[r] \in Hist
    BY OwnsSafe DEF ReadyToStore
  <1>2. g.work = hist[r].work /\ g.model = hist[r].model
    BY <1>1 DEF Hist
  <1> SUFFICES ASSUME NEW s \in Runs
               PROVE  SafeRow(row'[s], hist'[s])
    BY DEF SafeInv, SafeRow, Unborn, GateRow, DoneRow, BudgetRow
  <1>3. row'[s] = IF s = r THEN t
                  ELSE IF s \in SupersededBy(r) THEN Superseded(row[s])
                  ELSE row[s]
    BY DEF AcceptContext
  <1>4. hist'[s] = IF s = r THEN g ELSE hist[s]
    BY <1>1, InvRows DEF AcceptContext
  <1>5. CASE s = r
    <2>1. SafeRow(t, g)
      BY <1>2
    <2> QED BY <1>3, <1>4, <1>5, <2>1
  <1>6. CASE s # r
    <2>1. SafeRow(row[s], hist[s]) /\ row[s] \in Row /\ hist[s] \in Hist
      BY InvRows DEF SafeInv
    <2>2. s \in SupersededBy(r) => row[s].exec # "absent"
      BY DEF SupersededBy, Replaceables, Claimables
    <2>3. s \in SupersededBy(r) => SafeRow(Superseded(row[s]), hist[s])
      BY <2>1, <2>2, SupersededSafe
    <2> QED BY <1>3, <1>4, <1>6, <2>1, <2>3
  <1> QED BY <1>5, <1>6

LEMMA StoreContextSafe ==
    ASSUME Inv, SafeInv, NEW p \in Procs, NEW complete \in BOOLEAN,
           \/ StoreCiPending(p, complete)
           \/ StoreCiTimeout(p, complete)
           \/ StoreCiReady(p, complete)
    PROVE  SafeInv'
  <1> DEFINE t == row[held[p].run]
             w == SetWorkflow(SetOwnedStatus(t, "waiting_for_ci"), "ci")
             d == SetWorkflow(SetOwnedStatus(t, "timed_out"), "failed")
             y == SetWorkflow(SetOwnedStatus(t, "ready_for_review"),
                              "planning")
             v == [w EXCEPT !.deadline = "pending", !.due = FALSE]
             z == [y EXCEPT !.deadline = "none"]
  <1>1. ReadyToStore(p)
    BY DEF StoreCiPending, StoreCiTimeout, StoreCiReady
  <1>2. /\ GoodRow(t) /\ t \in Row /\ t.exec = "running"
        /\ SafeRow(t, hist[held[p].run]) /\ hist[held[p].run] \in Hist
    BY <1>1, OwnsSafe DEF ReadyToStore
  <1>3. /\ Ended(w, t, "waiting_for_ci", "ci")
        /\ Ended(d, t, "timed_out", "failed")
        /\ Ended(y, t, "ready_for_review", "planning")
    BY <1>2, OwnedStatusFields, ExecFacts, NodeFacts
  <1>4. \/ AcceptContext(p, v, complete)
        \/ AcceptContext(p, d, complete)
        \/ AcceptContext(p, z, complete)
    BY DEF StoreCiPending, StoreCiTimeout, StoreCiReady
  <1> HIDE DEF w, d, y
  <1>5. /\ v.exec = "waiting_for_ci" /\ v.wf = "ci"
        /\ v.plan = t.plan /\ v.models = t.models /\ v.attempts = t.attempts
        /\ z.exec = "ready_for_review" /\ z.wf = "planning"
        /\ z.plan = t.plan /\ z.models = t.models /\ z.attempts = t.attempts
    BY <1>3 DEF Ended, Row
  <1> HIDE DEF v, z
  <1>6. ASSUME NEW u \in {v, d, z}, NEW g,
               g.work = hist[held[p].run].work,
               g.model = hist[held[p].run].model
        PROVE  SafeRow(u, g)
    <2>1. /\ u.exec \in Execs \ {"running", "absent"}
          /\ u.wf \notin GateTargets /\ u.wf # "paused"
          /\ u.plan = t.plan /\ u.models = t.models
          /\ u.attempts = t.attempts
      BY <1>3, <1>5, ExecFacts DEF Ended, GateTargets
    <2> QED BY <1>2, <1>6, <2>1, ReleaseSafe
  <1> QED BY <1>1, <1>4, <1>6, AcceptSafe

LEMMA StorePlanSafe ==
    ASSUME Inv, SafeInv, NEW p \in Procs,
           StorePlan(p) \/ PauseForBudget(p) \/ StorePartialReview(p)
    PROVE  SafeInv'
  <1> DEFINE r == held[p].run
             t == row[r]
             u == SetWorkflow(SetOwnedStatus(t, "ready_for_review"),
                              "agent_batches")
             b == SetWorkflow(SetOwnedStatus(t, "ready_for_review"), "paused")
             f == SetWorkflow(SetOwnedStatus(t, "failed"), "agent_batches")
             v == [u EXCEPT !.plan = "open"]
             w == [b EXCEPT !.pausedFrom = "agent_batches"]
             x == [f EXCEPT !.snapshot = @ \/ HasNewer(r),
                            !.coverage = "partial"]
  <1>1. Owns(p) /\ hist' = hist
    BY DEF StorePlan, PauseForBudget, StorePartialReview
  <1>2. /\ GoodRow(t) /\ t \in Row /\ t.exec = "running"
        /\ SafeRow(t, hist[r]) /\ hist[r] \in Hist
    BY <1>1, OwnsSafe
  <1>3. /\ Ended(u, t, "ready_for_review", "agent_batches")
        /\ Ended(b, t, "ready_for_review", "paused")
        /\ Ended(f, t, "failed", "agent_batches")
    BY <1>2, OwnedStatusFields, ExecFacts, NodeFacts
  <1>4. Finish(p, v) \/ Finish(p, w) \/ Finish(p, x)
    BY DEF StorePlan, PauseForBudget, StorePartialReview
  <1> HIDE DEF u, b, f
  <1>5. /\ v.exec = "ready_for_review" /\ v.wf = "agent_batches"
        /\ v.plan = "open" /\ v.models = t.models /\ v.attempts = t.attempts
        /\ w.exec = "ready_for_review" /\ w.wf = "paused"
        /\ w.pausedFrom = "agent_batches"
        /\ w.plan = t.plan /\ w.models = t.models /\ w.attempts = t.attempts
        /\ x.exec = "failed" /\ x.wf = "agent_batches"
        /\ x.plan = t.plan /\ x.models = t.models /\ x.attempts = t.attempts
    BY <1>3 DEF Ended, Row
  <1> HIDE DEF v, w, x
  <1>6. ASSUME NEW q \in {v, w, x}
        PROVE  SafeRow(q, hist[r])
    <2>1. /\ q.exec \in Execs \ {"running", "absent"}
          /\ q.wf \notin GateTargets
          /\ q.wf = "paused" => q.pausedFrom = "agent_batches"
          /\ q.plan \in {t.plan, "open"} /\ q.models = t.models
          /\ q.attempts = t.attempts
      BY <1>5, ExecFacts DEF GateTargets
    <2> QED BY <1>2, <2>1, ReleaseSafe
  <1> QED BY <1>1, <1>4, <1>6, FinishSafe

\* The complete review: the only write that sets plan to "done".
LEMMA StoreReviewSafe ==
    ASSUME Inv, SafeInv, NEW p \in Procs, NEW c \in {"complete", "partial"},
           StoreReview(p, c)
    PROVE  SafeInv'
  <1> DEFINE r == held[p].run
             t == row[r]
             old == t.snapshot \/ HasNewer(r)
             n == IF old THEN "completed" ELSE "awaiting_approval"
             u == SetWorkflow(SetOwnedStatus(t, "completed"), n)
             v == [u EXCEPT !.plan = "done", !.snapshot = old, !.coverage = c]
             g == [hist[r] EXCEPT !.approved = FALSE]
  <1>1. Owns(p)
    BY DEF StoreReview
  <1>2. /\ r \in Runs /\ GoodRow(t) /\ t \in Row /\ t.exec = "running"
        /\ SafeRow(t, hist[r]) /\ hist[r] \in Hist
    BY <1>1, OwnsSafe
  <1>3. Ended(u, t, "completed", n)
    BY <1>2, OwnedStatusFields, ExecFacts, NodeFacts
  <1>4. row' = [row EXCEPT ![r] = v] /\ hist' = [hist EXCEPT ![r] = g]
    BY DEF StoreReview, Finish
  <1>5. n \in {"completed", "awaiting_approval"}
    OBVIOUS
  <1>6. g.work = hist[r].work /\ g.model = hist[r].model
    BY <1>2 DEF Hist
  <1> HIDE DEF u, g, n, old
  <1>7. /\ v.exec = "completed" /\ v.wf = n /\ v.plan = "done"
        /\ v.models = t.models
    BY <1>3 DEF Ended, Row
  <1> HIDE DEF v
  <1>8. Unborn(v, g) /\ GateRow(v, g) /\ DoneRow(v)
    BY <1>5, <1>7 DEF Unborn, GateRow, DoneRow, Working, WorkNodes,
                      ModelNodes, Claimables
  <1>9. NoStageRetry => BudgetRow(v, g)
    BY <1>2, <1>6, <1>7 DEF SafeRow, BudgetRow, Working, Claimables
  <1>10. SafeRow(v, g)
    BY <1>8, <1>9 DEF SafeRow
  <1> QED BY <1>2, <1>4, <1>10, SafeStep

LEMMA ReportErrorSafe ==
    ASSUME Inv, SafeInv, NEW p \in Procs, NEW kind, ReportError(p, kind)
    PROVE  SafeInv'
  <1> DEFINE r == held[p].run
             t == RescheduleOrFail(row[r], kind)
             g == Charged(hist[r], row[r], kind)
  <1>1. r \in Runs /\ SafeRow(t, g)
    BY OwnsSafe, RescheduledSafe DEF ReportError
  <1>2. row' = [row EXCEPT ![r] = t] /\ hist' = [hist EXCEPT ![r] = g]
    BY DEF ReportError, Finish
  <1> HIDE DEF t, g
  <1> QED BY <1>1, <1>2, SafeStep

LEMMA WorkSafe ==
    ASSUME Inv, SafeInv, NEW p \in Procs, Work(p)
    PROVE  SafeInv'
  <1>1. CASE LoadContext(p) \/ LoseLease(p)
    BY <1>1, SafeSame DEF LoadContext, LoseLease
  <1>2. ASSUME NEW c \in BOOLEAN,
               \/ StoreCiPending(p, c) \/ StoreCiTimeout(p, c)
               \/ StoreCiReady(p, c)
        PROVE  SafeInv'
    BY <1>2, StoreContextSafe
  <1> QED BY <1>1, <1>2, MarkAggregatingSafe, StoreEndsSafe, StorePlanSafe,
             StoreReviewSafe, ReportErrorSafe DEF Work, Stored

-----------------------------------------------------------------------------
(* Arrivals, the clock and recovery keep the rows safe.                    *)

\* A run that is created waits for its first claim and has failed nothing.
LEMMA NewRowSafe ==
    ASSUME NEW h
    PROVE  SafeRow(FreshRun(h), NoHist) /\ SafeRow(HistoryRun(h), NoHist)
  <1>1. ASSUME NEW t, t.exec \in {"queued", "ready_for_review"},
               t.wf \in {"queued", "planning"}, t.plan = "none",
               t.models = 0, t.attempts = 0
        PROVE  SafeRow(t, NoHist)
    BY <1>1, QueueAssumption
       DEF SafeRow, Unborn, GateRow, DoneRow, BudgetRow, Working, NoHist
  <1>2. /\ FreshRun(h).exec = "queued" /\ FreshRun(h).wf = "queued"
        /\ FreshRun(h).plan = "none" /\ FreshRun(h).models = 0
        /\ FreshRun(h).attempts = 0
    BY DEF FreshRun, NoRow
  <1>3. /\ HistoryRun(h).exec = "ready_for_review"
        /\ HistoryRun(h).wf = "planning" /\ HistoryRun(h).plan = "none"
        /\ HistoryRun(h).models = 0 /\ HistoryRun(h).attempts = 0
    BY DEF HistoryRun, NoRow
  <1> QED BY <1>1, <1>2, <1>3

LEMMA CreatedSafe ==
    ASSUME Inv, SafeInv, NEW r \in Runs, NEW t, NextSlot(r),
           SafeRow(t, NoHist), row' = [row EXCEPT ![r] = t], hist' = hist
    PROVE  SafeInv'
  <1>1. hist[r] = NoHist
    BY DEF SafeInv, SafeRow, Unborn, NextSlot
  <1> QED BY <1>1, SafeRowStep

LEMMA ArrivalsSafe ==
    ASSUME Inv, SafeInv, Arrivals
    PROVE  SafeInv'
  <1>1. CASE Push
    BY <1>1, SafeSame DEF Push
  <1>2. ASSUME NEW r \in Runs, NEW h \in Heads, CreateRun(r, h)
        PROVE  SafeInv'
    BY <1>2, NewRowSafe, CreatedSafe DEF CreateRun
  <1> QED BY <1>1, <1>2 DEF Arrivals

LEMMA ClockSafe ==
    ASSUME Inv, SafeInv, Clock
    PROVE  SafeInv'
  <1> PICK r \in Runs : \/ ExpireAbandoned(r) \/ MissRenewal(r)
                        \/ BecomeDue(r) \/ DeadlinePasses(r)
    BY DEF Clock
  <1>1. row[r] \in Row /\ SafeRow(row[r], hist[r])
    BY InvRows DEF SafeInv
  <1>2. PICK t \in {[row[r] EXCEPT !.lease = "expired"],
                    [row[r] EXCEPT !.due = TRUE],
                    [row[r] EXCEPT !.deadline = "passed"]} :
            row' = [row EXCEPT ![r] = t] /\ hist' = hist
    BY DEF ExpireAbandoned, MissRenewal, Expired, BecomeDue, DeadlinePasses
  <1>3. row[r].exec # "absent"
    <2>1. CASE DeadlinePasses(r)
      BY <1>1, <2>1 DEF DeadlinePasses, SafeRow, Unborn, NoRow
    <2>2. CASE ExpireAbandoned(r) \/ MissRenewal(r) \/ BecomeDue(r)
      BY <2>2 DEF ExpireAbandoned, MissRenewal, Expired, BecomeDue
    <2> QED BY <2>1, <2>2
  <1>4. SafeRow(t, hist[r])
    BY <1>1, <1>2, <1>3, TouchSafe
  <1> QED BY <1>2, <1>4, SafeRowStep

LEMMA RecoverSafe ==
    ASSUME Inv, SafeInv, NEW r \in Runs, Recover(r)
    PROVE  SafeInv'
  <1> DEFINE t == RescheduleOrFail(row[r], "retryable")
             g == Charged(hist[r], row[r], "retryable")
  <1>1. SafeRow(t, g)
    BY InvRows, RescheduledSafe DEF Recover, SafeInv
  <1>2. row' = [row EXCEPT ![r] = t] /\ hist' = [hist EXCEPT ![r] = g]
    BY DEF Recover
  <1> HIDE DEF t, g
  <1> QED BY <1>1, <1>2, SafeStep

-----------------------------------------------------------------------------
(* Operator actions keep the rows safe.                                    *)

\* Every operator request clears the failures it forgives.
LEMMA UnchargedFields ==
    ASSUME NEW h \in Hist
    PROVE  /\ Uncharged(h).work = 0 /\ Uncharged(h).model = 0
           /\ Uncharged(h).approved = h.approved
  BY DEF Uncharged, Hist

\* A forgiven task keeps within its budget whatever the operator makes of it.
LEMMA ForgivenBudget ==
    ASSUME NEW h \in Hist, NEW t, t.models \in Nat, t.attempts \in Nat,
           t.exec # "running", t.models > 0 => t.plan # "none"
    PROVE  BudgetRow(t, Uncharged(h))
  BY UnchargedFields, QueueAssumption DEF BudgetRow

LEMMA OperateSafe ==
    ASSUME Inv, SafeInv, NEW r \in Runs, NEW t, NEW h, NEW kind,
           Operate(kind, r, t), hist' = [hist EXCEPT ![r] = h], SafeRow(t, h)
    PROVE  SafeInv'
  BY SafeStep DEF Operate

\* START, APPROVE and REJECT only move the node.
LEMMA NodeActionsSafe ==
    ASSUME Inv, SafeInv, NEW r \in Runs, Start(r) \/ Approve(r) \/ Reject(r)
    PROVE  SafeInv'
  <1> DEFINE o == row[r]
             t(n) == [o EXCEPT !.wf = n, !.pausedFrom = "none"]
             a == [hist[r] EXCEPT !.approved = TRUE]
  <1>1. o \in Row /\ hist[r] \in Hist /\ SafeRow(o, hist[r])
    BY InvRows DEF SafeInv
  <1>2. \A n : /\ t(n).exec = o.exec /\ t(n).wf = n /\ t(n).plan = o.plan
               /\ t(n).models = o.models /\ t(n).attempts = o.attempts
               /\ t(n).claimedFrom = o.claimedFrom
    BY <1>1 DEF Row
  <1>3. a.work = hist[r].work /\ a.model = hist[r].model /\ a.approved
    BY <1>1 DEF Hist
  <1>4. hist' = hist => hist' = [hist EXCEPT ![r] = hist[r]]
    BY InvRows
  <1>5. o.exec # "absent"
    BY DEF Start, Approve, Reject, Operate
  <1>6. CASE Start(r)
    <2>1. Operate("start", r, t("ci")) /\ o.wf = "queued" /\ hist' = hist
      BY <1>6 DEF Start
    <2> HIDE DEF t
    <2>2. SafeRow(t("ci"), hist[r])
      BY <1>1, <1>2, <1>5, <2>1
         DEF SafeRow, Unborn, GateRow, DoneRow, BudgetRow, WorkNodes
    <2> QED BY <1>4, <2>1, <2>2, OperateSafe
  <1>7. CASE Approve(r)
    <2>1. /\ Operate("approve", r, t("awaiting_publish"))
          /\ o.wf = "awaiting_approval" /\ hist' = [hist EXCEPT ![r] = a]
      BY <1>7 DEF Approve
    <2> HIDE DEF t, a
    <2>2. SafeRow(t("awaiting_publish"), a)
      BY <1>1, <1>2, <1>3, <1>5, <2>1
         DEF SafeRow, Unborn, GateRow, DoneRow, BudgetRow, WorkNodes,
             ModelNodes
    <2> QED BY <2>1, <2>2, OperateSafe
  <1>8. CASE Reject(r)
    <2>1. Operate("reject", r, t("rejected")) /\ hist' = hist
      BY <1>8 DEF Reject
    <2> HIDE DEF t
    <2>2. SafeRow(t("rejected"), hist[r])
      BY <1>1, <1>2, <1>5
         DEF SafeRow, Unborn, GateRow, DoneRow, BudgetRow, WorkNodes,
             ModelNodes
    <2> QED BY <1>4, <2>1, <2>2, OperateSafe
  <1> QED BY <1>6, <1>7, <1>8

LEMMA UnleasedFields ==
    ASSUME NEW t \in Row
    PROVE  LET u == Unleased(t)
           IN  /\ u \in Row
               /\ u.exec = t.exec /\ u.wf = t.wf
               /\ u.pausedFrom = t.pausedFrom /\ u.plan = t.plan
               /\ u.models = t.models /\ u.attempts = t.attempts
               /\ u.coverage = t.coverage /\ u.snapshot = t.snapshot
               /\ u.head = t.head
  BY FieldFacts DEF Unleased, Row

LEMMA RefreshedFields ==
    ASSUME Inv, NEW r \in Runs
    PROVE  LET t == Refreshed(r)
           IN  /\ t \in Row
               /\ t.exec = row[r].exec /\ t.wf = row[r].wf
               /\ t.pausedFrom = row[r].pausedFrom /\ t.plan = row[r].plan
               /\ t.models = row[r].models /\ t.attempts = row[r].attempts
               /\ t.head = row[r].head
  <1>1. row[r] \in Row
    BY InvRows
  <1>2. Refreshed(r) \in Row
    BY RefreshedGood
  <1> QED BY <1>1, <1>2 DEF Refreshed, Row

\* Without a stage retry, the row an operator leaves behind is within its
\* budget as soon as it is not running and keeps its counters and plan.
LEMMA OperatedSafe ==
    ASSUME Inv, SafeInv, NEW r \in Runs, NEW t \in Row,
           t.exec \notin {"absent", "running"},
           NoGateTarget => GateRow(t, hist[r]),
           PlainResume => DoneRow(t),
           NoStageRetry /\ t.models > 0 => t.plan # "none"
    PROVE  SafeRow(t, Uncharged(hist[r]))
  <1>1. hist[r] \in Hist /\ t.models \in Nat /\ t.attempts \in Nat
    BY InvRows DEF Row
  <1>2. NoStageRetry => BudgetRow(t, Uncharged(hist[r]))
    BY <1>1, ForgivenBudget
  <1>3. NoGateTarget => GateRow(t, Uncharged(hist[r]))
    BY <1>1, UnchargedFields DEF GateRow
  <1> QED BY <1>2, <1>3 DEF SafeRow, Unborn

LEMMA PauseSafe ==
    ASSUME Inv, SafeInv, NEW r \in Runs, Pause(r)
    PROVE  SafeInv'
  <1> DEFINE o == row[r]
             node == o.wf
             e == PausedExec(node, o.exec)
             u == Unleased(o)
             t == [u EXCEPT !.wf = "paused", !.pausedFrom = node,
                            !.due = TRUE, !.exec = e]
             h == Uncharged(hist[r])
  <1>1. o \in Row /\ SafeRow(o, hist[r]) /\ hist[r] \in Hist
    BY InvRows DEF SafeInv
  <1>2. e \in Idles /\ e # "absent" /\ node \in Nodes /\ node \in Resumables
    <2>1. e \in Idles /\ node \in Nodes /\ node \in Resumables
      BY NodeType, ExecChoices, NodeFacts DEF Pause
    <2>2. o.exec # "absent"
      BY DEF Pause, Operate
    <2> QED BY <2>1, <2>2 DEF PausedExec
  <1>3. u \in Row /\ u.plan = o.plan /\ u.models = o.models
    BY <1>1, UnleasedFields
  <1>4. /\ Operate("pause", r, t) /\ hist' = [hist EXCEPT ![r] = h]
    BY DEF Pause
  <1>e. e = PausedExec(node, o.exec)
    OBVIOUS
  <1> HIDE DEF u, e, h
  <1>5. /\ t \in Row /\ t.exec = e /\ t.wf = "paused"
        /\ t.pausedFrom = node /\ t.plan = o.plan /\ t.models = o.models
    BY <1>2, <1>3, ExecFacts, NodeFacts DEF Row
  <1> HIDE DEF t
  <1>6. NoGateTarget => GateRow(t, hist[r])
    BY <1>1, <1>5 DEF SafeRow, GateRow
  <1>7. PlainResume => DoneRow(t)
    <2> SUFFICES ASSUME DoneRow(o), o.plan = "done"
                 PROVE  DoneRow(t)
      BY <1>1, <1>5 DEF SafeRow, DoneRow
    <2>1. o.exec \notin Working /\ node \notin WorkNodes
      BY DEF DoneRow
    <2>2. node \in GateTargets
      BY <1>2, <2>1 DEF Resumables, WorkNodes, GateTargets
    <2>3. e = o.exec
      BY <1>e, <2>1, <2>2 DEF PausedExec, Working, GateTargets, ModelNodes
    <2> QED BY <1>5, <2>1, <2>2, <2>3 DEF DoneRow, WorkNodes, ModelNodes
  <1>8. NoStageRetry /\ t.models > 0 => t.plan # "none"
    BY <1>1, <1>5 DEF SafeRow, BudgetRow
  <1>9. SafeRow(t, h)
    BY <1>2, <1>5, <1>6, <1>7, <1>8, OperatedSafe, ExecFacts DEF h
  <1> QED BY <1>4, <1>9, OperateSafe

LEMMA ResumeSafe ==
    ASSUME Inv, SafeInv, NEW r \in Runs,
           NEW explicit \in ResumeTargets \union {"none"}, Resume(r, explicit)
    PROVE  SafeInv'
  <1> DEFINE o == row[r]
             default == IF o.pausedFrom = "none" THEN "ci" ELSE o.pausedFrom
             target == IF explicit = "none" THEN default ELSE explicit
             e == ResumedExec(target, o.exec)
             u == Unleased(Refreshed(r))
             t == [u EXCEPT !.wf = target, !.pausedFrom = "none",
                            !.due = TRUE, !.exec = e]
             h == Uncharged(hist[r])
  <1>1. o \in Row /\ SafeRow(o, hist[r]) /\ hist[r] \in Hist
    BY InvRows DEF SafeInv
  <1>2. /\ e \in Idles /\ e # "absent" /\ o.wf = "paused"
        /\ target \in Resumables /\ target \in Nodes
    <2>1. e \in Idles
      BY NodeType, ExecChoices
    <2>2. o.exec # "absent"
      BY DEF Resume, Operate
    <2>3. o.wf = "paused" /\ target \in Resumables
      BY DEF Resume
    <2> QED BY <2>1, <2>2, <2>3, NodeFacts DEF ResumedExec
  <1>3. u \in Row /\ u.plan = o.plan /\ u.models = o.models
    BY RefreshedFields, UnleasedFields
  <1>4. Operate("resume", r, t) /\ hist' = [hist EXCEPT ![r] = h]
    BY DEF Resume
  <1>e. e = ResumedExec(target, o.exec)
    OBVIOUS
  <1>t. target \in GateTargets =>
          \/ target = o.pausedFrom
          \/ explicit # "none" /\ explicit \in GateTargets
    BY DEF GateTargets
  <1>p. explicit = "none" /\ o.pausedFrom \in GateTargets
          => target = o.pausedFrom
    BY DEF GateTargets
  <1> HIDE DEF u, e, h, target
  <1>5. /\ t \in Row /\ t.exec = e /\ t.wf = target
        /\ t.plan = o.plan /\ t.models = o.models
    BY <1>2, <1>3, ExecFacts, NodeFacts DEF Row
  <1>w. t.wf # "paused"
    BY <1>2, <1>5 DEF Resumables, ModelNodes
  <1> HIDE DEF t
  <1>6. NoGateTarget => GateRow(t, hist[r])
    BY <1>1, <1>2, <1>5, <1>t, <1>w
       DEF SafeRow, GateRow, NoGateTarget, GateTargets
  <1>7. PlainResume => DoneRow(t)
    <2> SUFFICES ASSUME DoneRow(o), o.plan = "done", explicit = "none"
                 PROVE  DoneRow(t)
      BY <1>1, <1>5 DEF SafeRow, DoneRow, PlainResume
    <2>1. o.exec \notin Working /\ o.pausedFrom \in GateTargets
      BY <1>2 DEF DoneRow
    <2>2. target \in GateTargets
      BY <1>p, <2>1
    <2>3. e = o.exec
      BY <1>e, <2>1, <2>2 DEF ResumedExec, Working, GateTargets, ModelNodes
    <2> QED BY <1>5, <1>w, <2>1, <2>2, <2>3
            DEF DoneRow, WorkNodes, ModelNodes, GateTargets
  <1>8. NoStageRetry /\ t.models > 0 => t.plan # "none"
    BY <1>1, <1>5 DEF SafeRow, BudgetRow
  <1>9. SafeRow(t, h)
    BY <1>2, <1>5, <1>6, <1>7, <1>8, OperatedSafe, ExecFacts DEF h
  <1> QED BY <1>4, <1>9, OperateSafe

\* The retries put the task back to work on a plan that is not complete.
LEMMA WorkAgainSafe ==
    ASSUME Inv, SafeInv, NEW r \in Runs, NEW t \in Row, NEW kind,
           Operate(kind, r, t),
           hist' = [hist EXCEPT ![r] = Uncharged(hist[r])],
           t.exec \in {"queued", "ready_for_review"}, t.wf \in WorkNodes,
           t.plan # "done",
           NoStageRetry /\ t.models > 0 => t.plan # "none"
    PROVE  SafeInv'
  <1>1. GateRow(t, hist[r]) /\ DoneRow(t)
    BY DEF GateRow, DoneRow, WorkNodes, ModelNodes
  <1>2. SafeRow(t, Uncharged(hist[r]))
    BY <1>1, OperatedSafe
  <1> QED BY <1>2, OperateSafe

LEMMA RetryStageSafe ==
    ASSUME Inv, SafeInv, NEW r \in Runs, NEW target \in Retryables,
           RetryStage(r, target)
    PROVE  SafeInv'
  <1> DEFINE o == Refreshed(r)
             v == StageReset(o, target)
             u == Unleased(v)
             e == IF target = "ci" THEN "queued" ELSE "ready_for_review"
             t == [u EXCEPT !.wf = target, !.pausedFrom = "none",
                            !.due = TRUE, !.exec = e]
  <1>1. o \in Row
    BY RefreshedFields
  <1>2. v \in Row /\ v.plan \in {"none", "open"}
    <2> HIDE DEF o
    <2> DEFINE x == [o EXCEPT !.plan = "none", !.coverage = "unknown",
                              !.polls = 0, !.deadline = "none"]
               y == [o EXCEPT !.plan = "none", !.coverage = "unknown"]
               z == [o EXCEPT !.plan = "open"]
    <2>1. x \in Row /\ x.plan = "none"
      BY <1>1, FieldFacts DEF Row
    <2>2. y \in Row /\ y.plan = "none"
      BY <1>1, FieldFacts DEF Row
    <2>3. z \in Row /\ z.plan = "open"
      BY <1>1, FieldFacts DEF Row
    <2>4. v \in {x, y, z}
      BY DEF StageReset
    <2> HIDE DEF v, x, y, z
    <2> QED BY <2>1, <2>2, <2>3, <2>4
  <1>3. /\ Operate("retry_stage", r, t)
        /\ hist' = [hist EXCEPT ![r] = Uncharged(hist[r])]
    BY DEF RetryStage
  <1>4. ~NoStageRetry
    BY <1>3 DEF Operate, NoStageRetry
  <1>5. e \in {"queued", "ready_for_review"}
    OBVIOUS
  <1>6. target \in WorkNodes /\ target \in Nodes
    BY NodeFacts DEF Retryables, WorkNodes
  <1> HIDE DEF v, e
  <1>7. u \in Row /\ u.plan = v.plan
    BY <1>2, UnleasedFields
  <1> HIDE DEF u
  <1>8. /\ t \in Row /\ t.exec = e /\ t.wf = target /\ t.plan = v.plan
    BY <1>5, <1>6, <1>7, ExecFacts, NodeFacts DEF Row
  <1> HIDE DEF t
  <1> QED BY <1>2, <1>3, <1>4, <1>5, <1>6, <1>8, WorkAgainSafe

LEMMA RetrySafe ==
    ASSUME Inv, SafeInv, NEW r \in Runs, Retry(r)
    PROVE  SafeInv'
  <1> DEFINE o == Refreshed(r)
             u == Unleased(o)
             e == IF o.plan # "none" \/ o.snapshot
                  THEN "ready_for_review" ELSE "queued"
             n == IF o.plan # "none" THEN "agent_batches"
                  ELSE IF o.snapshot THEN "planning" ELSE "queued"
             t == [u EXCEPT !.exec = e, !.wf = n, !.attempts = 0,
                            !.models = 0, !.polls = 0, !.due = TRUE]
  <1>1. o \in Row /\ o.plan # "done"
    BY RefreshedFields DEF Retry
  <1>2. u \in Row /\ u.plan = o.plan
    BY <1>1, UnleasedFields
  <1>3. /\ Operate("retry", r, t)
        /\ hist' = [hist EXCEPT ![r] = Uncharged(hist[r])]
    BY DEF Retry
  <1>4. /\ e \in {"queued", "ready_for_review"}
        /\ n \in WorkNodes /\ n \in Nodes
    BY NodeFacts DEF WorkNodes, ModelNodes
  <1> HIDE DEF o, u, e, n
  <1>5. /\ t \in Row /\ t.exec = e /\ t.wf = n /\ t.plan = o.plan
        /\ t.models = 0
    BY <1>2, <1>4, ExecFacts DEF Row
  <1> HIDE DEF t
  <1>6. ~(t.models > 0) /\ t.plan # "done"
    BY <1>1, <1>5
  <1>7. t.exec \in {"queued", "ready_for_review"} /\ t.wf \in WorkNodes
    BY <1>4, <1>5
  <1> QED BY <1>3, <1>5, <1>6, <1>7, WorkAgainSafe

LEMMA RetryFailedNodeSafe ==
    ASSUME Inv, SafeInv, NEW r \in Runs, NEW c \in {"complete", "partial"},
           RetryFailedNode(r, c)
    PROVE  SafeInv'
  <1> DEFINE o == Refreshed(r)
             u == Unleased(o)
             t == [u EXCEPT !.exec = "ready_for_review",
                            !.wf = "agent_batches", !.pausedFrom = "none",
                            !.due = TRUE, !.plan = "open", !.coverage = c]
  <1>1. u \in Row /\ c \in Coverages
    BY RefreshedFields, UnleasedFields, FieldFacts
  <1>2. /\ Operate("retry_failed_node", r, t)
        /\ hist' = [hist EXCEPT ![r] = Uncharged(hist[r])]
    BY DEF RetryFailedNode
  <1> HIDE DEF u
  <1>3. /\ t \in Row /\ t.exec = "ready_for_review"
        /\ t.wf = "agent_batches" /\ t.plan = "open"
    BY <1>1, FieldFacts, ExecFacts, NodeFacts DEF Row
  <1> HIDE DEF t
  <1>4. t.wf \in WorkNodes
    BY <1>3 DEF WorkNodes, ModelNodes
  <1> QED BY <1>2, <1>3, <1>4, WorkAgainSafe

LEMMA CancelSafe ==
    ASSUME Inv, SafeInv, NEW r \in Runs, Cancel(r)
    PROVE  SafeInv'
  <1> DEFINE o == row[r]
             u == Unleased(o)
             t == [u EXCEPT !.exec = "cancelled", !.wf = "cancelled",
                            !.pausedFrom = "none"]
  <1>1. o \in Row /\ SafeRow(o, hist[r]) /\ hist[r] \in Hist
    BY InvRows DEF SafeInv
  <1>2. u \in Row /\ u.plan = o.plan /\ u.models = o.models
    BY <1>1, UnleasedFields
  <1>3. Operate("cancel", r, t) /\ hist' = [hist EXCEPT ![r] = hist[r]]
    BY InvRows DEF Cancel
  <1> HIDE DEF u
  <1>4. /\ t.exec = "cancelled" /\ t.wf = "cancelled" /\ t.plan = o.plan
        /\ t.models = o.models
    BY <1>2 DEF Row
  <1> HIDE DEF t
  <1>5. SafeRow(t, hist[r])
    BY <1>1, <1>4
       DEF SafeRow, Unborn, GateRow, DoneRow, BudgetRow, Working, WorkNodes,
           ModelNodes, Claimables
  <1> QED BY <1>3, <1>5, OperateSafe

LEMMA ExpediteSafe ==
    ASSUME Inv, SafeInv, NEW r \in Runs, Expedite(r)
    PROVE  SafeInv'
  <1>1. /\ row[r] \in Row /\ SafeRow(row[r], hist[r])
        /\ row[r].exec # "absent"
    BY InvRows DEF SafeInv, Expedite, Operate
  <1>2. SafeRow([row[r] EXCEPT !.due = TRUE], hist[r])
    BY <1>1, TouchSafe
  <1>3. hist' = [hist EXCEPT ![r] = hist[r]]
    BY InvRows DEF Expedite
  <1> QED BY <1>2, <1>3, OperateSafe DEF Expedite

LEMMA NewRunsSafe ==
    ASSUME Inv, SafeInv, NEW r \in Runs, NEW s \in Runs, NEW h,
           ReviewSnapshot(r, s) \/ NewReview(r, s, h)
    PROVE  SafeInv'
  BY NewRowSafe, CreatedSafe DEF ReviewSnapshot, NewReview, RunFrom

LEMMA OperatorSafe ==
    ASSUME Inv, SafeInv, Operator
    PROVE  SafeInv'
  <1> PICK r \in Runs :
        \/ Start(r) \/ Pause(r) \/ Approve(r) \/ Reject(r) \/ Cancel(r)
        \/ Retry(r) \/ Expedite(r)
        \/ \E target \in ResumeTargets \union {"none"} : Resume(r, target)
        \/ \E target \in Retryables : RetryStage(r, target)
        \/ \E c \in {"complete", "partial"} : RetryFailedNode(r, c)
        \/ \E s \in Runs : ReviewSnapshot(r, s)
        \/ \E s \in Runs, h \in Heads : NewReview(r, s, h)
    BY DEF Operator
  <1>1. CASE Start(r) \/ Approve(r) \/ Reject(r)
    BY <1>1, NodeActionsSafe
  <1>2. CASE Pause(r) \/ Cancel(r) \/ Retry(r) \/ Expedite(r)
    BY <1>2, PauseSafe, CancelSafe, RetrySafe, ExpediteSafe
  <1>3. CASE \E target \in ResumeTargets \union {"none"} : Resume(r, target)
    BY <1>3, ResumeSafe
  <1>4. CASE \E target \in Retryables : RetryStage(r, target)
    BY <1>4, RetryStageSafe
  <1>5. CASE \E c \in {"complete", "partial"} : RetryFailedNode(r, c)
    BY <1>5, RetryFailedNodeSafe
  <1>6. CASE \/ \E s \in Runs : ReviewSnapshot(r, s)
             \/ \E s \in Runs, h \in Heads : NewReview(r, s, h)
    BY <1>6, NewRunsSafe
  <1> QED BY <1>1, <1>2, <1>3, <1>4, <1>5, <1>6

LEMMA NextSafe ==
    ASSUME Inv, SafeInv, [Next]_vars
    PROVE  SafeInv'
  <1>1. CASE UNCHANGED vars
    BY <1>1, SafeSame DEF vars
  <1>2. ASSUME NEW p \in Procs, Poll(p) \/ Renew(p) \/ Work(p) \/ Crash(p)
        PROVE  SafeInv'
    <2>1. CASE Crash(p)
      BY <2>1, SafeSame DEF Crash
    <2> QED BY <1>2, <2>1, ClaimSafe, RenewSafe, WorkSafe DEF Poll
  <1>3. CASE Next
    BY <1>2, <1>3, ArrivalsSafe, ClockSafe, RecoverSafe, OperatorSafe
       DEF Next
  <1> QED BY <1>1, <1>3

LEMMA SafeHolds == Spec => []SafeInv
  <1>1. Init => SafeInv
    BY InitSafe
  <1>2. Inv /\ SafeInv /\ [Next]_vars => SafeInv'
    BY NextSafe
  <1> QED BY <1>1, <1>2, InvHolds, PTL DEF Spec

\* A run at the publishing stage carries a complete review that an operator
\* approved, whatever pauses, retries, stage resets, crashes and late writes
\* lie behind it - as long as RESUME requests do not name the approval or the
\* publishing stage themselves, which the code would obey.
THEOREM NothingUnapproved ==
    ASSUME NoGateTarget
    PROVE  Spec => []PublishGate
  <1>1. SafeInv => PublishGate
    BY DEF SafeInv, SafeRow, GateRow, PublishGate
  <1> QED BY <1>1, SafeHolds, PTL

\* Between two operator actions a task is retried at most max_attempts times
\* per counter, and a task that is ready for review can be claimed.  The two
\* hypotheses exclude what breaks it in the code: a RETRY_STAGE keeps the
\* model counter, and a RESUME with a stage reopens a completed review.
THEOREM RetriesAreSound ==
    ASSUME PlainResume, NoStageRetry
    PROVE  Spec => []RetriesSound
  <1>1. Inv /\ SafeInv => RetryBudget
    BY DEF SafeInv, SafeRow, BudgetRow, RetryBudget
  <1>2. SafeInv => ReadyClaimable
    BY DEF SafeInv, SafeRow, DoneRow, ReadyClaimable, Working, Claimables
  <1> QED BY <1>1, <1>2, InvHolds, SafeHolds, PTL DEF RetriesSound

-----------------------------------------------------------------------------
(* Who may restart what was stopped.                                       *)

Dead == {"failed", "timed_out", "cancelled", "superseded"}

\* The step from row t to row u restarts nothing that was stopped.
Undisturbed(t, u) ==
    /\ t.wf = "paused" => u.wf = "paused" \/ u.exec = "superseded"
    /\ t.exec \in Dead => u.exec = t.exec

LEMMA OneUndisturbed ==
    ASSUME Inv, NEW r \in Runs, NEW t, row' = [row EXCEPT ![r] = t],
           \/ Undisturbed(row[r], t)
           \/ row[r].wf # "paused" /\ row[r].exec \notin Dead
    PROVE  \A s \in Runs : Undisturbed(row[s], row'[s])
  BY InvRows DEF Undisturbed

\* Whoever passes the ownership check works on a row nobody stopped.
LEMMA LeasedUndisturbed ==
    ASSUME Inv, NEW p \in Procs, NEW t, Owns(p),
           row' = [row EXCEPT ![held[p].run] = t]
    PROVE  \A s \in Runs : Undisturbed(row[s], row'[s])
  <1>1. /\ held[p].run \in Runs /\ row[held[p].run].exec = "running"
        /\ row[held[p].run].wf # "paused"
    BY OwnsRunning DEF Owns, Owned
  <1> QED BY <1>1, OneUndisturbed DEF Dead

LEMMA AcceptUndisturbed ==
    ASSUME Inv, NEW p \in Procs, NEW t, NEW complete, ReadyToStore(p),
           AcceptContext(p, t, complete)
    PROVE  \A s \in Runs : Undisturbed(row[s], row'[s])
  <1> SUFFICES ASSUME NEW s \in Runs
               PROVE  Undisturbed(row[s], row'[s])
    OBVIOUS
  <1> DEFINE r == held[p].run
  <1>1. /\ r \in Runs /\ row[r].exec = "running" /\ row[r].wf # "paused"
    BY OwnsRunning DEF ReadyToStore, Owns, Owned
  <1>2. row'[s] = IF s = r THEN t
                  ELSE IF s \in SupersededBy(r) THEN Superseded(row[s])
                  ELSE row[s]
    BY DEF AcceptContext
  <1>3. CASE s = r
    BY <1>1, <1>3 DEF Undisturbed, Dead
  <1>4. CASE s # r /\ s \in SupersededBy(r)
    <2>1. row[s].exec \notin Dead
      BY <1>4 DEF SupersededBy, Replaceables, Claimables, Dead
    <2>2. row'[s].exec = "superseded"
      <3>1. row[s] \in Row
        BY InvRows
      <3> DEFINE u == SetWorkflow(SetOwnedStatus(row[s], "superseded"),
                                  "superseded")
      <3>2. Ended(u, row[s], "superseded", "superseded")
        BY <3>1, OwnedStatusFields, ExecFacts, NodeFacts
      <3> HIDE DEF u
      <3>3. [u EXCEPT !.coverage = "stale"].exec = "superseded"
        BY <3>2 DEF Ended, Row
      <3> QED BY <1>2, <1>4, <3>3 DEF Superseded, u
    <2> QED BY <2>1, <2>2 DEF Undisturbed
  <1>5. CASE s # r /\ s \notin SupersededBy(r)
    BY <1>2, <1>5 DEF Undisturbed
  <1> QED BY <1>3, <1>4, <1>5

LEMMA WorkUndisturbed ==
    ASSUME Inv, NEW p \in Procs, Work(p)
    PROVE  \A s \in Runs : Undisturbed(row[s], row'[s])
  <1>1. CASE LoadContext(p) \/ LoseLease(p)
    BY <1>1 DEF LoadContext, LoseLease, Undisturbed
  <1>2. ASSUME NEW c \in BOOLEAN,
               \/ StoreCiPending(p, c) \/ StoreCiTimeout(p, c)
               \/ StoreCiReady(p, c)
        PROVE  \A s \in Runs : Undisturbed(row[s], row'[s])
    BY <1>2, AcceptUndisturbed
       DEF StoreCiPending, StoreCiTimeout, StoreCiReady
  <1>3. ASSUME NEW c \in {"complete", "partial"}, StoreReview(p, c)
        PROVE  \A s \in Runs : Undisturbed(row[s], row'[s])
    BY <1>3, LeasedUndisturbed DEF StoreReview, Finish
  <1>4. ASSUME NEW kind, ReportError(p, kind)
        PROVE  \A s \in Runs : Undisturbed(row[s], row'[s])
    BY <1>4, LeasedUndisturbed DEF ReportError, Finish
  <1>5. CASE \/ StoreHeadMismatch(p) \/ StoreNotReviewable(p)
             \/ StorePlanStale(p)
    BY <1>5, LeasedUndisturbed DEF StoreHeadMismatch, StoreNotReviewable,
           StorePlanStale, ReadyToStore, Finish
  <1>6. CASE \/ StorePlan(p) \/ StorePartialReview(p) \/ PauseForBudget(p)
             \/ MarkAggregating(p)
    BY <1>6, LeasedUndisturbed DEF StorePlan, StorePartialReview,
           PauseForBudget, MarkAggregating, Finish
  <1> QED BY <1>1, <1>2, <1>3, <1>4, <1>5, <1>6 DEF Work, Stored

\* The clock and recovery leave paused and ended tasks as they are.
LEMMA TimeUndisturbed ==
    ASSUME Inv, Clock \/ \E r \in Runs : Recover(r)
    PROVE  \A s \in Runs : Undisturbed(row[s], row'[s])
  <1>1. ASSUME NEW r \in Runs, Recover(r)
        PROVE  \A s \in Runs : Undisturbed(row[s], row'[s])
    BY <1>1, OneUndisturbed DEF Recover, Dead
  <1>2. ASSUME NEW r \in Runs, \/ ExpireAbandoned(r) \/ MissRenewal(r)
                               \/ BecomeDue(r) \/ DeadlinePasses(r)
        PROVE  \A s \in Runs : Undisturbed(row[s], row'[s])
    <2>1. PICK t \in {[row[r] EXCEPT !.lease = "expired"],
                      [row[r] EXCEPT !.due = TRUE],
                      [row[r] EXCEPT !.deadline = "passed"]} :
              row' = [row EXCEPT ![r] = t]
      BY <1>2 DEF ExpireAbandoned, MissRenewal, Expired, BecomeDue,
                  DeadlinePasses
    <2>2. row[r] \in Row
      BY InvRows
    <2>3. t.wf = row[r].wf /\ t.exec = row[r].exec
      BY <2>1, <2>2 DEF Row
    <2> QED BY <2>1, <2>3, OneUndisturbed DEF Undisturbed
  <1> QED BY <1>1, <1>2 DEF Clock

\* A step that disturbs a stopped task is an operator's.
LEMMA OnlyOperatorDisturbs ==
    ASSUME Inv, SafeInv, [Next]_vars
    PROVE  ops' > ops \/ \A s \in Runs : Undisturbed(row[s], row'[s])
  <1>1. CASE UNCHANGED vars
    BY <1>1 DEF vars, Undisturbed
  <1>2. CASE Operator
    <2>1. ops' = ops + 1
      BY <1>2, ZenonT(30) DEF Operator, Start, Pause, Resume, RetryStage, Approve, Reject,
           Cancel, Retry, RetryFailedNode, Expedite, ReviewSnapshot,
           NewReview, Operate, RunFrom
    <2> QED BY <2>1, InvRows
  <1>3. CASE Arrivals
    <2>1. ASSUME NEW r \in Runs, NextSlot(r)
          PROVE  row[r].wf # "paused" /\ row[r].exec \notin Dead
      BY <2>1 DEF NextSlot, SafeInv, SafeRow, Unborn, NoRow, Dead
    <2>2. CASE Push
      BY <2>2 DEF Push, Undisturbed
    <2>3. ASSUME NEW r \in Runs, NEW h \in Heads, CreateRun(r, h)
          PROVE  \A s \in Runs : Undisturbed(row[s], row'[s])
      BY <2>1, <2>3, OneUndisturbed DEF CreateRun
    <2> QED BY <1>3, <2>2, <2>3 DEF Arrivals
  <1>4. ASSUME NEW p \in Procs, Poll(p) \/ Renew(p) \/ Work(p) \/ Crash(p)
        PROVE  \A s \in Runs : Undisturbed(row[s], row'[s])
    <2>1. ASSUME NEW r \in Runs, Claim(p, r)
          PROVE  \A s \in Runs : Undisturbed(row[s], row'[s])
      <3>1. row[r].wf # "paused" /\ row[r].exec \notin Dead
        BY <2>1 DEF Claim, Claimable, Claimables, Dead
      <3> QED BY <2>1, <3>1, OneUndisturbed DEF Claim
    <2>2. CASE Renew(p)
      <3> DEFINE r == held[p].run
      <3>1. Owns(p) /\ row' = [row EXCEPT ![r] = [row[r] EXCEPT
                                                     !.lease = "live"]]
        BY <2>2 DEF Renew
      <3> QED BY <3>1, LeasedUndisturbed
    <2>3. CASE Crash(p)
      BY <2>3 DEF Crash, Undisturbed
    <2> QED BY <1>4, <2>1, <2>2, <2>3, WorkUndisturbed DEF Poll
  <1> QED BY <1>1, <1>2, <1>3, <1>4, TimeUndisturbed DEF Next

\* Only an operator, or a newer version of the pull request, takes a task out
\* of "paused", and only an operator revives one that ended: no late write of
\* an old lease, no recovery and no poll does, for any number of processes.
THEOREM OperatorsDecideAll == Spec => OperatorsDecide
  <1>1. Inv /\ SafeInv /\ [Next]_vars
          => [\A r \in Runs : row[r].wf = "paused" /\ row'[r].wf # "paused"
                => ops' > ops \/ row'[r].exec = "superseded"]_vars
    BY OnlyOperatorDisturbs DEF Undisturbed
  <1>2. Inv /\ SafeInv /\ [Next]_vars
          => [\A r \in Runs :
                 /\ row[r].exec \in {"failed", "timed_out", "cancelled",
                                     "superseded"}
                 /\ row'[r].exec # row[r].exec
                 => ops' > ops]_vars
    BY OnlyOperatorDisturbs DEF Undisturbed, Dead
  <1> QED BY <1>1, <1>2, InvHolds, SafeHolds, PTL
          DEF Spec, OperatorsDecide, PauseHolds, OnlyOperatorsRevive
-----------------------------------------------------------------------------
(***************************************************************************)
(* The queue reviews the head of the pull request and nothing but it       *)
(* (HeadsRespected), proved for any number of runs, commits, workers and   *)
(* operator actions.                                                       *)
(*                                                                         *)
(* The argument is about pairs of runs: runs are created in the order of   *)
(* the commits they review, so a run of another commit that came later is  *)
(* newer; a run turns into history only when a newer one exists; and what  *)
(* an operator revives, the code first turns into history.                 *)
(***************************************************************************)

Exists(r) == row[r].exec # "absent"
Retired(t) == t.exec \in Dead \/ t.wf = "paused"

\* A task on its way to the context stage has no plan yet.
ContextRow(t) ==
    \/ t.exec \in {"queued", "waiting_for_ci"}
    \/ t.exec = "running" /\ t.claimedFrom # "ready_for_review"
    \/ t.wf \in {"queued", "ci"}
    \/ t.wf = "paused" /\ t.pausedFrom \in {"none", "queued", "ci"}
    => t.plan = "none"

\* Stale coverage marks the runs that were superseded.
StaleRow(t) ==
    t.coverage = "stale" => t.exec = "superseded" /\ t.wf = "superseded"

LocalRow(t) == ContextRow(t) /\ StaleRow(t)

\* Runs are created one after the other, for no commit GitHub has not seen.
InOrder ==
    /\ \A r, s \in Runs : r < s /\ Exists(s) => Exists(r)
    /\ \A r \in Runs : row[r].head <= ghHead

\* A run that is or was the review of the current head has no newer commit
\* before it.
Ascending ==
    \A r, s \in Runs :
        r < s /\ Exists(s) /\ (~row[s].snapshot \/ hist[s].stored)
            => row[r].head <= row[s].head

\* What a worker read from GitHub is no older than the commit it reviews.
SeenRecent ==
    \A p \in Procs :
        held[p].run # 0 => /\ Exists(held[p].run)
                           /\ held[p].seen # 0
                                => /\ row[held[p].run].head <= held[p].seen
                                   /\ held[p].seen <= ghHead

\* Nothing becomes history, or stale with a plan, before a newer run exists.
OnlyOldIsHistory ==
    \A r \in Runs :
        /\ row[r].coverage = "stale" /\ row[r].plan # "none" => HasNewer(r)
        /\ row[r].snapshot /\ hist[r].stored => HasNewer(r)

LocalInv == \A r \in Runs : LocalRow(row[r])

VersionInv ==
    /\ LocalInv /\ InOrder /\ Ascending /\ SeenRecent /\ OnlyOldIsHistory
    /\ OnlyStaleSuperseded /\ OldHeadRetired

\* RESUME requests name no stage before the plan: to one of these only the
\* code itself returns, when the run was paused there.
NoContextTarget == ResumeTargets \intersect {"queued", "ci"} = {}

LEMMA InitVersion == Init => VersionInv
  <1> SUFFICES ASSUME Init PROVE VersionInv
    OBVIOUS
  <1>1. ghHead = 1 /\ \A p \in Procs : held[p].run = 0
    BY DEF Init, NoLease
  <1>2. \A r \in Runs : /\ row[r].exec = "absent" /\ row[r].wf = "none"
                        /\ row[r].coverage = "unknown" /\ row[r].head = 0
                        /\ ~row[r].snapshot /\ ~hist[r].stored
    BY DEF Init, NoRow, NoHist
  <1>3. LocalInv
    BY <1>2 DEF LocalInv, LocalRow, ContextRow, StaleRow
  <1>4. InOrder /\ Ascending /\ SeenRecent
    BY <1>1, <1>2 DEF InOrder, Ascending, SeenRecent, Exists
  <1>5. OnlyOldIsHistory /\ OnlyStaleSuperseded /\ OldHeadRetired
    BY <1>2 DEF OnlyOldIsHistory, OnlyStaleSuperseded, OldHeadRetired
  <1> QED BY <1>3, <1>4, <1>5 DEF VersionInv

-----------------------------------------------------------------------------
(* Newer is transitive along the runs that are not history.                *)

LEMMA HeadsNat ==
    ASSUME Inv
    PROVE  /\ \A r \in Runs : row[r] \in Row /\ row[r].head \in Int
           /\ \A r \in Runs : r \in Int
           /\ ghHead \in Int
  BY InvRows, QueueAssumption DEF Row, Runs, Heads

LEMMA NewerChain ==
    ASSUME Inv, InOrder, Ascending, NEW r \in Runs, NEW s \in Runs, r < s,
           Exists(s), ~row[s].snapshot \/ hist[s].stored,
           row[r].head # row[s].head, HasNewer(s)
    PROVE  HasNewer(r)
  <1>1. PICK x \in Runs : Newer(s, x)
    BY DEF HasNewer
  <1>2. row[r].head < row[s].head
    BY HeadsNat DEF Ascending
  <1>3. row[s].head < row[x].head
    BY <1>1, HeadsNat DEF Ascending, Newer, Exists
  <1>4. Newer(r, x)
    BY <1>1, <1>2, <1>3, HeadsNat DEF Newer
  <1> QED BY <1>4 DEF HasNewer

-----------------------------------------------------------------------------
(* What a transaction may do to the versions.                              *)

\* A step that creates no run: commits stay, history is for good, and who is
\* no longer retired is history or the newest.
Turned(s) == row'[s].snapshot /\ ~row[s].snapshot

VersionStep ==
    /\ ghHead' \in Int /\ ghHead <= ghHead'
    /\ \A s \in Runs :
          /\ Exists(s)' <=> Exists(s)
          /\ row'[s].head = row[s].head
          /\ row[s].snapshot => row'[s].snapshot
          /\ Turned(s) => HasNewer(s)
          /\ row'[s].coverage = "stale" /\ row'[s].plan # "none"
                => HasNewer(s)
          /\ row'[s].exec = "superseded" => row[s].head < ghHead
          /\ Retired(row[s]) /\ ~Retired(row'[s])
                => row'[s].snapshot \/ ~HasNewer(s)
          /\ hist'[s].stored /\ ~hist[s].stored
                => /\ ~row[s].snapshot /\ ~row'[s].snapshot
                   /\ \A q \in Runs :
                        /\ q < s /\ row[q].head # row[s].head
                        /\ ~row[q].snapshot
                        => Retired(row'[q])
    /\ \A s, q \in Runs : Turned(s) /\ Turned(q) => s = q

LEMMA NewerStays ==
    ASSUME Inv, InOrder, Ascending, VersionStep, NEW r \in Runs, HasNewer(r)
    PROVE  HasNewer(r)'
  <1>1. PICK s \in Runs : Newer(r, s)
    BY DEF HasNewer
  <1>2. CASE ~Turned(s)
    <2>1. Newer(r, s)'
      BY <1>1, <1>2 DEF VersionStep, Newer, Exists, Turned
    <2> QED BY <2>1 DEF HasNewer
  <1>3. CASE Turned(s)
    <2>1. PICK x \in Runs : Newer(s, x)
      BY <1>3 DEF VersionStep, HasNewer
    <2>2. row[r].head < row[s].head
      BY <1>1, HeadsNat DEF Ascending, Newer, Exists
    <2>3. row[s].head < row[x].head
      BY <2>1, HeadsNat DEF Ascending, Newer, Exists
    <2>4. ~Turned(x)
      BY <1>3, <2>1, HeadsNat DEF VersionStep, Newer
    <2>5. Newer(r, x)'
      BY <1>1, <2>1, <2>2, <2>3, <2>4, HeadsNat
         DEF VersionStep, Newer, Exists, Turned
    <2> QED BY <2>5 DEF HasNewer
  <1> QED BY <1>2, <1>3

\* The invariants about pairs of runs survive such a step.
LEMMA VersionsKept ==
    ASSUME Inv, Inv', SafeInv, VersionInv, VersionStep
    PROVE  /\ InOrder' /\ Ascending' /\ OnlyOldIsHistory'
           /\ OnlyStaleSuperseded' /\ OldHeadRetired'
  <1> USE DEF VersionInv
  <1>1. InOrder'
    BY HeadsNat DEF InOrder, VersionStep
  <1>2. Ascending'
    <2> SUFFICES ASSUME NEW r \in Runs, NEW s \in Runs, r < s, Exists(s)',
                        ~row'[s].snapshot \/ hist'[s].stored
                 PROVE  row'[r].head <= row'[s].head
      BY DEF Ascending
    <2>1. ~row[s].snapshot \/ hist[s].stored
      BY DEF VersionStep
    <2> QED BY <2>1 DEF Ascending, VersionStep
  <1>3. OnlyOldIsHistory'
    <2> SUFFICES ASSUME NEW r \in Runs,
                        \/ row'[r].coverage = "stale" /\ row'[r].plan # "none"
                        \/ row'[r].snapshot /\ hist'[r].stored
                 PROVE  HasNewer(r)'
      BY DEF OnlyOldIsHistory
    <2>1. HasNewer(r)
      BY DEF OnlyOldIsHistory, VersionStep, Turned
    <2> QED BY <2>1, NewerStays
  <1>4. OnlyStaleSuperseded'
    <2> SUFFICES ASSUME NEW r \in Runs, row'[r].exec = "superseded"
                 PROVE  row'[r].head < ghHead'
      BY DEF OnlyStaleSuperseded
    <2> QED BY HeadsNat DEF VersionStep
  <1>5. OldHeadRetired'
    <2> SUFFICES ASSUME NEW r \in Runs, NEW s \in Runs, r < s,
                        hist'[s].stored, row'[r].head # row'[s].head,
                        ~row'[r].snapshot
                 PROVE  Retired(row'[r])
      BY DEF OldHeadRetired, Retired, Dead
    <2>1. row[r].head # row[s].head /\ ~row[r].snapshot
      BY DEF VersionStep
    <2>2. CASE ~hist[s].stored
      BY <2>1, <2>2 DEF VersionStep
    <2>3. CASE hist[s].stored
      <3>1. Retired(row[r])
        BY <2>1, <2>3 DEF OldHeadRetired, Retired, Dead
      <3>2. Exists(s)
        BY <2>3 DEF Exists, SafeInv, SafeRow, Unborn, NoHist
      <3>3. HasNewer(r)
        <4>1. CASE ~row[s].snapshot
          BY <2>1, <3>2, <4>1 DEF HasNewer, Newer, Exists
        <4>2. CASE row[s].snapshot
          <5>1. HasNewer(s)
            BY <2>3, <4>2 DEF OnlyOldIsHistory
          <5> QED BY <2>1, <2>3, <3>2, <5>1, NewerChain
        <4> QED BY <4>1, <4>2
      <3> QED BY <3>1, <3>3 DEF VersionStep
    <2> QED BY <2>2, <2>3
  <1> QED BY <1>1, <1>2, <1>3, <1>4, <1>5

-----------------------------------------------------------------------------
(* Transactions that write one row.                                        *)

\* What run r's row may become.
RowMove(r, t) ==
    /\ row[r].exec # "absent" /\ t.exec # "absent"
    /\ t.head = row[r].head
    /\ row[r].snapshot => t.snapshot
    /\ t.snapshot /\ ~row[r].snapshot => HasNewer(r)
    /\ t.coverage = "stale" /\ t.plan # "none" => HasNewer(r)
    /\ t.exec = "superseded" => row[r].head < ghHead
    /\ Retired(row[r]) /\ ~Retired(t) => t.snapshot \/ ~HasNewer(r)
    /\ LocalRow(t)

\* The history of the stored contexts stays.
StoredStays == \A s \in Runs : hist'[s].stored = hist[s].stored

LEMMA OneRowVersion ==
    ASSUME Inv, VersionInv, NEW r \in Runs, NEW t, RowMove(r, t),
           row' = [row EXCEPT ![r] = t], StoredStays,
           ghHead' = ghHead
    PROVE  VersionStep /\ LocalInv'
  <1> USE DEF VersionInv
  <1>1. row'[r] = t /\ \A s \in Runs : s # r => row'[s] = row[s]
    BY InvRows
  <1>2. \A s \in Runs :
          /\ Exists(s)' <=> Exists(s)
          /\ row'[s].head = row[s].head
          /\ row[s].snapshot => row'[s].snapshot
          /\ Turned(s) => s = r /\ HasNewer(s)
    BY <1>1 DEF RowMove, Exists, Turned
  <1>3. \A s \in Runs :
          /\ row'[s].coverage = "stale" /\ row'[s].plan # "none"
                => HasNewer(s)
          /\ row'[s].exec = "superseded" => row[s].head < ghHead
          /\ Retired(row[s]) /\ ~Retired(row'[s])
                => row'[s].snapshot \/ ~HasNewer(s)
    BY <1>1 DEF RowMove, OnlyOldIsHistory, OnlyStaleSuperseded
  <1>4. LocalInv'
    BY <1>1 DEF RowMove, LocalInv
  <1>5. ghHead' \in Int /\ ghHead <= ghHead'
    BY HeadsNat
  <1> QED BY <1>2, <1>3, <1>4, <1>5 DEF VersionStep, StoredStays

\* A step that changes no row.
LEMMA NoRowVersion ==
    ASSUME Inv, VersionInv, row' = row, StoredStays, ghHead' \in Int,
           ghHead <= ghHead'
    PROVE  VersionStep /\ LocalInv'
  BY HeadsNat DEF VersionInv, VersionStep, StoredStays, LocalInv, Exists,
                  Turned, OnlyOldIsHistory, OnlyStaleSuperseded

\* A lease that is kept keeps what it saw.
LEMMA SeenSame ==
    ASSUME Inv, VersionInv, VersionStep, NEW p \in Procs,
           held'[p] = held[p], held'[p].run # 0
    PROVE  /\ Exists(held[p].run)'
           /\ held'[p].seen # 0
                 => /\ row'[held'[p].run].head <= held'[p].seen
                    /\ held'[p].seen <= ghHead'
  <1>1. held[p].run \in Runs /\ held[p].seen \in Int
    BY InvRows, QueueAssumption DEF Lease, Runs
  <1>2. /\ row[held[p].run].exec # "absent"
        /\ row'[held[p].run].exec # "absent"
        /\ row'[held[p].run].head = row[held[p].run].head
    BY <1>1 DEF VersionInv, SeenRecent, VersionStep, Exists
  <1>3. ghHead \in Int /\ ghHead' \in Int /\ ghHead <= ghHead'
    BY HeadsNat DEF VersionStep
  <1>4. held[p].seen # 0 => /\ row[held[p].run].head <= held[p].seen
                            /\ held[p].seen <= ghHead
    BY DEF VersionInv, SeenRecent
  <1> QED BY <1>1, <1>2, <1>3, <1>4 DEF Exists

LEMMA SeenKept ==
    ASSUME Inv, VersionInv, VersionStep,
           \A p \in Procs : held'[p] = held[p] \/ held'[p] = NoLease
    PROVE  SeenRecent'
  <1> SUFFICES ASSUME NEW p \in Procs, held'[p].run # 0
               PROVE  /\ row'[held'[p].run].exec # "absent"
                      /\ held'[p].seen # 0
                            => /\ row'[held'[p].run].head <= held'[p].seen
                               /\ held'[p].seen <= ghHead'
    BY DEF SeenRecent, Exists
  <1>1. held'[p] = held[p]
    BY DEF NoLease
  <1> QED BY <1>1, SeenSame DEF Exists

\* A transaction that writes one row keeps the whole invariant.
LEMMA OneRowKept ==
    ASSUME Inv, Inv', SafeInv, VersionInv, NEW r \in Runs, NEW t,
           RowMove(r, t), row' = [row EXCEPT ![r] = t], StoredStays,
           ghHead' = ghHead,
           \A p \in Procs : held'[p] = held[p] \/ held'[p] = NoLease
    PROVE  VersionInv'
  <1>1. VersionStep /\ LocalInv'
    BY OneRowVersion
  <1> QED BY <1>1, VersionsKept, SeenKept DEF VersionInv

LEMMA HeldForgets ==
    ASSUME Inv, NEW p \in Procs,
           held' = held \/ held' = [held EXCEPT ![p] = NoLease]
    PROVE  \A q \in Procs : held'[q] = held[q] \/ held'[q] = NoLease
  BY InvRows

LEMMA StoredSame ==
    ASSUME Inv, NEW r \in Runs, NEW kind,
           \/ hist' = hist
           \/ hist' = [hist EXCEPT ![r] = Charged(@, row[r], kind)]
           \/ hist' = [hist EXCEPT ![r] = Uncharged(@)]
           \/ hist' = [hist EXCEPT ![r].approved = TRUE]
           \/ hist' = [hist EXCEPT ![r].approved = FALSE]
           \/ hist' = [hist EXCEPT ![r].epoch = @ + 1]
    PROVE  StoredStays
  <1>1. Charged(hist[r], row[r], kind).stored = hist[r].stored
    <2>1. /\ [hist[r] EXCEPT !.model = @ + 1].stored = hist[r].stored
          /\ [hist[r] EXCEPT !.poll = @ + 1].stored = hist[r].stored
          /\ [hist[r] EXCEPT !.work = @ + 1].stored = hist[r].stored
      BY InvRows DEF Hist
    <2> QED BY <2>1, Zenon DEF Charged
  <1>2. Uncharged(hist[r]).stored = hist[r].stored
    BY InvRows DEF Hist, Uncharged
  <1> QED BY <1>1, <1>2, InvRows DEF StoredStays, Hist

-----------------------------------------------------------------------------
(* The worker's transactions.                                              *)

LEMMA NewerHead ==
    ASSUME Inv, VersionInv, NEW r \in Runs, HasNewer(r)
    PROVE  row[r].head < ghHead
  <1>1. PICK s \in Runs : Newer(r, s)
    BY DEF HasNewer
  <1>2. row[r].head < row[s].head /\ row[s].head <= ghHead
    BY <1>1, HeadsNat DEF VersionInv, Ascending, InOrder, Newer, Exists
  <1> QED BY <1>2, HeadsNat

\* A process that passes the ownership check works on a row in use, and the
\* context stage on one without a plan.
LEMMA OwnsVersion ==
    ASSUME Inv, VersionInv, NEW p \in Procs, Owns(p)
    PROVE  LET t == row[held[p].run]
           IN  /\ held[p].run \in Runs /\ t \in Row
               /\ t.exec = "running" /\ t.wf # "paused" /\ ~Retired(t)
               /\ LocalRow(t) /\ t.coverage # "stale"
               /\ t.claimedFrom = held[p].claimedFrom
               /\ t.claimedFrom \in Claimables
               /\ InContextStage(p) => t.plan = "none"
               /\ held[p].seen # 0 => /\ t.head <= held[p].seen
                                      /\ held[p].seen <= ghHead
  <1> DEFINE t == row[held[p].run]
  <1>1. /\ held[p].run \in Runs /\ GoodRow(t) /\ t.exec = "running"
        /\ t \in Row
    BY OwnsRunning
  <1>2. /\ t.claimedFrom = held[p].claimedFrom /\ held[p].run # 0
        /\ t.wf # "paused"
    BY DEF Owns, Owned
  <1>3. LocalRow(t)
    BY <1>1 DEF VersionInv, LocalInv
  <1>4. t.claimedFrom \in Claimables
    BY <1>1 DEF GoodRow, Consistent, Row
  <1>5. held[p].seen # 0 => t.head <= held[p].seen /\ held[p].seen <= ghHead
    BY <1>2 DEF VersionInv, SeenRecent
  <1> HIDE DEF t
  <1>6. ~Retired(t) /\ t.coverage # "stale"
    BY <1>1, <1>2, <1>3 DEF Retired, Dead, LocalRow, StaleRow
  <1>7. InContextStage(p) => t.plan = "none"
    BY <1>1, <1>2, <1>3 DEF InContextStage, LocalRow, ContextRow
  <1>8. /\ held[p].run \in Runs /\ t \in Row
        /\ t.exec = "running" /\ t.wf # "paused" /\ ~Retired(t)
        /\ LocalRow(t) /\ t.coverage # "stale"
        /\ t.claimedFrom = held[p].claimedFrom
        /\ t.claimedFrom \in Claimables
        /\ InContextStage(p) => t.plan = "none"
        /\ held[p].seen # 0 => /\ t.head <= held[p].seen
                               /\ held[p].seen <= ghHead
    BY <1>1, <1>2, <1>3, <1>4, <1>5, <1>6, <1>7
  <1> QED BY <1>8 DEF t

LEMMA SupersededFields ==
    ASSUME NEW t \in Row
    PROVE  LET u == Superseded(t)
           IN  /\ u.exec = "superseded" /\ u.wf = "superseded"
               /\ u.coverage = "stale" /\ u.plan = t.plan
               /\ u.snapshot = t.snapshot /\ u.head = t.head
  <1> DEFINE u == SetWorkflow(SetOwnedStatus(t, "superseded"), "superseded")
             v == [u EXCEPT !.coverage = "stale"]
  <1>1. Ended(u, t, "superseded", "superseded")
    BY OwnedStatusFields, ExecFacts, NodeFacts
  <1>2. Superseded(t) = v
    BY DEF Superseded
  <1> HIDE DEF u
  <1>3. /\ v.exec = "superseded" /\ v.wf = "superseded"
        /\ v.coverage = "stale" /\ v.plan = t.plan
        /\ v.snapshot = t.snapshot /\ v.head = t.head
    BY <1>1 DEF Ended, Row
  <1> QED BY <1>2, <1>3

LEMMA SupersededMove ==
    ASSUME Inv, NEW r \in Runs, row[r].exec # "absent",
           row[r].head < ghHead, row[r].plan # "none" => HasNewer(r)
    PROVE  RowMove(r, Superseded(row[r]))
  <1> DEFINE u == Superseded(row[r])
  <1>1. /\ u.exec = "superseded" /\ u.wf = "superseded"
        /\ u.coverage = "stale" /\ u.plan = row[r].plan
        /\ u.snapshot = row[r].snapshot /\ u.head = row[r].head
    BY InvRows, SupersededFields
  <1> HIDE DEF u
  <1>2. LocalRow(u) /\ Retired(u)
    BY <1>1 DEF LocalRow, ContextRow, StaleRow, Retired, Dead
  <1>3. RowMove(r, u)
    BY <1>1, <1>2 DEF RowMove
  <1> QED BY <1>3 DEF u

\* A task that leaves "running" otherwise keeps its commit and coverage.
LEMMA ReleaseMove ==
    ASSUME NEW r \in Runs, NEW u, row[r].exec # "absent", ~Retired(row[r]),
           u.exec \notin {"absent", "superseded"},
           u.head = row[r].head, row[r].snapshot => u.snapshot,
           u.snapshot /\ ~row[r].snapshot => HasNewer(r),
           u.coverage # "stale", ContextRow(u)
    PROVE  RowMove(r, u)
  BY DEF RowMove, LocalRow, StaleRow

LEMMA FinishKept ==
    ASSUME Inv, Inv', SafeInv, VersionInv, NEW p \in Procs, NEW t, Owns(p),
           Finish(p, t), RowMove(held[p].run, t), StoredStays,
           ghHead' = ghHead
    PROVE  VersionInv'
  <1>1. held[p].run \in Runs
    BY OwnsRunning
  <1>2. \A q \in Procs : held'[q] = held[q] \/ held'[q] = NoLease
    BY HeldForgets DEF Finish
  <1> QED BY <1>1, <1>2, OneRowKept DEF Finish

LEMMA StoreEndsKept ==
    ASSUME Inv, Inv', SafeInv, VersionInv, NEW p \in Procs,
           StoreHeadMismatch(p) \/ StoreNotReviewable(p) \/ StorePlanStale(p)
    PROVE  VersionInv'
  <1> DEFINE r == held[p].run
             t == row[r]
             u == SetWorkflow(SetOwnedStatus(t, "cancelled"), "cancelled")
  <1>1. Owns(p)
    BY DEF StoreHeadMismatch, StoreNotReviewable, StorePlanStale, ReadyToStore
  <1>2. /\ r \in Runs /\ t \in Row /\ t.exec = "running" /\ ~Retired(t)
        /\ t.coverage # "stale"
        /\ InContextStage(p) => t.plan = "none"
        /\ held[p].seen # 0 => /\ t.head <= held[p].seen
                               /\ held[p].seen <= ghHead
    BY <1>1, OwnsVersion
  <1>3. held[p].seen \in Int /\ t.head \in Int /\ ghHead \in Int
    BY <1>2, InvRows, HeadsNat, QueueAssumption DEF Lease
  <1>4. StoredStays /\ ghHead' = ghHead
    BY <1>2, StoredSame
       DEF StoreHeadMismatch, StoreNotReviewable, StorePlanStale
  <1>5. CASE StoreHeadMismatch(p)
    <2>1. t.plan = "none" /\ t.head < ghHead
      BY <1>2, <1>3, <1>5 DEF StoreHeadMismatch, ReadyToStore
    <2>2. RowMove(r, Superseded(t))
      BY <1>2, <2>1, SupersededMove
    <2> QED BY <1>1, <1>4, <1>5, <2>2, FinishKept DEF StoreHeadMismatch
  <1>6. CASE StorePlanStale(p)
    <2>1. HasNewer(r)
      BY <1>6 DEF StorePlanStale
    <2>2. RowMove(r, Superseded(t))
      BY <1>2, <2>1, NewerHead, SupersededMove
    <2> QED BY <1>1, <1>4, <1>6, <2>2, FinishKept DEF StorePlanStale
  <1>7. CASE StoreNotReviewable(p)
    <2>1. Ended(u, t, "cancelled", "cancelled")
      BY <1>2, OwnedStatusFields, ExecFacts, NodeFacts
    <2>2. Finish(p, u)
      BY <1>7 DEF StoreNotReviewable
    <2> HIDE DEF u
    <2>3. ContextRow(u)
      BY <2>1 DEF Ended, ContextRow
    <2>4. RowMove(r, u)
      BY <1>2, <2>1, <2>3, ReleaseMove DEF Ended
    <2> QED BY <1>1, <1>4, <2>2, <2>4, FinishKept
  <1> QED BY <1>5, <1>6, <1>7

\* Accepting a context supersedes exactly the older versions still in use.
LEMMA AcceptKept ==
    ASSUME Inv, Inv', SafeInv, VersionInv, NEW p \in Procs, NEW t,
           NEW complete \in BOOLEAN, ReadyToStore(p),
           AcceptContext(p, t, complete), RowMove(held[p].run, t),
           t.exec # "superseded", t.snapshot = row[held[p].run].snapshot
    PROVE  VersionInv'
  <1> DEFINE r == held[p].run
  <1> USE DEF VersionInv
  <1>1. /\ r \in Runs /\ row[r].exec = "running" /\ ~Retired(row[r])
        /\ row[r].snapshot \in BOOLEAN
    BY OwnsVersion DEF ReadyToStore, Row
  <1>2. \A s \in Runs :
           row'[s] = IF s = r THEN t
                     ELSE IF s \in SupersededBy(r) THEN Superseded(row[s])
                     ELSE row[s]
    BY DEF AcceptContext
  <1>3. /\ hist'[r].stored = ~row[r].snapshot
        /\ \A s \in Runs : s # r => hist'[s] = hist[s]
    BY <1>1, InvRows DEF AcceptContext, Hist
  <1>4. ghHead' = ghHead /\ held' = [held EXCEPT ![p] = NoLease]
    BY DEF AcceptContext
  <1>5. ASSUME NEW s \in SupersededBy(r)
        PROVE  s \in Runs /\ s # r /\ RowMove(s, Superseded(row[s]))
               /\ Retired(Superseded(row[s]))
    <2>1. /\ s \in Runs /\ s < r /\ row[s].head # row[r].head
          /\ ~row[r].snapshot /\ row[s].exec # "absent"
      BY DEF SupersededBy, Replaceables, Claimables
    <2>2. HasNewer(s)
      BY <1>1, <2>1, HeadsNat DEF HasNewer, Newer
    <2>3. RowMove(s, Superseded(row[s]))
      BY <2>1, <2>2, NewerHead, SupersededMove
    <2>4. Superseded(row[s]).exec = "superseded"
      BY <2>1, HeadsNat, SupersededFields
    <2> QED BY <1>1, <2>1, <2>3, <2>4, HeadsNat DEF Retired, Dead
  <1>6. ASSUME NEW s \in Runs
        PROVE  RowMove(s, row'[s]) \/ row'[s] = row[s]
    BY <1>1, <1>2, <1>5
  <1>7. \A s \in Runs : row'[s].snapshot = row[s].snapshot
    <2>1. \A s \in SupersededBy(r) :
              Superseded(row[s]).snapshot = row[s].snapshot
      BY <1>5, HeadsNat, SupersededFields
    <2> QED BY <1>2, <2>1
  <1>8. \A s \in Runs :
          /\ Exists(s)' <=> Exists(s)
          /\ row'[s].head = row[s].head
          /\ row[s].snapshot => row'[s].snapshot
          /\ ~Turned(s)
          /\ row'[s].coverage = "stale" /\ row'[s].plan # "none"
                => HasNewer(s)
          /\ row'[s].exec = "superseded" => row[s].head < ghHead
          /\ Retired(row[s]) /\ ~Retired(row'[s])
                => row'[s].snapshot \/ ~HasNewer(s)
    <2> TAKE s \in Runs
    <2>1. CASE row'[s] = row[s]
      BY <2>1 DEF Exists, Turned, OnlyOldIsHistory, OnlyStaleSuperseded
    <2>2. CASE RowMove(s, row'[s])
      BY <1>7, <2>2 DEF RowMove, Exists, Turned
    <2> QED BY <1>6, <2>1, <2>2
  <1>9. ASSUME NEW q \in Runs, q < r, row[q].head # row[r].head,
               ~row[q].snapshot, ~row[r].snapshot
        PROVE  Retired(row'[q])
    <2>1. row[q].exec # "absent" /\ row[q].exec \in Execs
      BY <1>1, <1>9, NodeType DEF InOrder, Exists
    <2>2. CASE row[q].exec \in Replaceables
      <3>1. q \in SupersededBy(r)
        BY <1>9, <2>2 DEF SupersededBy
      <3> QED BY <1>2, <1>5, <3>1
    <2>3. CASE row[q].exec \notin Replaceables
      <3>1. q \notin SupersededBy(r) /\ q # r
        BY <1>9, <2>3, HeadsNat DEF SupersededBy
      <3>2. row'[q] = row[q]
        BY <1>2, <3>1
      <3> QED BY <2>1, <2>3, <3>2 DEF Execs, Retired, Dead
    <2> QED BY <2>2, <2>3
  <1>10. ASSUME NEW s \in Runs, hist'[s].stored, ~hist[s].stored
         PROVE  /\ ~row[s].snapshot /\ ~row'[s].snapshot
                /\ \A q \in Runs :
                      /\ q < s /\ row[q].head # row[s].head
                      /\ ~row[q].snapshot
                      => Retired(row'[q])
    <2>1. s = r /\ ~row[r].snapshot
      BY <1>1, <1>3, <1>10
    <2> QED BY <1>7, <1>9, <2>1
  <1>11. VersionStep
    BY <1>4, <1>8, <1>10, HeadsNat DEF VersionStep
  <1>12. LocalInv'
    BY <1>6 DEF LocalInv, RowMove
  <1>13. SeenRecent'
    BY <1>4, <1>11, HeldForgets, SeenKept
  <1> QED BY <1>11, <1>12, <1>13, VersionsKept

LEMMA StoreContextKept ==
    ASSUME Inv, Inv', SafeInv, VersionInv, NEW p \in Procs,
           NEW complete \in BOOLEAN,
           \/ StoreCiPending(p, complete)
           \/ StoreCiTimeout(p, complete)
           \/ StoreCiReady(p, complete)
    PROVE  VersionInv'
  <1> DEFINE r == held[p].run
             t == row[r]
             w == SetWorkflow(SetOwnedStatus(t, "waiting_for_ci"), "ci")
             d == SetWorkflow(SetOwnedStatus(t, "timed_out"), "failed")
             y == SetWorkflow(SetOwnedStatus(t, "ready_for_review"),
                              "planning")
             v == [w EXCEPT !.deadline = "pending", !.due = FALSE]
             z == [y EXCEPT !.deadline = "none"]
  <1>1. ReadyToStore(p) /\ Owns(p) /\ InContextStage(p)
    BY DEF StoreCiPending, StoreCiTimeout, StoreCiReady, ReadyToStore
  <1>2. /\ r \in Runs /\ t \in Row /\ t.exec = "running" /\ ~Retired(t)
        /\ t.coverage # "stale" /\ t.plan = "none"
    BY <1>1, OwnsVersion
  <1>3. /\ Ended(w, t, "waiting_for_ci", "ci")
        /\ Ended(d, t, "timed_out", "failed")
        /\ Ended(y, t, "ready_for_review", "planning")
    BY <1>2, OwnedStatusFields, ExecFacts, NodeFacts
  <1>4. \/ AcceptContext(p, v, complete)
        \/ AcceptContext(p, d, complete)
        \/ AcceptContext(p, z, complete)
    BY DEF StoreCiPending, StoreCiTimeout, StoreCiReady
  <1> HIDE DEF w, d, y
  <1>v. /\ v.exec = "waiting_for_ci" /\ v.plan = "none"
        /\ v.coverage = t.coverage
        /\ v.snapshot = t.snapshot /\ v.head = t.head
    BY <1>2, <1>3 DEF Ended, Row
  <1>z. /\ z.exec = "ready_for_review" /\ z.plan = "none"
        /\ z.coverage = t.coverage
        /\ z.snapshot = t.snapshot /\ z.head = t.head
    BY <1>2, <1>3 DEF Ended, Row
  <1> HIDE DEF v, z
  <1>5. \A u \in {v, d, z} :
           /\ u.exec \in {"waiting_for_ci", "timed_out", "ready_for_review"}
           /\ u.plan = "none" /\ u.coverage = t.coverage
           /\ u.snapshot = t.snapshot /\ u.head = t.head
    BY <1>2, <1>3, <1>v, <1>z DEF Ended
  <1>6. ASSUME NEW u \in {v, d, z}
        PROVE  RowMove(r, u)
    <2>1. ContextRow(u)
      BY <1>5 DEF ContextRow
    <2> QED BY <1>2, <1>5, <2>1, ReleaseMove
  <1>7. \A u \in {v, d, z} : u.exec # "superseded" /\ u.snapshot = t.snapshot
    BY <1>5
  <1> QED BY <1>1, <1>4, <1>6, <1>7, AcceptKept

LEMMA StorePlanKept ==
    ASSUME Inv, Inv', SafeInv, VersionInv, NEW p \in Procs,
           StorePlan(p) \/ PauseForBudget(p) \/ StorePartialReview(p)
    PROVE  VersionInv'
  <1> DEFINE r == held[p].run
             t == row[r]
             new == HasNewer(r)
             u == SetWorkflow(SetOwnedStatus(t, "ready_for_review"),
                              "agent_batches")
             b == SetWorkflow(SetOwnedStatus(t, "ready_for_review"), "paused")
             f == SetWorkflow(SetOwnedStatus(t, "failed"), "agent_batches")
             v == [u EXCEPT !.plan = "open"]
             w == [b EXCEPT !.pausedFrom = "agent_batches"]
             x == [f EXCEPT !.snapshot = @ \/ new, !.coverage = "partial"]
  <1>1. Owns(p) /\ StoredStays /\ ghHead' = ghHead
    BY DEF StorePlan, PauseForBudget, StorePartialReview, StoredStays
  <1>2. /\ r \in Runs /\ t \in Row /\ t.exec = "running" /\ ~Retired(t)
        /\ t.coverage # "stale"
    BY <1>1, OwnsVersion
  <1>3. /\ Ended(u, t, "ready_for_review", "agent_batches")
        /\ Ended(b, t, "ready_for_review", "paused")
        /\ Ended(f, t, "failed", "agent_batches")
    BY <1>2, OwnedStatusFields, ExecFacts, NodeFacts
  <1>4. Finish(p, v) \/ Finish(p, w) \/ Finish(p, x)
    BY DEF StorePlan, PauseForBudget, StorePartialReview
  <1>n. new \in BOOLEAN /\ (new => HasNewer(r))
    BY DEF HasNewer
  <1> HIDE DEF u, b, f, new
  <1>5. /\ v.exec = "ready_for_review" /\ v.wf = "agent_batches"
        /\ v.coverage = t.coverage /\ v.snapshot = t.snapshot
        /\ v.head = t.head
        /\ w.exec = "ready_for_review" /\ w.wf = "paused"
        /\ w.pausedFrom = "agent_batches"
        /\ w.coverage = t.coverage /\ w.snapshot = t.snapshot
        /\ w.head = t.head
    BY <1>3 DEF Ended, Row
  <1>6. /\ x.exec = "failed" /\ x.wf = "agent_batches"
        /\ x.coverage = "partial" /\ x.snapshot = (t.snapshot \/ new)
        /\ x.head = t.head
    BY <1>3 DEF Ended, Row
  <1> HIDE DEF v, w, x
  <1>7. RowMove(r, v) /\ RowMove(r, w)
    <2>1. ContextRow(v) /\ ContextRow(w)
      BY <1>5 DEF ContextRow
    <2> QED BY <1>2, <1>5, <2>1, ReleaseMove
  <1>8. RowMove(r, x)
    <2>1. ContextRow(x)
      BY <1>6 DEF ContextRow
    <2> QED BY <1>2, <1>6, <1>n, <2>1, ReleaseMove
  <1> QED BY <1>1, <1>4, <1>7, <1>8, FinishKept

LEMMA StoreReviewKept ==
    ASSUME Inv, Inv', SafeInv, VersionInv, NEW p \in Procs,
           NEW c \in {"complete", "partial"}, StoreReview(p, c)
    PROVE  VersionInv'
  <1> DEFINE r == held[p].run
             t == row[r]
             old == t.snapshot \/ HasNewer(r)
             n == IF old THEN "completed" ELSE "awaiting_approval"
             u == SetWorkflow(SetOwnedStatus(t, "completed"), n)
             v == [u EXCEPT !.plan = "done", !.snapshot = old, !.coverage = c]
  <1>1. Owns(p) /\ ghHead' = ghHead /\ Finish(p, v)
    BY DEF StoreReview
  <1>2. /\ r \in Runs /\ t \in Row /\ t.exec = "running" /\ ~Retired(t)
    BY <1>1, OwnsVersion
  <1>3. StoredStays
    BY <1>2, StoredSame DEF StoreReview
  <1>4. Ended(u, t, "completed", n) /\ n \in {"completed", "awaiting_approval"}
    BY <1>2, OwnedStatusFields, ExecFacts, NodeFacts
  <1>5. (t.snapshot => old) /\ (old => t.snapshot \/ HasNewer(r))
    OBVIOUS
  <1> HIDE DEF u, n, old
  <1>6. /\ v.exec = "completed" /\ v.wf = n /\ v.coverage = c
        /\ v.snapshot = old /\ v.head = t.head
    BY <1>4 DEF Ended, Row
  <1> HIDE DEF v
  <1>7. ContextRow(v)
    BY <1>4, <1>6 DEF ContextRow
  <1>8. RowMove(r, v)
    BY <1>2, <1>5, <1>6, <1>7, ReleaseMove
  <1> QED BY <1>1, <1>3, <1>8, FinishKept

\* A renewal, the passing of time and EXPEDITE touch no field that matters.
LEMMA TouchMove ==
    ASSUME Inv, VersionInv, NEW r \in Runs, row[r].exec # "absent",
           NEW u, u \in {[row[r] EXCEPT !.lease = "live"],
                         [row[r] EXCEPT !.lease = "expired"],
                         [row[r] EXCEPT !.due = TRUE],
                         [row[r] EXCEPT !.deadline = "passed"]}
    PROVE  RowMove(r, u)
  <1>1. /\ u.exec = row[r].exec /\ u.wf = row[r].wf
        /\ u.pausedFrom = row[r].pausedFrom /\ u.plan = row[r].plan
        /\ u.claimedFrom = row[r].claimedFrom
        /\ u.coverage = row[r].coverage /\ u.snapshot = row[r].snapshot
        /\ u.head = row[r].head
    BY HeadsNat DEF Row
  <1>2. LocalRow(u)
    BY <1>1 DEF VersionInv, LocalInv, LocalRow, ContextRow, StaleRow
  <1> QED BY <1>1, <1>2 DEF RowMove, VersionInv, OnlyOldIsHistory,
                            OnlyStaleSuperseded, Retired

\* A step that changes no row and at most forgets a lease.
LEMMA NoRowKept ==
    ASSUME Inv, Inv', SafeInv, VersionInv, row' = row, hist' = hist,
           ghHead' \in Int, ghHead <= ghHead',
           \A p \in Procs : held'[p] = held[p] \/ held'[p] = NoLease
    PROVE  VersionInv'
  <1>1. VersionStep /\ LocalInv'
    BY NoRowVersion DEF StoredStays
  <1> QED BY <1>1, VersionsKept, SeenKept DEF VersionInv

LEMMA MarkAggregatingKept ==
    ASSUME Inv, Inv', SafeInv, VersionInv, NEW p \in Procs,
           MarkAggregating(p)
    PROVE  VersionInv'
  <1> DEFINE r == held[p].run
             t == row[r]
             u == SetWorkflow(t, "aggregating")
  <1>1. Owns(p) /\ ghHead' = ghHead /\ held' = held /\ StoredStays
        /\ row' = [row EXCEPT ![r] = u]
    BY DEF MarkAggregating, StoredStays
  <1>2. /\ r \in Runs /\ t \in Row /\ t.exec = "running" /\ ~Retired(t)
        /\ t.coverage # "stale" /\ LocalRow(t)
    BY <1>1, OwnsVersion
  <1>3. /\ u.exec = t.exec /\ u.wf = "aggregating" /\ u.plan = t.plan
        /\ u.claimedFrom = t.claimedFrom /\ u.coverage = t.coverage
        /\ u.snapshot = t.snapshot /\ u.head = t.head
    BY <1>2 DEF SetWorkflow, Row
  <1> HIDE DEF u
  <1>4. ContextRow(u)
    BY <1>2, <1>3 DEF LocalRow, ContextRow
  <1>5. RowMove(r, u)
    BY <1>2, <1>3, <1>4, ReleaseMove
  <1> QED BY <1>1, <1>2, <1>5, OneRowKept

\* What _reschedule_or_fail leaves alone.
LEMMA RescheduledVersion ==
    ASSUME NEW t, GoodRow(t), t.exec = "running", NEW kind
    PROVE  LET u == RescheduleOrFail(t, kind)
           IN  /\ u.coverage = t.coverage /\ u.snapshot = t.snapshot
               /\ u.head = t.head
  <1> DEFINE busy == kind = "batch_busy" /\ IsModelStage(t)
             models == IF busy THEN t.models - 1 ELSE t.models
             spent == IF IsModelStage(t) THEN models ELSE t.attempts
             fails == kind = "permanent" \/ (spent >= MaxAttempts /\ ~busy)
             u == [Unleased(t) EXCEPT !.models = models]
             v == SetWorkflow([u EXCEPT !.exec = "failed"], "failed")
             w == [u EXCEPT !.exec = t.claimedFrom, !.due = FALSE]
  <1>1. RescheduleOrFail(t, kind) = IF fails THEN v ELSE w
    BY DEF RescheduleOrFail
  <1> HIDE DEF spent, models, fails, busy
  <1>2. v.coverage = t.coverage /\ v.snapshot = t.snapshot /\ v.head = t.head
    BY DEF GoodRow, Row, Unleased, SetWorkflow
  <1>3. w.coverage = t.coverage /\ w.snapshot = t.snapshot /\ w.head = t.head
    BY DEF GoodRow, Row, Unleased
  <1> HIDE DEF v, w
  <1> QED BY <1>1, <1>2, <1>3

\* A task that is rescheduled, or fails, after an error.
LEMMA RescheduledMove ==
    ASSUME Inv, VersionInv, NEW r \in Runs, row[r].exec = "running", NEW kind
    PROVE  RowMove(r, RescheduleOrFail(row[r], kind))
  <1> DEFINE t == row[r]
             u == RescheduleOrFail(t, kind)
  <1>1. GoodRow(t) /\ LocalRow(t)
    BY InvRows DEF VersionInv, LocalInv
  <1>2. t.wf # "paused" /\ t.claimedFrom \in Claimables
    BY <1>1 DEF GoodRow, Consistent, Row
  <1>3. /\ u.plan = t.plan
        /\ \/ u.exec = "failed" /\ u.wf = "failed"
           \/ u.exec = t.claimedFrom /\ u.wf = t.wf
    BY <1>1, RescheduledFields
  <1>4. u.coverage = t.coverage /\ u.snapshot = t.snapshot /\ u.head = t.head
    BY <1>1, RescheduledVersion
  <1> HIDE DEF u
  <1>5. ContextRow(u)
    BY <1>1, <1>2, <1>3 DEF LocalRow, ContextRow
  <1>6. /\ t.exec # "absent" /\ ~Retired(t) /\ t.coverage # "stale"
        /\ u.exec \notin {"absent", "superseded"}
    BY <1>1, <1>2, <1>3
       DEF Retired, Dead, LocalRow, StaleRow, Claimables
  <1>7. RowMove(r, u)
    BY <1>4, <1>5, <1>6, ReleaseMove
  <1> QED BY <1>7 DEF u

LEMMA ReportErrorKept ==
    ASSUME Inv, Inv', SafeInv, VersionInv, NEW p \in Procs, NEW kind,
           ReportError(p, kind)
    PROVE  VersionInv'
  <1> DEFINE r == held[p].run
             t == RescheduleOrFail(row[r], kind)
  <1>1. Owns(p) /\ ghHead' = ghHead /\ Finish(p, t)
    BY DEF ReportError
  <1>2. r \in Runs /\ row[r].exec = "running"
    BY <1>1, OwnsVersion
  <1>3. RowMove(r, t)
    BY <1>2, RescheduledMove
  <1>4. StoredStays
    BY <1>2, StoredSame DEF ReportError
  <1> HIDE DEF t
  <1> QED BY <1>1, <1>3, <1>4, FinishKept

LEMMA RecoverKept ==
    ASSUME Inv, Inv', SafeInv, VersionInv, NEW r \in Runs, Recover(r)
    PROVE  VersionInv'
  <1> DEFINE t == RescheduleOrFail(row[r], "retryable")
  <1>1. /\ row[r].exec = "running" /\ ghHead' = ghHead /\ held' = held
        /\ row' = [row EXCEPT ![r] = t]
    BY DEF Recover
  <1>2. RowMove(r, t)
    BY <1>1, RescheduledMove
  <1>3. StoredStays
    BY StoredSame DEF Recover
  <1> HIDE DEF t
  <1> QED BY <1>1, <1>2, <1>3, OneRowKept

\* A claim reads nothing from GitHub yet.
LEMMA ClaimKept ==
    ASSUME Inv, Inv', SafeInv, VersionInv, NEW p \in Procs, NEW r \in Runs,
           Claim(p, r)
    PROVE  VersionInv'
  <1> DEFINE t == row[r]
             u == ClaimedBy(t, WorkerOf[p])
  <1>1. /\ t \in Row /\ LocalRow(t) /\ t.exec \in Claimables
        /\ t.wf # "paused"
    BY HeadsNat DEF VersionInv, LocalInv, Claim, Claimable
  <1>2. row' = [row EXCEPT ![r] = u] /\ ghHead' = ghHead
    BY DEF Claim
  <1>3. StoredStays
    BY StoredSame DEF Claim
  <1>4. /\ held'[p].run = r /\ held'[p].seen = 0
        /\ \A q \in Procs : q # p => held'[q] = held[q]
    BY InvRows DEF Claim
  <1>5. /\ u.exec = "running" /\ u.wf = t.wf /\ u.plan = t.plan
        /\ u.claimedFrom = t.exec /\ u.coverage = t.coverage
        /\ u.snapshot = t.snapshot /\ u.head = t.head
    BY <1>1 DEF ClaimedBy, Row
  <1> HIDE DEF u
  <1>6. ContextRow(u)
    BY <1>1, <1>5 DEF LocalRow, ContextRow, Claimables
  <1>7. t.exec # "absent" /\ ~Retired(t) /\ t.coverage # "stale"
    BY <1>1 DEF Retired, Dead, LocalRow, StaleRow, Claimables
  <1>8. RowMove(r, u)
    BY <1>5, <1>6, <1>7, ReleaseMove
  <1>9. VersionStep /\ LocalInv'
    BY <1>2, <1>3, <1>8, OneRowVersion
  <1>10. Exists(r)'
    BY <1>7, <1>9 DEF VersionStep, Exists
  <1>11. SeenRecent'
    <2> SUFFICES ASSUME NEW q \in Procs, held'[q].run # 0
                 PROVE  /\ row'[held'[q].run].exec # "absent"
                        /\ held'[q].seen # 0
                              => /\ row'[held'[q].run].head <= held'[q].seen
                                 /\ held'[q].seen <= ghHead'
      BY DEF SeenRecent, Exists
    <2>1. CASE q = p
      BY <1>4, <1>10, <2>1 DEF Exists
    <2>2. CASE q # p
      BY <1>4, <1>9, <2>2, SeenSame DEF Exists
    <2> QED BY <2>1, <2>2
  <1> QED BY <1>9, <1>11, VersionsKept DEF VersionInv

\* What is read from GitHub is its head at that moment.
LEMMA LoadContextKept ==
    ASSUME Inv, Inv', SafeInv, VersionInv, NEW p \in Procs, LoadContext(p)
    PROVE  VersionInv'
  <1>1. /\ row' = row /\ hist' = hist /\ ghHead' = ghHead /\ Owns(p)
        /\ held' = [held EXCEPT ![p].seen = ghHead]
    BY DEF LoadContext
  <1>2. VersionStep /\ LocalInv'
    BY <1>1, HeadsNat, NoRowVersion DEF StoredStays
  <1>3. /\ held'[p].run = held[p].run /\ held'[p].seen = ghHead
        /\ \A q \in Procs : q # p => held'[q] = held[q]
    BY <1>1, InvRows DEF Lease
  <1>4. held[p].run \in Runs /\ row[held[p].run].exec = "running"
    BY <1>1, OwnsVersion
  <1>5. row[held[p].run].head <= ghHead /\ ghHead <= ghHead
    BY <1>4, HeadsNat DEF VersionInv, InOrder
  <1>6. SeenRecent'
    <2> SUFFICES ASSUME NEW q \in Procs, held'[q].run # 0
                 PROVE  /\ row'[held'[q].run].exec # "absent"
                        /\ held'[q].seen # 0
                              => /\ row'[held'[q].run].head <= held'[q].seen
                                 /\ held'[q].seen <= ghHead'
      BY DEF SeenRecent, Exists
    <2>1. CASE q = p
      BY <1>1, <1>3, <1>4, <1>5, <2>1
    <2>2. CASE q # p
      BY <1>2, <1>3, <2>2, SeenSame DEF Exists
    <2> QED BY <2>1, <2>2
  <1> QED BY <1>2, <1>6, VersionsKept DEF VersionInv

LEMMA WorkerKept ==
    ASSUME Inv, Inv', SafeInv, VersionInv, NEW p \in Procs,
           Poll(p) \/ Renew(p) \/ Work(p) \/ Crash(p)
    PROVE  VersionInv'
  <1>1. CASE Renew(p)
    <2> DEFINE r == held[p].run
               t == [row[r] EXCEPT !.lease = "live"]
    <2>1. r \in Runs /\ row[r].exec = "running"
      BY <1>1, OwnsVersion DEF Renew
    <2>2. RowMove(r, t)
      BY <2>1, TouchMove
    <2>3. row' = [row EXCEPT ![r] = t] /\ StoredStays /\ ghHead' = ghHead
          /\ held' = held
      BY <1>1 DEF Renew, StoredStays
    <2> HIDE DEF t
    <2> QED BY <2>1, <2>2, <2>3, OneRowKept
  <1>2. CASE LoseLease(p) \/ Crash(p)
    <2>1. /\ row' = row /\ hist' = hist /\ ghHead' = ghHead
          /\ held' = [held EXCEPT ![p] = NoLease]
      BY <1>2 DEF LoseLease, Crash
    <2>2. \A q \in Procs : held'[q] = held[q] \/ held'[q] = NoLease
      BY <2>1, HeldForgets
    <2>3. ghHead' \in Int /\ ghHead <= ghHead'
      BY <2>1, HeadsNat
    <2> QED BY <2>1, <2>2, <2>3, NoRowKept
  <1>3. ASSUME NEW c \in BOOLEAN,
               \/ StoreCiPending(p, c) \/ StoreCiTimeout(p, c)
               \/ StoreCiReady(p, c)
        PROVE  VersionInv'
    BY <1>3, StoreContextKept
  <1>4. CASE \E r \in Runs : Claim(p, r)
    BY <1>4, ClaimKept
  <1>5. CASE LoadContext(p) \/ MarkAggregating(p)
    BY <1>5, LoadContextKept, MarkAggregatingKept
  <1>6. CASE \/ StoreHeadMismatch(p) \/ StoreNotReviewable(p)
             \/ StorePlanStale(p)
    BY <1>6, StoreEndsKept
  <1>7. CASE StorePlan(p) \/ PauseForBudget(p) \/ StorePartialReview(p)
    BY <1>7, StorePlanKept
  <1>8. CASE \E c \in {"complete", "partial"} : StoreReview(p, c)
    BY <1>8, StoreReviewKept
  <1>9. CASE \E kind \in {"retryable", "permanent", "batch_busy"} :
                ReportError(p, kind)
    BY <1>9, ReportErrorKept
  <1> QED BY <1>1, <1>2, <1>3, <1>4, <1>5, <1>6, <1>7, <1>8, <1>9
          DEF Poll, Work, Stored

-----------------------------------------------------------------------------
(* The clock and the operators.                                            *)

LEMMA ClockKept ==
    ASSUME Inv, Inv', SafeInv, VersionInv, Clock
    PROVE  VersionInv'
  <1> PICK r \in Runs : \/ ExpireAbandoned(r) \/ MissRenewal(r)
                        \/ BecomeDue(r) \/ DeadlinePasses(r)
    BY DEF Clock
  <1>1. PICK t \in {[row[r] EXCEPT !.lease = "expired"],
                    [row[r] EXCEPT !.due = TRUE],
                    [row[r] EXCEPT !.deadline = "passed"]} :
            /\ row' = [row EXCEPT ![r] = t] /\ hist' = hist
            /\ held' = held /\ ghHead' = ghHead
    BY DEF ExpireAbandoned, MissRenewal, Expired, BecomeDue, DeadlinePasses
  <1>2. row[r].exec # "absent"
    <2>1. CASE DeadlinePasses(r)
      BY <2>1 DEF DeadlinePasses, SafeInv, SafeRow, Unborn, NoRow
    <2>2. CASE ExpireAbandoned(r) \/ MissRenewal(r) \/ BecomeDue(r)
      BY <2>2 DEF ExpireAbandoned, MissRenewal, Expired, BecomeDue
    <2> QED BY <2>1, <2>2
  <1>3. RowMove(r, t)
    BY <1>1, <1>2, TouchMove
  <1>4. StoredStays
    BY <1>1 DEF StoredStays
  <1> QED BY <1>1, <1>3, <1>4, OneRowKept

\* A request on one run that writes its row.
LEMMA OperateKept ==
    ASSUME Inv, Inv', SafeInv, VersionInv, NEW r \in Runs, NEW t, NEW kind,
           Operate(kind, r, t), RowMove(r, t), StoredStays
    PROVE  VersionInv'
  BY OneRowKept DEF Operate

\* START, APPROVE and REJECT move a run that is not stale to another node.
LEMMA NodeActionsKept ==
    ASSUME Inv, Inv', SafeInv, VersionInv, NEW r \in Runs,
           Start(r) \/ Approve(r) \/ Reject(r)
    PROVE  VersionInv'
  <1> DEFINE o == row[r]
             t(n) == [o EXCEPT !.wf = n, !.pausedFrom = "none"]
  <1>1. o \in Row /\ LocalRow(o)
    BY HeadsNat DEF VersionInv, LocalInv
  <1>2. StoredStays
    BY StoredSame DEF Start, Approve, Reject
  <1>3. ASSUME NEW n \in {"ci", "awaiting_publish", "rejected"}, NEW kind,
               Operate(kind, r, t(n)), n = "ci" => o.wf = "queued",
               o.wf \in {"queued", "awaiting_approval", "awaiting_publish"}
        PROVE  VersionInv'
    <2> DEFINE u == t(n)
    <2>1. /\ u.exec = o.exec /\ u.wf = n /\ u.plan = o.plan
          /\ u.claimedFrom = o.claimedFrom /\ u.coverage = o.coverage
          /\ u.snapshot = o.snapshot /\ u.head = o.head
      BY <1>1 DEF Row
    <2>2. Operate(kind, r, u) /\ o.exec # "absent"
      BY <1>3 DEF Operate
    <2> HIDE DEF u, t
    <2>3. LocalRow(u)
      BY <1>1, <1>3, <2>1 DEF LocalRow, ContextRow, StaleRow
    <2>4. o.wf # "paused" /\ n # "paused" /\ o.coverage # "stale"
      BY <1>1, <1>3 DEF LocalRow, StaleRow
    <2>5. RowMove(r, u)
      BY <2>1, <2>2, <2>3, <2>4
         DEF RowMove, Retired, VersionInv, OnlyStaleSuperseded
    <2> QED BY <1>2, <2>2, <2>5, OperateKept
  <1>4. CASE Start(r)
    <2>1. Operate("start", r, t("ci")) /\ o.wf = "queued"
      BY <1>4 DEF Start
    <2> QED BY <1>3, <2>1
  <1>5. CASE Approve(r)
    <2>1. /\ Operate("approve", r, t("awaiting_publish"))
          /\ o.wf = "awaiting_approval"
      BY <1>5 DEF Approve
    <2> QED BY <1>3, <2>1
  <1>6. CASE Reject(r)
    <2>1. /\ Operate("reject", r, t("rejected"))
          /\ o.wf \in {"awaiting_approval", "awaiting_publish"}
      BY <1>6 DEF Reject
    <2> QED BY <1>3, <2>1
  <1> QED BY <1>4, <1>5, <1>6

LEMMA PauseKept ==
    ASSUME Inv, Inv', SafeInv, VersionInv, NEW r \in Runs, Pause(r)
    PROVE  VersionInv'
  <1> DEFINE o == row[r]
             node == o.wf
             e == PausedExec(node, o.exec)
             u == Unleased(o)
             t == [u EXCEPT !.wf = "paused", !.pausedFrom = node,
                            !.due = TRUE, !.exec = e]
  <1>1. o \in Row /\ LocalRow(o)
    BY HeadsNat DEF VersionInv, LocalInv
  <1>2. Operate("pause", r, t) /\ node \in Resumables /\ o.exec # "absent"
    BY DEF Pause, Operate
  <1>3. StoredStays
    BY StoredSame DEF Pause
  <1>4. /\ u \in Row /\ u.plan = o.plan /\ u.coverage = o.coverage
        /\ u.snapshot = o.snapshot /\ u.head = o.head
    BY <1>1, UnleasedFields
  <1>e. e = PausedExec(node, o.exec)
    OBVIOUS
  <1> HIDE DEF u, e
  <1>5. /\ t.exec = e /\ t.wf = "paused" /\ t.pausedFrom = node
        /\ t.plan = o.plan /\ t.coverage = o.coverage
        /\ t.snapshot = o.snapshot /\ t.head = o.head
    BY <1>4 DEF Row
  <1> HIDE DEF t
  <1>6. /\ e # "absent" /\ e # "running"
        /\ e = "superseded" => o.exec = "superseded"
        /\ e \in {"queued", "waiting_for_ci"}
              => \/ node \in {"queued", "ci"}
                 \/ o.exec \in {"queued", "waiting_for_ci"}
    BY <1>2, <1>e DEF PausedExec
  <1>7. ContextRow(t)
    BY <1>1, <1>2, <1>5, <1>6
       DEF LocalRow, ContextRow, Resumables, ModelNodes
  <1>8. o.coverage # "stale" /\ Retired(t)
    BY <1>1, <1>2, <1>5
       DEF LocalRow, StaleRow, Resumables, ModelNodes, Retired
  <1>9. LocalRow(t)
    BY <1>5, <1>7, <1>8 DEF LocalRow, StaleRow
  <1>10. RowMove(r, t)
    BY <1>2, <1>5, <1>6, <1>8, <1>9
       DEF RowMove, VersionInv, OnlyStaleSuperseded
  <1> QED BY <1>2, <1>3, <1>10, OperateKept

LEMMA CancelKept ==
    ASSUME Inv, Inv', SafeInv, VersionInv, NEW r \in Runs, Cancel(r)
    PROVE  VersionInv'
  <1> DEFINE o == row[r]
             u == Unleased(o)
             t == [u EXCEPT !.exec = "cancelled", !.wf = "cancelled",
                            !.pausedFrom = "none"]
  <1>1. o \in Row /\ LocalRow(o)
    BY HeadsNat DEF VersionInv, LocalInv
  <1>2. Operate("cancel", r, t) /\ o.exec # "absent" /\ o.exec # "superseded"
    BY DEF Cancel, Operate, Claimables
  <1>3. StoredStays
    BY StoredSame DEF Cancel
  <1>4. /\ u \in Row /\ u.plan = o.plan /\ u.coverage = o.coverage
        /\ u.snapshot = o.snapshot /\ u.head = o.head
    BY <1>1, UnleasedFields
  <1> HIDE DEF u
  <1>5. /\ t.exec = "cancelled" /\ t.wf = "cancelled"
        /\ t.plan = o.plan /\ t.coverage = o.coverage
        /\ t.snapshot = o.snapshot /\ t.head = o.head
    BY <1>4 DEF Row
  <1> HIDE DEF t
  <1>6. o.coverage # "stale" /\ ContextRow(t) /\ Retired(t)
    BY <1>1, <1>2, <1>5 DEF LocalRow, StaleRow, ContextRow, Retired, Dead
  <1>7. RowMove(r, t)
    BY <1>2, <1>5, <1>6 DEF RowMove, LocalRow, StaleRow
  <1> QED BY <1>2, <1>3, <1>7, OperateKept

LEMMA ExpediteKept ==
    ASSUME Inv, Inv', SafeInv, VersionInv, NEW r \in Runs, Expedite(r)
    PROVE  VersionInv'
  <1> DEFINE t == [row[r] EXCEPT !.due = TRUE]
  <1>1. Operate("expedite", r, t) /\ row[r].exec # "absent"
    BY DEF Expedite, Operate
  <1>2. RowMove(r, t)
    BY <1>1, TouchMove
  <1>3. StoredStays
    BY StoredSame DEF Expedite
  <1> HIDE DEF t
  <1> QED BY <1>1, <1>2, <1>3, OperateKept

\* A retry of an outdated run goes on as history, and only such a run turns
\* into history.
LEMMA RefreshedVersion ==
    ASSUME Inv, VersionInv, NEW r \in Runs,
           row[r].coverage # "stale" \/ row[r].plan # "none"
    PROVE  LET t == Refreshed(r)
           IN  /\ row[r].snapshot => t.snapshot
               /\ t.snapshot /\ ~row[r].snapshot => HasNewer(r)
               /\ t.snapshot \/ ~HasNewer(r)
               /\ row[r].coverage # "stale" => t.coverage # "stale"
  <1> DEFINE o == row[r]
             v == [o EXCEPT !.snapshot = TRUE, !.coverage = "partial"]
  <1>1. o \in Row /\ o.snapshot \in BOOLEAN
    BY HeadsNat DEF Row
  <1>2. Refreshed(r) = IF Outdated(r) THEN v ELSE o
    BY DEF Refreshed
  <1>3. v.snapshot /\ v.coverage = "partial"
    BY <1>1 DEF Row
  <1>4. Outdated(r) => HasNewer(r)
    BY DEF Outdated, VersionInv, OnlyOldIsHistory
  <1>5. ~Outdated(r) => o.snapshot \/ ~HasNewer(r)
    BY DEF Outdated
  <1> HIDE DEF v
  <1> QED BY <1>2, <1>3, <1>4, <1>5

\* What a retry, a stage retry or a resume makes of a run is such a move.
LEMMA AgainMove ==
    ASSUME Inv, VersionInv, NEW r \in Runs, NEW t, row[r].exec # "absent",
           row[r].coverage # "stale" \/ row[r].plan # "none",
           t.exec # "absent", t.exec = "superseded" => row[r].exec = "superseded",
           t.head = row[r].head, t.snapshot = Refreshed(r).snapshot,
           t.coverage # "stale", ContextRow(t)
    PROVE  RowMove(r, t)
  <1>1. /\ row[r].snapshot => t.snapshot
        /\ t.snapshot /\ ~row[r].snapshot => HasNewer(r)
        /\ t.snapshot \/ ~HasNewer(r)
    BY RefreshedVersion
  <1>2. LocalRow(t)
    BY DEF LocalRow, StaleRow
  <1> QED BY <1>1, <1>2 DEF RowMove, VersionInv, OnlyStaleSuperseded

\* A resume leads back before the plan only a run that was paused there.
LEMMA ResumeKept ==
    ASSUME NoContextTarget, Inv, Inv', SafeInv, VersionInv, NEW r \in Runs,
           NEW explicit \in ResumeTargets \union {"none"},
           Resume(r, explicit)
    PROVE  VersionInv'
  <1> DEFINE o == row[r]
             v == Refreshed(r)
             u == Unleased(v)
             default == IF o.pausedFrom = "none" THEN "ci" ELSE o.pausedFrom
             target == IF explicit = "none" THEN default ELSE explicit
             e == ResumedExec(target, o.exec)
             t == [u EXCEPT !.wf = target, !.pausedFrom = "none",
                            !.due = TRUE, !.exec = e]
  <1>1. o \in Row /\ LocalRow(o)
    BY HeadsNat DEF VersionInv, LocalInv
  <1>2. /\ Operate("resume", r, t) /\ o.wf = "paused"
        /\ target \in Resumables /\ o.exec # "absent"
    BY DEF Resume, Operate
  <1>3. StoredStays
    BY StoredSame DEF Resume
  <1>4. o.coverage # "stale"
    BY <1>1, <1>2 DEF LocalRow, StaleRow
  <1>5. /\ v \in Row /\ v.plan = o.plan /\ v.head = o.head
        /\ v.coverage # "stale"
    BY <1>4, RefreshedFields, RefreshedVersion
  <1>6. /\ u \in Row /\ u.plan = o.plan /\ u.coverage # "stale"
        /\ u.snapshot = v.snapshot /\ u.head = o.head
    BY <1>5, UnleasedFields
  <1>7. /\ e # "absent" /\ e # "running"
        /\ e = "superseded" => o.exec = "superseded"
        /\ e \in {"queued", "waiting_for_ci"}
              => \/ target \in {"queued", "ci"}
                 \/ o.exec \in {"queued", "waiting_for_ci"}
    BY <1>2 DEF ResumedExec
  <1>8. target \in {"queued", "ci"} => o.pausedFrom \in {"none", "queued", "ci"}
    BY DEF NoContextTarget
  <1> HIDE DEF u, v, e, target
  <1>9. /\ t.exec = e /\ t.wf = target /\ t.plan = o.plan
        /\ t.coverage = u.coverage /\ t.snapshot = v.snapshot
        /\ t.head = o.head
    BY <1>6 DEF Row
  <1> HIDE DEF t
  <1>10. target # "paused"
    BY <1>2 DEF Resumables, ModelNodes
  <1>11. ContextRow(t)
    BY <1>1, <1>2, <1>7, <1>8, <1>9, <1>10 DEF LocalRow, ContextRow
  <1>12. RowMove(r, t)
    BY <1>2, <1>4, <1>6, <1>7, <1>9, <1>11, AgainMove DEF v
  <1> QED BY <1>2, <1>3, <1>12, OperateKept

LEMMA RetryStageKept ==
    ASSUME Inv, Inv', SafeInv, VersionInv, NEW r \in Runs,
           NEW target \in Retryables, RetryStage(r, target)
    PROVE  VersionInv'
  <1> DEFINE o == row[r]
             v == Refreshed(r)
             w == StageReset(v, target)
             u == Unleased(w)
             e == IF target = "ci" THEN "queued" ELSE "ready_for_review"
             t == [u EXCEPT !.wf = target, !.pausedFrom = "none",
                            !.due = TRUE, !.exec = e]
  <1>1. o \in Row /\ LocalRow(o)
    BY HeadsNat DEF VersionInv, LocalInv
  <1>2. /\ Operate("retry_stage", r, t) /\ o.exec # "absent"
        /\ o.plan # "none"
    BY DEF RetryStage, Operate
  <1>3. StoredStays
    BY StoredSame DEF RetryStage
  <1>4. o.coverage # "stale"
    BY <1>1 DEF RetryStage, LocalRow, StaleRow
  <1>5. v \in Row /\ v.head = o.head /\ v.coverage # "stale"
    BY <1>4, RefreshedFields, RefreshedVersion
  <1>6. /\ w \in Row /\ w.head = o.head /\ w.snapshot = v.snapshot
        /\ w.coverage # "stale"
        /\ target \in {"ci", "planning"} => w.plan = "none"
    <2> HIDE DEF v
    <2> DEFINE x == [v EXCEPT !.plan = "none", !.coverage = "unknown",
                              !.polls = 0, !.deadline = "none"]
               y == [v EXCEPT !.plan = "none", !.coverage = "unknown"]
               z == [v EXCEPT !.plan = "open"]
               Good(a) == /\ a \in Row /\ a.head = o.head
                          /\ a.snapshot = v.snapshot
                          /\ a.coverage # "stale"
    <2>1. Good(x) /\ x.plan = "none"
      BY <1>5, FieldFacts DEF Row
    <2>2. Good(y) /\ y.plan = "none"
      BY <1>5, FieldFacts DEF Row
    <2>3. Good(z)
      BY <1>5, FieldFacts DEF Row
    <2>4. /\ target = "ci" => w = x
          /\ target = "planning" => w = y
          /\ target \notin {"ci", "planning"} => w = z
      BY DEF StageReset
    <2> HIDE DEF w, x, y, z
    <2> QED BY <2>1, <2>2, <2>3, <2>4
  <1> HIDE DEF v, w
  <1>7. /\ u \in Row /\ u.plan = w.plan /\ u.coverage # "stale"
        /\ u.snapshot = v.snapshot /\ u.head = o.head
    BY <1>6, UnleasedFields
  <1>8. /\ e \in {"queued", "ready_for_review"}
        /\ e = "queued" => target = "ci"
        /\ target \notin {"queued", "paused"}
    BY DEF Retryables, ModelNodes
  <1> HIDE DEF u, e
  <1>9. /\ t.exec = e /\ t.wf = target /\ t.plan = w.plan
        /\ t.coverage = u.coverage /\ t.snapshot = v.snapshot
        /\ t.head = o.head
    BY <1>7 DEF Row
  <1> HIDE DEF t
  <1>10. ContextRow(t)
    BY <1>6, <1>8, <1>9 DEF ContextRow
  <1>11. RowMove(r, t)
    BY <1>2, <1>4, <1>7, <1>8, <1>9, <1>10, AgainMove DEF v
  <1> QED BY <1>2, <1>3, <1>11, OperateKept

LEMMA RetryKept ==
    ASSUME Inv, Inv', SafeInv, VersionInv, NEW r \in Runs, Retry(r)
    PROVE  VersionInv'
  <1> DEFINE o == row[r]
             v == Refreshed(r)
             u == Unleased(v)
             e == IF v.plan # "none" \/ v.snapshot
                  THEN "ready_for_review" ELSE "queued"
             n == IF v.plan # "none" THEN "agent_batches"
                  ELSE IF v.snapshot THEN "planning" ELSE "queued"
             t == [u EXCEPT !.exec = e, !.wf = n, !.attempts = 0,
                            !.models = 0, !.polls = 0, !.due = TRUE]
  <1>1. o \in Row /\ LocalRow(o)
    BY HeadsNat DEF VersionInv, LocalInv
  <1>2. /\ Operate("retry", r, t) /\ o.exec \in {"failed", "timed_out"}
    BY DEF Retry
  <1>3. StoredStays
    BY StoredSame DEF Retry
  <1>4. o.coverage # "stale"
    BY <1>1, <1>2 DEF LocalRow, StaleRow
  <1>5. /\ v \in Row /\ v.plan = o.plan /\ v.head = o.head
        /\ v.coverage # "stale"
    BY <1>4, RefreshedFields, RefreshedVersion
  <1>6. /\ u \in Row /\ u.plan = o.plan /\ u.coverage # "stale"
        /\ u.snapshot = v.snapshot /\ u.head = o.head
    BY <1>5, UnleasedFields
  <1>7. /\ e \in {"queued", "ready_for_review"}
        /\ e = "queued" => o.plan = "none"
        /\ n \in {"agent_batches", "planning", "queued"}
        /\ n = "queued" => o.plan = "none"
    BY <1>5
  <1> HIDE DEF u, v, e, n
  <1>8. /\ t.exec = e /\ t.wf = n /\ t.plan = o.plan
        /\ t.coverage = u.coverage /\ t.snapshot = v.snapshot
        /\ t.head = o.head
    BY <1>6 DEF Row
  <1> HIDE DEF t
  <1>9. ContextRow(t)
    BY <1>7, <1>8 DEF ContextRow
  <1>10. RowMove(r, t)
    BY <1>2, <1>4, <1>6, <1>7, <1>8, <1>9, AgainMove DEF v
  <1> QED BY <1>2, <1>3, <1>10, OperateKept

LEMMA RetryFailedNodeKept ==
    ASSUME Inv, Inv', SafeInv, VersionInv, NEW r \in Runs,
           NEW c \in {"complete", "partial"}, RetryFailedNode(r, c)
    PROVE  VersionInv'
  <1> DEFINE o == row[r]
             v == Refreshed(r)
             u == Unleased(v)
             t == [u EXCEPT !.exec = "ready_for_review",
                            !.wf = "agent_batches", !.pausedFrom = "none",
                            !.due = TRUE, !.plan = "open", !.coverage = c]
  <1>1. /\ Operate("retry_failed_node", r, t) /\ o.exec # "absent"
        /\ o.plan # "none"
    BY DEF RetryFailedNode, Operate
  <1>2. StoredStays
    BY StoredSame DEF RetryFailedNode
  <1>3. v \in Row /\ v.head = o.head
    BY RefreshedFields
  <1>4. u \in Row /\ u.snapshot = v.snapshot /\ u.head = o.head
    BY <1>3, UnleasedFields
  <1> HIDE DEF u, v
  <1>5. /\ t.exec = "ready_for_review" /\ t.wf = "agent_batches"
        /\ t.coverage = c /\ t.snapshot = v.snapshot /\ t.head = o.head
    BY <1>4 DEF Row
  <1> HIDE DEF t
  <1>6. ContextRow(t)
    BY <1>5 DEF ContextRow
  <1>7. RowMove(r, t)
    BY <1>1, <1>5, <1>6, AgainMove DEF v
  <1> QED BY <1>1, <1>2, <1>7, OperateKept

-----------------------------------------------------------------------------
(* A new run is the newest.                                                *)

\* The row of run s as it is created, for a commit GitHub has seen; a run
\* that is not history is of no older commit than any other.
NewRow(s, t) ==
    /\ t.exec \in {"queued", "ready_for_review"}
    /\ t.plan = "none" /\ t.coverage = "unknown"
    /\ t.head \in Int /\ t.head <= ghHead
    /\ ~t.snapshot => \A q \in Runs : row[q].head <= t.head

LEMMA CreatedKept ==
    ASSUME Inv, Inv', SafeInv, VersionInv, NEW s \in Runs, NEW t,
           NextSlot(s), NewRow(s, t), row' = [row EXCEPT ![s] = t],
           hist' = hist, held' = held, ghHead' = ghHead
    PROVE  VersionInv'
  <1> USE DEF VersionInv
  <1>1. row'[s] = t /\ \A q \in Runs : q # s => row'[q] = row[q]
    BY InvRows
  <1>2. /\ ~Exists(s) /\ \A q \in Runs : q < s => Exists(q)
        /\ ~hist[s].stored
    BY DEF NextSlot, Exists, SafeInv, SafeRow, Unborn, NoHist
  <1>3. \A q \in Runs : s < q => ~Exists(q) /\ ~hist[q].stored
    BY <1>2 DEF InOrder, Exists, SafeInv, SafeRow, Unborn, NoHist
  <1>4. InOrder'
    <2>1. ASSUME NEW r \in Runs, NEW q \in Runs, r < q, Exists(q)'
          PROVE  Exists(r)'
      <3>1. r = s => Exists(r)'
        BY <1>1 DEF Exists, NewRow
      <3>2. r # s /\ q = s => Exists(r)'
        BY <1>1, <1>2, <2>1 DEF Exists
      <3>3. r # s /\ q # s => Exists(r)'
        BY <1>1, <2>1 DEF Exists, InOrder
      <3> QED BY <3>1, <3>2, <3>3
    <2>2. \A r \in Runs : row'[r].head <= ghHead'
      BY <1>1 DEF NewRow, InOrder
    <2> QED BY <2>1, <2>2 DEF InOrder
  <1>5. Ascending'
    <2> SUFFICES ASSUME NEW r \in Runs, NEW q \in Runs, r < q, Exists(q)',
                        ~row'[q].snapshot \/ hist'[q].stored
                 PROVE  row'[r].head <= row'[q].head
      BY DEF Ascending
    <2>1. CASE q = s
      BY <1>1, <1>2, <2>1, HeadsNat DEF NewRow
    <2>2. CASE q # s
      <3>1. r # s
        BY <1>1, <1>3, <2>2 DEF Exists
      <3> QED BY <1>1, <2>2, <3>1 DEF Ascending, Exists
    <2> QED BY <2>1, <2>2
  <1>6. SeenRecent'
    <2>1. \A p \in Procs : held[p].run # 0 =>
                held[p].run \in Runs /\ held[p].run # s
      BY <1>2, InvRows, QueueAssumption DEF SeenRecent, Lease, Runs
    <2> QED BY <1>1, <2>1 DEF SeenRecent, Exists
  <1>7. OnlyOldIsHistory'
    <2> SUFFICES ASSUME NEW r \in Runs,
                        \/ row'[r].coverage = "stale" /\ row'[r].plan # "none"
                        \/ row'[r].snapshot /\ hist'[r].stored
                 PROVE  HasNewer(r)'
      BY DEF OnlyOldIsHistory
    <2>1. r # s
      BY <1>1, <1>2 DEF NewRow
    <2>2. HasNewer(r)
      BY <1>1, <2>1 DEF OnlyOldIsHistory
    <2>3. PICK x \in Runs : Newer(r, x)
      BY <2>2 DEF HasNewer
    <2>4. x # s
      BY <1>2, <2>3 DEF Newer, Exists
    <2>5. Newer(r, x)'
      BY <1>1, <2>1, <2>3, <2>4 DEF Newer
    <2> QED BY <2>5 DEF HasNewer
  <1>8. OnlyStaleSuperseded'
    BY <1>1 DEF OnlyStaleSuperseded, NewRow
  <1>9. OldHeadRetired'
    <2> SUFFICES ASSUME NEW r \in Runs, NEW q \in Runs, r < q,
                        hist'[q].stored, row'[r].head # row'[q].head,
                        ~row'[r].snapshot
                 PROVE  Retired(row'[r])
      BY DEF OldHeadRetired, Retired, Dead
    <2>1. q # s /\ r # s
      BY <1>2, <1>3
    <2> QED BY <1>1, <2>1 DEF OldHeadRetired, Retired, Dead
  <1>10. LocalInv'
    <2>1. LocalRow(t)
      BY DEF NewRow, LocalRow, ContextRow, StaleRow
    <2> QED BY <1>1, <2>1 DEF LocalInv
  <1> QED BY <1>4, <1>5, <1>6, <1>7, <1>8, <1>9, <1>10

LEMMA NewRows ==
    ASSUME NEW h \in Int, h <= ghHead, NEW s
    PROVE  /\ (\A q \in Runs : row[q].head <= h) => NewRow(s, FreshRun(h))
           /\ NewRow(s, HistoryRun(h))
  <1>1. /\ FreshRun(h).exec = "queued" /\ FreshRun(h).plan = "none"
        /\ FreshRun(h).coverage = "unknown" /\ FreshRun(h).head = h
    BY DEF FreshRun, NoRow
  <1>2. /\ HistoryRun(h).exec = "ready_for_review"
        /\ HistoryRun(h).plan = "none" /\ HistoryRun(h).coverage = "unknown"
        /\ HistoryRun(h).head = h /\ HistoryRun(h).snapshot
    BY DEF HistoryRun, NoRow
  <1> QED BY <1>1, <1>2 DEF NewRow

LEMMA ArrivalsKept ==
    ASSUME ~LateDelivery, Inv, Inv', SafeInv, VersionInv, Arrivals
    PROVE  VersionInv'
  <1>1. CASE Push
    <2>1. /\ row' = row /\ hist' = hist /\ held' = held
          /\ ghHead' \in Int /\ ghHead <= ghHead'
      BY <1>1, HeadsNat DEF Push
    <2> QED BY <2>1, NoRowKept
  <1>2. ASSUME NEW r \in Runs, NEW h \in Heads, CreateRun(r, h)
        PROVE  VersionInv'
    <2>1. h \in Int /\ h <= ghHead /\ \A q \in Runs : row[q].head <= h
      BY <1>2, QueueAssumption DEF CreateRun, Heads
    <2>2. NewRow(r, FreshRun(h))
      BY <2>1, NewRows
    <2> QED BY <1>2, <2>2, CreatedKept DEF CreateRun
  <1> QED BY <1>1, <1>2 DEF Arrivals

LEMMA NewRunsKept ==
    ASSUME ~LateDelivery, Inv, Inv', SafeInv, VersionInv,
           NEW r \in Runs, NEW s \in Runs, NEW h \in Heads,
           ReviewSnapshot(r, s) \/ NewReview(r, s, h)
    PROVE  VersionInv'
  <1>1. CASE ReviewSnapshot(r, s)
    <2>1. row[r].head \in Int /\ row[r].head <= ghHead
      BY HeadsNat DEF VersionInv, InOrder
    <2>2. NewRow(s, HistoryRun(row[r].head))
      BY <2>1, NewRows
    <2> QED BY <1>1, <2>2, CreatedKept DEF ReviewSnapshot, RunFrom
  <1>2. CASE NewReview(r, s, h)
    <2>1. h = ghHead /\ h \in Int /\ h <= ghHead
      BY <1>2, HeadsNat DEF NewReview
    <2>2. \A q \in Runs : row[q].head <= h
      BY <2>1 DEF VersionInv, InOrder
    <2>3. NewRow(s, FreshRun(h))
      BY <2>1, <2>2, NewRows
    <2> QED BY <1>2, <2>3, CreatedKept DEF NewReview, RunFrom
  <1> QED BY <1>1, <1>2

LEMMA OperatorKept ==
    ASSUME NoContextTarget, ~LateDelivery, Inv, Inv', SafeInv, VersionInv, Operator
    PROVE  VersionInv'
  <1> PICK r \in Runs :
        \/ Start(r) \/ Pause(r) \/ Approve(r) \/ Reject(r) \/ Cancel(r)
        \/ Retry(r) \/ Expedite(r)
        \/ \E target \in ResumeTargets \union {"none"} : Resume(r, target)
        \/ \E target \in Retryables : RetryStage(r, target)
        \/ \E c \in {"complete", "partial"} : RetryFailedNode(r, c)
        \/ \E s \in Runs : ReviewSnapshot(r, s)
        \/ \E s \in Runs, h \in Heads : NewReview(r, s, h)
    BY DEF Operator
  <1>1. CASE Start(r) \/ Approve(r) \/ Reject(r)
    BY <1>1, NodeActionsKept
  <1>2. CASE Pause(r) \/ Cancel(r) \/ Retry(r) \/ Expedite(r)
    BY <1>2, PauseKept, CancelKept, RetryKept, ExpediteKept
  <1>3. CASE \E target \in ResumeTargets \union {"none"} : Resume(r, target)
    BY <1>3, ResumeKept
  <1>4. CASE \E target \in Retryables : RetryStage(r, target)
    BY <1>4, RetryStageKept
  <1>5. CASE \E c \in {"complete", "partial"} : RetryFailedNode(r, c)
    BY <1>5, RetryFailedNodeKept
  <1>6. CASE \E s \in Runs : ReviewSnapshot(r, s)
    <2>1. 1 \in Heads
      BY QueueAssumption DEF Heads
    <2> QED BY <1>6, <2>1, NewRunsKept
  <1>7. CASE \E s \in Runs, h \in Heads : NewReview(r, s, h)
    BY <1>7, NewRunsKept
  <1> QED BY <1>1, <1>2, <1>3, <1>4, <1>5, <1>6, <1>7

LEMMA NextVersion ==
    ASSUME NoContextTarget, ~LateDelivery, Inv, Inv', SafeInv, VersionInv,
           [Next]_vars
    PROVE  VersionInv'
  <1>1. CASE UNCHANGED vars
    <2>1. /\ row' = row /\ hist' = hist /\ held' = held
          /\ ghHead' \in Int /\ ghHead <= ghHead'
      BY <1>1, HeadsNat DEF vars
    <2> QED BY <2>1, NoRowKept
  <1>2. CASE Arrivals
    BY <1>2, ArrivalsKept
  <1>3. ASSUME NEW p \in Procs, Poll(p) \/ Renew(p) \/ Work(p) \/ Crash(p)
        PROVE  VersionInv'
    BY <1>3, WorkerKept
  <1>4. CASE Clock
    BY <1>4, ClockKept
  <1>5. CASE \E r \in Runs : Recover(r)
    BY <1>5, RecoverKept
  <1>6. CASE Operator
    BY <1>6, OperatorKept
  <1> QED BY <1>1, <1>2, <1>3, <1>4, <1>5, <1>6 DEF Next

\* The review of the head of the pull request is never thrown away, and once
\* a run has stored the context of its commit no older run of another commit
\* comes back to the review of the pull request: however pushes, webhooks,
\* retries, resumes, crashes and late writes interleave, as long as webhooks
\* and the service's reads of the head are not older than the latest run and
\* RESUME requests do not send a run back to the stages before its plan.
THEOREM HeadReviewed ==
    ASSUME NoContextTarget, ~LateDelivery
    PROVE  Spec => []HeadsRespected
  <1>1. Init => VersionInv
    BY InitVersion
  <1>2. Inv /\ Inv' /\ SafeInv /\ VersionInv /\ [Next]_vars => VersionInv'
    BY NextVersion
  <1>3. VersionInv => HeadsRespected
    BY DEF VersionInv, HeadsRespected
  <1> QED BY <1>1, <1>2, <1>3, InvHolds, SafeHolds, PTL DEF Spec
=============================================================================
