------------------------- MODULE ReviewQueueProofs --------------------------
(***************************************************************************)
(* Proofs about ReviewQueue for every value of its constants.              *)
(*                                                                         *)
(* Each transaction replaces the rows it locked by rows computed with a    *)
(* few helpers of the code, so the proofs first establish what the helpers *)
(* do to one row and then walk through the actions.                        *)
(***************************************************************************)
EXTENDS ReviewQueue, FiniteSetTheorems, TLAPS

Consistent(t) ==
    /\ (t.exec = "running") <=> (t.owner # NoWorker)
    /\ (t.exec = "running") <=> (t.lease # "none")
    /\ (t.exec = "running") <=> (t.claimedFrom # "none")
    /\ t.exec = "running" => t.wf # "paused"

GoodRow(t) == t \in Row /\ Consistent(t)

Idles == Execs \ {"running"}

-----------------------------------------------------------------------------
(* The statuses and nodes the helpers write.                               *)

LEMMA ExecFacts ==
    /\ Claimables \subseteq Idles
    /\ Idles \subseteq Execs
    /\ "running" \in Execs
    /\ "running" \notin Idles
    /\ {"absent", "queued", "waiting_for_ci", "ready_for_review",
        "completed", "failed", "timed_out", "cancelled",
        "superseded"} \subseteq Idles
  BY DEF Idles, Execs, Replaceables, Claimables

LEMMA NodeFacts ==
    /\ Resumables \subseteq Nodes
    /\ Retryables \subseteq Nodes
    /\ {"none", "queued", "ci", "planning", "agent_batches", "aggregating",
        "awaiting_approval", "awaiting_publish", "completed", "failed",
        "paused", "rejected", "cancelled", "superseded"} \subseteq Nodes
  BY DEF Nodes, Resumables, Retryables, ModelNodes

LEMMA FieldFacts ==
    /\ {"none", "live", "expired"} \subseteq LeaseStates
    /\ {"none", "pending", "passed"} \subseteq Deadlines
    /\ {"none", "open", "done"} \subseteq Plans
    /\ {"unknown", "partial", "complete", "stale"} \subseteq Coverages
  BY DEF LeaseStates, Deadlines, Plans, Coverages

-----------------------------------------------------------------------------
(* What the helpers do to a row.                                           *)

\* _set_owned_status followed by _set_workflow_status.
LEMMA OwnedStatusGood ==
    ASSUME NEW t \in Row, NEW e \in Idles, NEW n \in Nodes
    PROVE  GoodRow(SetWorkflow(SetOwnedStatus(t, e), n))
  BY FieldFacts, ExecFacts, NodeFacts
     DEF GoodRow, Consistent, Row, Unleased, SetOwnedStatus, SetWorkflow

LEMMA SupersededGood ==
    ASSUME NEW t \in Row
    PROVE  GoodRow(Superseded(t))
  <1> DEFINE u == SetWorkflow(SetOwnedStatus(t, "superseded"), "superseded")
  <1>1. GoodRow(u)
    BY OwnedStatusGood, ExecFacts, NodeFacts
  <1> HIDE DEF u
  <1>2. GoodRow([u EXCEPT !.coverage = "stale"])
    BY <1>1, FieldFacts DEF GoodRow, Consistent, Row
  <1> QED BY <1>2 DEF Superseded, u

LEMMA ClaimedGood ==
    ASSUME NEW t, GoodRow(t), t.exec \in Claimables, t.wf # "paused",
           NEW w \in WorkerIds
    PROVE  GoodRow(ClaimedBy(t, w))
  <1>1. w # NoWorker /\ t.exec # "none" /\ t.exec # "running"
    BY QueueAssumption DEF Claimables
  <1> DEFINE a == t.attempts + (IF t.exec # "waiting_for_ci" /\ ~IsModelClaim(t)
                                THEN 1 ELSE 0)
             m == t.models + (IF IsModelClaim(t) THEN 1 ELSE 0)
             n == t.polls + (IF t.exec = "waiting_for_ci" THEN 1 ELSE 0)
  <1>2. a \in Nat /\ m \in Nat /\ n \in Nat
    BY DEF GoodRow, Row
  <1> HIDE DEF a, m, n
  <1>3. [t EXCEPT !.exec = "running", !.claimedFrom = t.exec, !.owner = w,
                  !.lease = "live", !.models = m, !.polls = n, !.attempts = a]
            \in Row
    BY <1>2, FieldFacts, ExecFacts DEF GoodRow, Row
  <1>4. ClaimedBy(t, w) \in Row
    BY <1>3 DEF ClaimedBy, a, m, n
  <1> QED BY <1>1, <1>4 DEF GoodRow, Consistent, Row, ClaimedBy

LEMMA RescheduledGood ==
    ASSUME NEW t, GoodRow(t), t.exec = "running", NEW kind
    PROVE  GoodRow(RescheduleOrFail(t, kind))
  <1> DEFINE busy == kind = "batch_busy" /\ IsModelStage(t)
             models == IF busy THEN t.models - 1 ELSE t.models
             u == [Unleased(t) EXCEPT !.models = models]
  <1>1. models \in Nat
    BY DEF GoodRow, Row, IsModelStage
  <1>2. t.claimedFrom \in Claimables
    BY DEF GoodRow, Consistent, Row
  <1> HIDE DEF models
  <1>3. GoodRow(SetWorkflow([u EXCEPT !.exec = "failed"], "failed"))
    BY <1>1, FieldFacts, ExecFacts, NodeFacts
       DEF GoodRow, Consistent, Row, Unleased, SetWorkflow
  <1>4. GoodRow([u EXCEPT !.exec = t.claimedFrom, !.due = FALSE])
    BY <1>1, <1>2, FieldFacts, ExecFacts DEF GoodRow, Consistent, Row, Unleased
  <1> QED BY <1>3, <1>4 DEF RescheduleOrFail, models
-----------------------------------------------------------------------------
(* The invariant, and what one changed row means for it.                   *)

Inv == TypeOK /\ LeaseConsistent

LEMMA InvRows == Inv <=> /\ row \in [Runs -> Row]
                         /\ \A r \in Runs : GoodRow(row[r])
                         /\ held \in [Procs -> Lease]
                         /\ ghHead \in Heads
                         /\ saved \subseteq Heads
                         /\ hist \in [Runs -> Hist]
                         /\ faults \in Nat
                         /\ ops \in Nat
  BY DEF Inv, TypeOK, LeaseConsistent, GoodRow, Consistent

LEMMA RowStep ==
    ASSUME Inv, NEW r \in Runs, NEW t, GoodRow(t), row' = [row EXCEPT ![r] = t]
    PROVE  row' \in [Runs -> Row] /\ \A s \in Runs : GoodRow(row'[s])
  BY InvRows DEF GoodRow

LEMMA HeldStep ==
    ASSUME Inv, NEW p \in Procs, held' = [held EXCEPT ![p] = NoLease]
    PROVE  held' \in [Procs -> Lease]
  BY InvRows, QueueAssumption DEF Lease, NoLease

\* A process that passes the ownership check works on a running row.
LEMMA OwnsRunning ==
    ASSUME Inv, NEW p \in Procs, Owns(p)
    PROVE  /\ held[p].run \in Runs
           /\ GoodRow(row[held[p].run])
           /\ row[held[p].run].exec = "running"
           /\ row[held[p].run] \in Row
           /\ row[held[p].run].owner = WorkerOf[p]
  BY InvRows, QueueAssumption DEF Owns, Owned, Lease, Runs, GoodRow

LEMMA InvPrime ==
    ASSUME row' \in [Runs -> Row], \A r \in Runs : GoodRow(row'[r]),
           held' \in [Procs -> Lease], ghHead' \in Heads, saved' \subseteq Heads,
           hist' \in [Runs -> Hist], faults' \in Nat, ops' \in Nat
    PROVE  Inv'
  BY DEF Inv, TypeOK, LeaseConsistent, GoodRow, Consistent

LEMMA InitInv == Init => Inv
  BY InvRows, QueueAssumption, FieldFacts, ExecFacts, NodeFacts
     DEF Init, NoRow, NoLease, NoHist, Row, Lease, Hist, GoodRow, Consistent,
         Heads, Runs
-----------------------------------------------------------------------------
(* The worker's actions keep the invariant.                                *)

\* A leased transaction that ends the lease: the run's row becomes t.
LEMMA FinishInv ==
    ASSUME Inv, NEW p \in Procs, NEW t, Owns(p), GoodRow(t), Finish(p, t),
           ghHead' = ghHead, saved' = saved, ops' = ops,
           hist' \in [Runs -> Hist], faults' \in Nat
    PROVE  Inv'
  <1>1. held[p].run \in Runs
    BY OwnsRunning
  <1>2. row' \in [Runs -> Row] /\ \A s \in Runs : GoodRow(row'[s])
    BY <1>1, RowStep DEF Finish
  <1>3. held' \in [Procs -> Lease]
    BY HeldStep DEF Finish
  <1> QED BY <1>2, <1>3, InvPrime, InvRows

LEMMA ClaimInv ==
    ASSUME Inv, NEW p \in Procs, NEW r \in Runs, Claim(p, r)
    PROVE  Inv'
  <1> DEFINE t == ClaimedBy(row[r], WorkerOf[p])
  <1>1. GoodRow(row[r]) /\ row[r].exec \in Claimables /\ row[r].wf # "paused"
    BY InvRows DEF Claim, Claimable
  <1>2. GoodRow(t)
    BY <1>1, ClaimedGood, QueueAssumption
  <1>3. row' = [row EXCEPT ![r] = t]
    BY DEF Claim
  <1>4. /\ t.attempts \in Nat /\ t.models \in Nat /\ t.polls \in Nat
        /\ t.claimedFrom \in Claimables \union {"none"}
    BY <1>2 DEF GoodRow, Row
  <1>5. hist[r].epoch + 1 \in Nat /\ r \in 0..NRuns /\ 0 \in 0..NHeads
    BY InvRows, QueueAssumption DEF Hist, Runs
  <1>6. held' = [held EXCEPT ![p] =
            [run |-> r, attempts |-> t.attempts, models |-> t.models,
             polls |-> t.polls, claimedFrom |-> t.claimedFrom,
             plan |-> t.plan # "none", seen |-> 0,
             epoch |-> hist[r].epoch + 1]]
    BY DEF Claim
  <1> HIDE DEF t
  <1>7. held' \in [Procs -> Lease]
    BY <1>4, <1>5, <1>6, InvRows DEF Lease
  <1>8. hist' \in [Runs -> Hist]
    BY <1>5, InvRows DEF Claim, Hist
  <1>9. row' \in [Runs -> Row] /\ \A s \in Runs : GoodRow(row'[s])
    BY <1>2, <1>3, RowStep
  <1> QED BY <1>7, <1>8, <1>9, InvPrime, InvRows DEF Claim

LEMMA RenewInv ==
    ASSUME Inv, NEW p \in Procs, Renew(p)
    PROVE  Inv'
  <1> DEFINE r == held[p].run
             t == [row[r] EXCEPT !.lease = "live"]
  <1>1. r \in Runs /\ GoodRow(row[r]) /\ row[r].exec = "running"
    BY OwnsRunning DEF Renew
  <1>2. GoodRow(t)
    BY <1>1, FieldFacts DEF GoodRow, Consistent, Row
  <1>3. row' = [row EXCEPT ![r] = t]
    BY DEF Renew
  <1>4. row' \in [Runs -> Row] /\ \A s \in Runs : GoodRow(row'[s])
    BY <1>1, <1>2, <1>3, RowStep
  <1> QED BY <1>4, InvPrime, InvRows DEF Renew

LEMMA LoadContextInv ==
    ASSUME Inv, NEW p \in Procs, LoadContext(p)
    PROVE  Inv'
  <1>1. held' \in [Procs -> Lease]
    BY InvRows DEF LoadContext, Lease, Heads
  <1> QED BY <1>1, InvPrime, InvRows DEF LoadContext

LEMMA ForgetInv ==
    ASSUME Inv, NEW p \in Procs, LoseLease(p) \/ Crash(p)
    PROVE  Inv'
  <1>1. held' \in [Procs -> Lease]
    BY HeldStep DEF LoseLease, Crash
  <1>2. faults' \in Nat
    BY InvRows DEF LoseLease, Crash
  <1> QED BY <1>1, <1>2, InvPrime, InvRows DEF LoseLease, Crash

LEMMA StoreEndsInv ==
    ASSUME Inv, NEW p \in Procs,
           StoreHeadMismatch(p) \/ StoreNotReviewable(p) \/ StorePlanStale(p)
    PROVE  Inv'
  <1>1. Owns(p)
    BY DEF StoreHeadMismatch, StoreNotReviewable, StorePlanStale, ReadyToStore
  <1>2. row[held[p].run] \in Row
    BY <1>1, OwnsRunning
  <1>3. GoodRow(Superseded(row[held[p].run]))
    BY <1>2, SupersededGood
  <1>4. GoodRow(SetWorkflow(SetOwnedStatus(row[held[p].run], "cancelled"),
                            "cancelled"))
    BY <1>2, OwnedStatusGood, ExecFacts, NodeFacts
  <1> QED BY <1>1, <1>3, <1>4, FinishInv, InvRows
          DEF StoreHeadMismatch, StoreNotReviewable, StorePlanStale

\* Accepting a context changes the run's own row and supersedes others.
LEMMA AcceptInv ==
    ASSUME Inv, NEW p \in Procs, NEW t, NEW complete \in BOOLEAN,
           ReadyToStore(p), GoodRow(t), AcceptContext(p, t, complete)
    PROVE  Inv'
  <1> DEFINE r == held[p].run
  <1>1. r \in Runs /\ row[r] \in Row
    BY OwnsRunning DEF ReadyToStore
  <1>2. \A s \in Runs : GoodRow(Superseded(row[s]))
    BY InvRows, SupersededGood
  <1>3. row' \in [Runs -> Row] /\ \A s \in Runs : GoodRow(row'[s])
    BY <1>2, InvRows DEF AcceptContext, GoodRow
  <1>4. held' \in [Procs -> Lease]
    BY HeldStep DEF AcceptContext
  <1>5. row[r].head \in Heads
    <2>1. row[r].head \in 0..NHeads /\ row[r].head # 0
      BY <1>1 DEF AcceptContext, ReadyToStore, Row
    <2> QED BY <2>1, QueueAssumption DEF Heads
  <1>7. saved' \subseteq Heads
    BY <1>5, InvRows DEF AcceptContext
  <1>6. hist' \in [Runs -> Hist]
    <2>1. row[r].snapshot \in BOOLEAN
      BY <1>1 DEF Row
    <2> QED BY <1>1, <2>1, InvRows, ZenonT(30) DEF AcceptContext, Hist
  <1> QED BY <1>3, <1>4, <1>6, <1>7, InvPrime, InvRows DEF AcceptContext

LEMMA StoreContextInv ==
    ASSUME Inv, NEW p \in Procs, NEW complete \in BOOLEAN,
           \/ StoreCiPending(p, complete)
           \/ StoreCiTimeout(p, complete)
           \/ StoreCiReady(p, complete)
    PROVE  Inv'
  <1> DEFINE t == row[held[p].run]
             w == SetWorkflow(SetOwnedStatus(t, "waiting_for_ci"), "ci")
             d == SetWorkflow(SetOwnedStatus(t, "timed_out"), "failed")
             y == SetWorkflow(SetOwnedStatus(t, "ready_for_review"),
                              "planning")
  <1>1. ReadyToStore(p) /\ t \in Row
    BY OwnsRunning
       DEF StoreCiPending, StoreCiTimeout, StoreCiReady, ReadyToStore
  <1>2. GoodRow(w) /\ GoodRow(d) /\ GoodRow(y)
    BY <1>1, OwnedStatusGood, ExecFacts, NodeFacts
  <1>a. CASE StoreCiPending(p, complete)
    <2>1. AcceptContext(p, [w EXCEPT !.deadline = "pending", !.due = FALSE],
                        complete)
      BY <1>a DEF StoreCiPending
    <2> HIDE DEF w
    <2>2. GoodRow([w EXCEPT !.deadline = "pending", !.due = FALSE])
      BY <1>2, FieldFacts DEF GoodRow, Consistent, Row
    <2> QED BY <1>1, <2>1, <2>2, AcceptInv
  <1>b. CASE StoreCiTimeout(p, complete)
    BY <1>1, <1>2, <1>b, AcceptInv DEF StoreCiTimeout
  <1>c. CASE StoreCiReady(p, complete)
    <2>1. AcceptContext(p, [y EXCEPT !.deadline = "none"], complete)
      BY <1>c DEF StoreCiReady
    <2> HIDE DEF y
    <2>2. GoodRow([y EXCEPT !.deadline = "none"])
      BY <1>2, FieldFacts DEF GoodRow, Consistent, Row
    <2> QED BY <1>1, <2>1, <2>2, AcceptInv
  <1> QED BY <1>a, <1>b, <1>c

LEMMA StorePlanInv ==
    ASSUME Inv, NEW p \in Procs, StorePlan(p)
    PROVE  Inv'
  <1> DEFINE u == SetWorkflow(SetOwnedStatus(row[held[p].run],
                                             "ready_for_review"),
                              "agent_batches")
  <1>1. Owns(p) /\ row[held[p].run] \in Row
    BY OwnsRunning DEF StorePlan
  <1>2. GoodRow(u)
    BY <1>1, OwnedStatusGood, ExecFacts, NodeFacts
  <1>3. Finish(p, [u EXCEPT !.plan = "open"])
    BY DEF StorePlan
  <1> HIDE DEF u
  <1>4. GoodRow([u EXCEPT !.plan = "open"])
    BY <1>2, FieldFacts DEF GoodRow, Consistent, Row
  <1> QED BY <1>1, <1>3, <1>4, FinishInv, InvRows DEF StorePlan

LEMMA MarkAggregatingInv ==
    ASSUME Inv, NEW p \in Procs, MarkAggregating(p)
    PROVE  Inv'
  <1> DEFINE r == held[p].run
             t == SetWorkflow(row[r], "aggregating")
  <1>1. r \in Runs /\ GoodRow(row[r])
    BY OwnsRunning DEF MarkAggregating
  <1>2. GoodRow(t)
    BY <1>1, NodeFacts DEF GoodRow, Consistent, Row, SetWorkflow
  <1>3. row' \in [Runs -> Row] /\ \A s \in Runs : GoodRow(row'[s])
    BY <1>1, <1>2, RowStep DEF MarkAggregating
  <1> QED BY <1>3, InvPrime, InvRows DEF MarkAggregating

LEMMA StoreReviewInv ==
    ASSUME Inv, NEW p \in Procs, NEW c \in {"complete", "partial"},
           StoreReview(p, c)
    PROVE  Inv'
  <1> DEFINE r == held[p].run
             old == row[r].snapshot \/ HasNewer(r)
             n == IF old THEN "completed" ELSE "awaiting_approval"
             u == SetWorkflow(SetOwnedStatus(row[r], "completed"), n)
  <1>1. Owns(p) /\ r \in Runs /\ row[r] \in Row
    BY OwnsRunning DEF StoreReview
  <1>2. n \in Nodes
    BY NodeFacts
  <1>3. old \in BOOLEAN
    BY <1>1 DEF Row, HasNewer
  <1>4. Finish(p, [u EXCEPT !.plan = "done", !.snapshot = old,
                            !.coverage = c])
    BY DEF StoreReview
  <1>5. hist' \in [Runs -> Hist]
    BY <1>1, InvRows DEF StoreReview, Hist
  <1> HIDE DEF n, old
  <1>6. GoodRow(u)
    BY <1>1, <1>2, OwnedStatusGood, ExecFacts
  <1>7. c \in Coverages
    BY FieldFacts
  <1> HIDE DEF u
  <1>8. GoodRow([u EXCEPT !.plan = "done", !.snapshot = old, !.coverage = c])
    BY <1>3, <1>6, <1>7, FieldFacts DEF GoodRow, Consistent, Row
  <1> QED BY <1>1, <1>4, <1>5, <1>8, FinishInv, InvRows DEF StoreReview

LEMMA StorePartialReviewInv ==
    ASSUME Inv, NEW p \in Procs, StorePartialReview(p)
    PROVE  Inv'
  <1> DEFINE r == held[p].run
             u == SetWorkflow(SetOwnedStatus(row[r], "failed"),
                              "agent_batches")
  <1>1. Owns(p) /\ row[r] \in Row
    BY OwnsRunning DEF StorePartialReview
  <1>2. GoodRow(u)
    BY <1>1, OwnedStatusGood, ExecFacts, NodeFacts
  <1>3. Finish(p, [u EXCEPT !.snapshot = @ \/ HasNewer(r),
                            !.coverage = "partial"])
    BY DEF StorePartialReview
  <1> HIDE DEF u
  <1>4. u.snapshot \/ HasNewer(r) \in BOOLEAN
    BY <1>2 DEF GoodRow, Row, HasNewer
  <1>5. GoodRow([u EXCEPT !.snapshot = @ \/ HasNewer(r),
                          !.coverage = "partial"])
    BY <1>2, <1>4, FieldFacts DEF GoodRow, Consistent, Row
  <1> QED BY <1>1, <1>3, <1>5, FinishInv, InvRows DEF StorePartialReview

LEMMA ChargedHist ==
    ASSUME NEW h \in Hist, NEW t, NEW kind
    PROVE  Charged(h, t, kind) \in Hist /\ Uncharged(h) \in Hist
  <1>1. /\ [h EXCEPT !.model = @ + 1] \in Hist
        /\ [h EXCEPT !.poll = @ + 1] \in Hist
        /\ [h EXCEPT !.work = @ + 1] \in Hist
    BY DEF Hist
  <1>2. Charged(h, t, kind) \in Hist
    BY <1>1, Zenon DEF Charged
  <1>3. Uncharged(h) \in Hist
    BY DEF Hist, Uncharged
  <1> QED BY <1>2, <1>3

LEMMA ReportErrorInv ==
    ASSUME Inv, NEW p \in Procs, NEW kind, ReportError(p, kind)
    PROVE  Inv'
  <1> DEFINE r == held[p].run
  <1>1. /\ Owns(p) /\ r \in Runs
        /\ GoodRow(row[r]) /\ row[r].exec = "running"
    BY OwnsRunning DEF ReportError
  <1>2. GoodRow(RescheduleOrFail(row[r], kind))
    BY <1>1, RescheduledGood
  <1>3. hist[r] \in Hist
    BY <1>1, InvRows
  <1>4. Charged(hist[r], row[r], kind) \in Hist
    BY <1>3, ChargedHist
  <1>5. hist' \in [Runs -> Hist]
    BY <1>1, <1>4, InvRows DEF ReportError
  <1>6. faults' \in Nat
    BY InvRows DEF ReportError
  <1> QED BY <1>1, <1>2, <1>5, <1>6, FinishInv, InvRows DEF ReportError

LEMMA PauseForBudgetInv ==
    ASSUME Inv, NEW p \in Procs, PauseForBudget(p)
    PROVE  Inv'
  <1> DEFINE u == SetWorkflow(SetOwnedStatus(row[held[p].run],
                                             "ready_for_review"), "paused")
  <1>1. Owns(p) /\ row[held[p].run] \in Row
    BY OwnsRunning DEF PauseForBudget
  <1>2. GoodRow(u)
    BY <1>1, OwnedStatusGood, ExecFacts, NodeFacts
  <1>3. Finish(p, [u EXCEPT !.pausedFrom = "agent_batches"])
    BY DEF PauseForBudget
  <1> HIDE DEF u
  <1>4. GoodRow([u EXCEPT !.pausedFrom = "agent_batches"])
    BY <1>2, NodeFacts DEF GoodRow, Consistent, Row
  <1> QED BY <1>1, <1>3, <1>4, FinishInv, InvRows DEF PauseForBudget

LEMMA WorkInv ==
    ASSUME Inv, NEW p \in Procs, Work(p)
    PROVE  Inv'
  BY LoadContextInv, MarkAggregatingInv, ForgetInv, StoreEndsInv,
     StoreContextInv, StorePlanInv, StoreReviewInv, StorePartialReviewInv,
     PauseForBudgetInv, ReportErrorInv
     DEF Work, Stored

-----------------------------------------------------------------------------
(* Arrivals, the clock and recovery keep the invariant.                    *)

LEMMA NewRowGood ==
    ASSUME NEW h \in 0..NHeads
    PROVE  GoodRow(FreshRun(h)) /\ GoodRow(HistoryRun(h))
  <1>1. NoRow \in Row /\ h \in 0..NHeads
    BY QueueAssumption, FieldFacts, ExecFacts, NodeFacts DEF NoRow, Row
  <1>2. NoRow.owner = NoWorker /\ NoRow.lease = "none"
        /\ NoRow.claimedFrom = "none"
    BY DEF NoRow
  <1> HIDE DEF NoRow
  <1>3. GoodRow(FreshRun(h))
    BY <1>1, <1>2, ExecFacts, NodeFacts DEF GoodRow, Consistent, Row, FreshRun
  <1>4. GoodRow(HistoryRun(h))
    BY <1>1, <1>2, ExecFacts, NodeFacts
       DEF GoodRow, Consistent, Row, HistoryRun
  <1> QED BY <1>3, <1>4

LEMMA ArrivalsInv ==
    ASSUME Inv, Arrivals
    PROVE  Inv'
  <1>1. CASE Push
    <2>1. ghHead' \in Heads
      BY <1>1, InvRows, QueueAssumption DEF Push, Heads
    <2> QED BY <1>1, <2>1, InvPrime, InvRows DEF Push
  <1>2. ASSUME NEW r \in Runs, NEW h \in Heads, CreateRun(r, h)
        PROVE  Inv'
    <2>1. h \in 0..NHeads
      BY QueueAssumption DEF Heads
    <2>2. GoodRow(FreshRun(h))
      BY <2>1, NewRowGood
    <2>3. row' \in [Runs -> Row] /\ \A s \in Runs : GoodRow(row'[s])
      BY <1>2, <2>2, RowStep DEF CreateRun
    <2> QED BY <1>2, <2>3, InvPrime, InvRows DEF CreateRun
  <1> QED BY <1>1, <1>2 DEF Arrivals

LEMMA ExpiredInv ==
    ASSUME Inv, NEW r \in Runs, Expired(r), faults' \in Nat
    PROVE  Inv'
  <1> DEFINE t == [row[r] EXCEPT !.lease = "expired"]
  <1>1. GoodRow(row[r]) /\ row[r].exec = "running"
    BY InvRows DEF Expired
  <1>2. GoodRow(t)
    BY <1>1, FieldFacts DEF GoodRow, Consistent, Row
  <1>3. row' = [row EXCEPT ![r] = t]
    BY DEF Expired
  <1> HIDE DEF t
  <1>4. row' \in [Runs -> Row] /\ \A s \in Runs : GoodRow(row'[s])
    BY <1>2, <1>3, RowStep
  <1> QED BY <1>4, InvPrime, InvRows DEF Expired

LEMMA TimeInv ==
    ASSUME Inv, NEW r \in Runs, BecomeDue(r) \/ DeadlinePasses(r)
    PROVE  Inv'
  <1> DEFINE t == [row[r] EXCEPT !.due = TRUE]
             u == [row[r] EXCEPT !.deadline = "passed"]
  <1>1. GoodRow(row[r])
    BY InvRows
  <1>2. GoodRow(t) /\ GoodRow(u)
    BY <1>1, FieldFacts DEF GoodRow, Consistent, Row
  <1>3. row' = [row EXCEPT ![r] = t] \/ row' = [row EXCEPT ![r] = u]
    BY DEF BecomeDue, DeadlinePasses
  <1> HIDE DEF t, u
  <1>4. row' \in [Runs -> Row] /\ \A s \in Runs : GoodRow(row'[s])
    BY <1>2, <1>3, RowStep
  <1> QED BY <1>4, InvPrime, InvRows DEF BecomeDue, DeadlinePasses

LEMMA ClockInv ==
    ASSUME Inv, Clock
    PROVE  Inv'
  <1>1. ASSUME NEW r \in Runs, ExpireAbandoned(r) \/ MissRenewal(r)
        PROVE  Inv'
    BY <1>1, ExpiredInv, InvRows DEF ExpireAbandoned, MissRenewal
  <1> QED BY <1>1, TimeInv DEF Clock

LEMMA RecoverInv ==
    ASSUME Inv, NEW r \in Runs, Recover(r)
    PROVE  Inv'
  <1> DEFINE t == RescheduleOrFail(row[r], "retryable")
  <1>1. GoodRow(t)
    BY RescheduledGood, InvRows DEF Recover
  <1>2. row' = [row EXCEPT ![r] = t]
    BY DEF Recover
  <1>3. Charged(hist[r], row[r], "retryable") \in Hist
    BY ChargedHist, InvRows
  <1>4. hist' \in [Runs -> Hist]
    BY <1>3, InvRows DEF Recover
  <1> HIDE DEF t
  <1>5. row' \in [Runs -> Row] /\ \A s \in Runs : GoodRow(row'[s])
    BY <1>1, <1>2, RowStep
  <1> QED BY <1>4, <1>5, InvPrime, InvRows DEF Recover

-----------------------------------------------------------------------------
(* Operator actions keep the invariant.                                    *)

\* Every operator action on run r replaces its row by some t.
LEMMA OperateInv ==
    ASSUME Inv, NEW r \in Runs, NEW t, NEW kind, GoodRow(t),
           Operate(kind, r, t), hist' \in [Runs -> Hist]
    PROVE  Inv'
  <1>1. row' \in [Runs -> Row] /\ \A s \in Runs : GoodRow(row'[s])
    BY RowStep DEF Operate
  <1> QED BY <1>1, InvPrime, InvRows DEF Operate

LEMMA UnchargedHist ==
    ASSUME Inv, NEW r \in Runs,
           hist' = [hist EXCEPT ![r] = Uncharged(@)]
    PROVE  hist' \in [Runs -> Hist]
  <1>1. Uncharged(hist[r]) \in Hist
    BY InvRows DEF Hist, Uncharged
  <1> QED BY <1>1, InvRows

LEMMA RefreshedGood ==
    ASSUME Inv, NEW r \in Runs
    PROVE  GoodRow(Refreshed(r)) /\ Refreshed(r) \in Row
  <1>1. GoodRow(row[r])
    BY InvRows
  <1>2. GoodRow([row[r] EXCEPT !.snapshot = TRUE, !.coverage = "partial"])
    BY <1>1, FieldFacts DEF GoodRow, Consistent, Row
  <1> QED BY <1>1, <1>2 DEF Refreshed, GoodRow

\* START, APPROVE and REJECT only move the node.
LEMMA NodeActionsInv ==
    ASSUME Inv, NEW r \in Runs, Start(r) \/ Approve(r) \/ Reject(r)
    PROVE  Inv'
  <1>1. \A n \in {"ci", "awaiting_publish", "rejected"} :
            GoodRow([row[r] EXCEPT !.wf = n, !.pausedFrom = "none"])
    BY InvRows, NodeFacts, ZenonT(30) DEF GoodRow, Consistent, Row
  <1>2. hist' = hist \/ hist' = [hist EXCEPT ![r].approved = TRUE]
    BY DEF Start, Approve, Reject
  <1>3. hist' \in [Runs -> Hist]
    BY <1>2, InvRows DEF Hist
  <1> QED BY <1>1, <1>3, OperateInv DEF Start, Approve, Reject

LEMMA NodeType ==
    ASSUME Inv, NEW r \in Runs
    PROVE  row[r] \in Row /\ row[r].exec \in Execs /\ row[r].wf \in Nodes
  BY InvRows DEF GoodRow, Row

LEMMA ExecChoices ==
    ASSUME NEW n, NEW e \in Execs
    PROVE  PausedExec(n, e) \in Idles /\ ResumedExec(n, e) \in Idles
  BY ExecFacts DEF PausedExec, ResumedExec, Idles

LEMMA PauseInv ==
    ASSUME Inv, NEW r \in Runs, Pause(r)
    PROVE  Inv'
  <1> DEFINE node == row[r].wf
             e == PausedExec(node, row[r].exec)
             u == Unleased(row[r])
  <1>1. e \in Idles /\ node \in Nodes
    BY NodeType, ExecChoices, NodeFacts DEF Pause
  <1>2. Operate("pause", r, [u EXCEPT !.wf = "paused", !.pausedFrom = node,
                                      !.due = TRUE, !.exec = e])
    BY DEF Pause
  <1>3. hist' \in [Runs -> Hist]
    BY UnchargedHist DEF Pause
  <1> HIDE DEF e, node
  <1>4. GoodRow([u EXCEPT !.wf = "paused", !.pausedFrom = node,
                          !.due = TRUE, !.exec = e])
    BY <1>1, NodeType, FieldFacts, ExecFacts, NodeFacts, ZenonT(30)
       DEF GoodRow, Consistent, Row, Unleased
  <1> QED BY <1>2, <1>3, <1>4, OperateInv

LEMMA ResumeInv ==
    ASSUME Inv, NEW r \in Runs, NEW explicit, Resume(r, explicit)
    PROVE  Inv'
  <1> DEFINE default == IF row[r].pausedFrom = "none" THEN "ci"
                        ELSE row[r].pausedFrom
             target == IF explicit = "none" THEN default ELSE explicit
             e == ResumedExec(target, row[r].exec)
             t == Refreshed(r)
             u == Unleased(t)
  <1>1. e \in Idles
    BY NodeType, ExecChoices
  <1>2. target \in Nodes
    BY NodeFacts DEF Resume
  <1>3. Operate("resume", r, [u EXCEPT !.wf = target, !.pausedFrom = "none",
                                       !.due = TRUE, !.exec = e])
    BY DEF Resume
  <1>4. hist' \in [Runs -> Hist]
    BY UnchargedHist DEF Resume
  <1>5. t \in Row
    BY RefreshedGood
  <1> HIDE DEF e, target, t
  <1>6. GoodRow([u EXCEPT !.wf = target, !.pausedFrom = "none",
                          !.due = TRUE, !.exec = e])
    BY <1>1, <1>2, <1>5, FieldFacts, ExecFacts, NodeFacts
       DEF GoodRow, Consistent, Row, Unleased
  <1> QED BY <1>3, <1>4, <1>6, OperateInv

LEMMA RetryStageInv ==
    ASSUME Inv, NEW r \in Runs, NEW target \in Retryables,
           RetryStage(r, target)
    PROVE  Inv'
  <1> DEFINE t == Refreshed(r)
             v == StageReset(t, target)
             u == Unleased(v)
             e == IF target = "ci" THEN "queued" ELSE "ready_for_review"
  <1>1. t \in Row
    BY RefreshedGood
  <1>2. Operate("retry_stage", r, [u EXCEPT !.wf = target,
                     !.pausedFrom = "none", !.due = TRUE, !.exec = e])
    BY DEF RetryStage
  <1>3. hist' \in [Runs -> Hist]
    BY UnchargedHist DEF RetryStage
  <1>4. e \in Idles /\ target \in Nodes
    BY ExecFacts, NodeFacts
  <1> HIDE DEF t, e
  <1>5. v \in Row
    <2>1. [t EXCEPT !.plan = "none", !.coverage = "unknown", !.polls = 0,
                    !.deadline = "none"] \in Row
      BY <1>1, FieldFacts DEF Row
    <2>2. [t EXCEPT !.plan = "none", !.coverage = "unknown"] \in Row
      BY <1>1, FieldFacts DEF Row
    <2>3. [t EXCEPT !.plan = "open"] \in Row
      BY <1>1, FieldFacts DEF Row
    <2> QED BY <2>1, <2>2, <2>3 DEF StageReset
  <1> HIDE DEF v
  <1>6. GoodRow([u EXCEPT !.wf = target, !.pausedFrom = "none",
                          !.due = TRUE, !.exec = e])
    BY <1>4, <1>5, FieldFacts, ExecFacts, NodeFacts
       DEF GoodRow, Consistent, Row, Unleased
  <1> QED BY <1>2, <1>3, <1>6, OperateInv

LEMMA CancelInv ==
    ASSUME Inv, NEW r \in Runs, Cancel(r)
    PROVE  Inv'
  <1>1. GoodRow([Unleased(row[r]) EXCEPT !.exec = "cancelled",
                     !.wf = "cancelled", !.pausedFrom = "none"])
    BY NodeType, FieldFacts, ExecFacts, NodeFacts
       DEF GoodRow, Consistent, Row, Unleased
  <1> QED BY <1>1, OperateInv, InvRows DEF Cancel

LEMMA RetryInv ==
    ASSUME Inv, NEW r \in Runs, Retry(r)
    PROVE  Inv'
  <1> DEFINE t == Refreshed(r)
             u == Unleased(t)
             e == IF t.plan # "none" \/ t.snapshot
                  THEN "ready_for_review" ELSE "queued"
             n == IF t.plan # "none" THEN "agent_batches"
                  ELSE IF t.snapshot THEN "planning" ELSE "queued"
  <1>1. t \in Row
    BY RefreshedGood
  <1>2. Operate("retry", r, [u EXCEPT !.exec = e, !.wf = n, !.attempts = 0,
                                      !.models = 0, !.polls = 0, !.due = TRUE])
    BY DEF Retry
  <1>3. hist' \in [Runs -> Hist]
    BY UnchargedHist DEF Retry
  <1>4. e \in Idles /\ n \in Nodes
    BY ExecFacts, NodeFacts
  <1> HIDE DEF t, e, n
  <1>5. GoodRow([u EXCEPT !.exec = e, !.wf = n, !.attempts = 0,
                          !.models = 0, !.polls = 0, !.due = TRUE])
    BY <1>1, <1>4, FieldFacts, ExecFacts, NodeFacts
       DEF GoodRow, Consistent, Row, Unleased
  <1> QED BY <1>2, <1>3, <1>5, OperateInv

LEMMA RetryFailedNodeInv ==
    ASSUME Inv, NEW r \in Runs, NEW c \in {"complete", "partial"},
           RetryFailedNode(r, c)
    PROVE  Inv'
  <1> DEFINE t == Refreshed(r)
             u == Unleased(t)
  <1>1. t \in Row /\ c \in Coverages
    BY RefreshedGood, FieldFacts
  <1>2. Operate("retry_failed_node", r,
            [u EXCEPT !.exec = "ready_for_review", !.wf = "agent_batches",
                      !.pausedFrom = "none", !.due = TRUE, !.plan = "open",
                      !.coverage = c])
    BY DEF RetryFailedNode
  <1>3. hist' \in [Runs -> Hist]
    BY UnchargedHist DEF RetryFailedNode
  <1> HIDE DEF t
  <1>4. GoodRow([u EXCEPT !.exec = "ready_for_review", !.wf = "agent_batches",
                          !.pausedFrom = "none", !.due = TRUE,
                          !.plan = "open", !.coverage = c])
    BY <1>1, FieldFacts, ExecFacts, NodeFacts
       DEF GoodRow, Consistent, Row, Unleased
  <1> QED BY <1>2, <1>3, <1>4, OperateInv

LEMMA ExpediteInv ==
    ASSUME Inv, NEW r \in Runs, Expedite(r)
    PROVE  Inv'
  <1>1. GoodRow([row[r] EXCEPT !.due = TRUE])
    BY InvRows DEF GoodRow, Consistent, Row
  <1> QED BY <1>1, OperateInv, InvRows DEF Expedite

LEMMA RunFromInv ==
    ASSUME Inv, NEW r \in Runs, NEW s \in Runs, NEW t, NEW kind, GoodRow(t),
           RunFrom(kind, r, s, t)
    PROVE  Inv'
  <1>1. row' \in [Runs -> Row] /\ \A q \in Runs : GoodRow(row'[q])
    BY RowStep DEF RunFrom
  <1> QED BY <1>1, InvPrime, InvRows DEF RunFrom

LEMMA NewRunsInv ==
    ASSUME Inv, NEW r \in Runs, NEW s \in Runs, NEW h \in Heads,
           ReviewSnapshot(r, s) \/ NewReview(r, s, h)
    PROVE  Inv'
  <1>1. h \in 0..NHeads /\ row[r].head \in 0..NHeads
    BY NodeType, QueueAssumption DEF Heads, Row
  <1>2. GoodRow(FreshRun(h)) /\ GoodRow(HistoryRun(row[r].head))
    BY <1>1, NewRowGood
  <1> QED BY <1>2, RunFromInv DEF ReviewSnapshot, NewReview

LEMMA OperatorInv ==
    ASSUME Inv, Operator
    PROVE  Inv'
  <1> PICK r \in Runs :
        \/ Start(r) \/ Pause(r) \/ Approve(r) \/ Reject(r) \/ Cancel(r)
        \/ Retry(r) \/ Expedite(r)
        \/ \E target \in ResumeTargets \union {"none"} : Resume(r, target)
        \/ \E target \in Retryables : RetryStage(r, target)
        \/ \E c \in {"complete", "partial"} : RetryFailedNode(r, c)
        \/ \E s \in Runs : ReviewSnapshot(r, s)
        \/ \E s \in Runs, h \in Heads : NewReview(r, s, h)
    BY DEF Operator
  <1>1. CASE Start(r) \/ Approve(r) \/ Reject(r)
    BY <1>1, NodeActionsInv
  <1>2. CASE Pause(r) \/ Cancel(r) \/ Retry(r) \/ Expedite(r)
    BY <1>2, PauseInv, CancelInv, RetryInv, ExpediteInv
  <1>3. CASE \E target \in ResumeTargets \union {"none"} : Resume(r, target)
    BY <1>3, ResumeInv
  <1>4. CASE \E target \in Retryables : RetryStage(r, target)
    BY <1>4, RetryStageInv
  <1>5. CASE \E c \in {"complete", "partial"} : RetryFailedNode(r, c)
    BY <1>5, RetryFailedNodeInv
  <1>6. CASE \E s \in Runs : ReviewSnapshot(r, s)
    <2>1. 1 \in Heads
      BY QueueAssumption DEF Heads
    <2> QED BY <1>6, <2>1, NewRunsInv
  <1>7. CASE \E s \in Runs, h \in Heads : NewReview(r, s, h)
    BY <1>7, NewRunsInv
  <1> QED BY <1>1, <1>2, <1>3, <1>4, <1>5, <1>6, <1>7

LEMMA NextInv ==
    ASSUME Inv, [Next]_vars
    PROVE  Inv'
  <1>1. CASE UNCHANGED vars
    BY <1>1 DEF vars, Inv, TypeOK, LeaseConsistent
  <1>2. CASE Next
    BY <1>2, ArrivalsInv, ClaimInv, RenewInv, WorkInv, ForgetInv, ClockInv,
       RecoverInv, OperatorInv DEF Next, Poll
  <1> QED BY <1>1, <1>2

\* Inv is an invariant: every reachable state is well typed, and in it the
\* three lease fields of every task agree with its status.
THEOREM InvHolds == Spec => []Inv
  BY InitInv, NextInv, PTL DEF Spec

\* Type correctness of the queue, for any number of runs, commits, processes,
\* identities and operator actions.
THEOREM TypeCorrect == Spec => []TypeOK
  <1>1. Inv => TypeOK
    BY DEF Inv
  <1> QED BY <1>1, InvHolds, PTL

\* Owner, expiry and claimed stage are set and cleared together in every
\* transaction of the queue, and no paused task is running.
THEOREM LeaseIsConsistent == Spec => []LeaseConsistent
  <1>1. Inv => LeaseConsistent
    BY DEF Inv
  <1> QED BY <1>1, InvHolds, PTL
-----------------------------------------------------------------------------
(***************************************************************************)
(* Why the ownership check of _locked_owned_task fences, proved for every  *)
(* value of the constants under either of two conditions: no two processes *)
(* run with the same OPENREVIEWER_WORKER_ID, by default the host name; or  *)
(* no operator takes RETRY, the one action that takes counters back to     *)
(* values an old lease may carry.  The run queue_fencing_after_retry shows *)
(* that the check does not fence where neither holds.                      *)
(*                                                                         *)
(* Only claim_next makes a task running.  Every other transaction is quiet:*)
(* it leaves a running task to its owner and its counters, or takes the    *)
(* task out of "running".                                                  *)
(***************************************************************************)

DistinctWorkers == \A p, q \in Procs : WorkerOf[p] = WorkerOf[q] => p = q

ClaimsApart == DistinctWorkers \/ "retry" \notin OpKinds

\* u continues the lease of t, perhaps to its expiry.
Continues(t, u) ==
    /\ u.exec = t.exec /\ u.owner = t.owner /\ u.claimedFrom = t.claimedFrom
    /\ u.attempts = t.attempts /\ u.models = t.models /\ u.polls = t.polls
    /\ u.plan = t.plan /\ u.lease \in {t.lease, "expired"}

\* The process has forgotten its lease, or still has the same one.
SameLease(l, m) ==
    \/ m.run = 0
    \/ /\ m.run = l.run /\ m.epoch = l.epoch
       /\ m.attempts = l.attempts /\ m.models = l.models
       /\ m.polls = l.polls /\ m.claimedFrom = l.claimedFrom
       /\ m.plan = l.plan

QuietRows == \A s \in Runs : \/ row'[s].exec # "running"
                             \/ Continues(row[s], row'[s])
QuietHeld == \A q \in Procs : SameLease(held[q], held'[q])
QuietHist == \A s \in Runs : hist'[s].epoch = hist[s].epoch

Quiet == QuietRows /\ QuietHeld /\ QuietHist

-----------------------------------------------------------------------------
(* The transactions of the worker are quiet.                               *)

LEMMA OneRow ==
    ASSUME Inv, NEW r \in Runs, NEW t, row' = [row EXCEPT ![r] = t],
           t.exec # "running" \/ Continues(row[r], t)
    PROVE  QuietRows
  BY InvRows DEF QuietRows, Continues

LEMMA HeldSame ==
    ASSUME held' = held
    PROVE  QuietHeld
  BY DEF QuietHeld, SameLease

LEMMA HeldForgotten ==
    ASSUME Inv, NEW p \in Procs, held' = [held EXCEPT ![p] = NoLease]
    PROVE  QuietHeld
  BY InvRows DEF QuietHeld, SameLease, NoLease

LEMMA HistSame ==
    ASSUME hist' = hist
    PROVE  QuietHist
  BY DEF QuietHist

\* The failure counters of the history are no claims.
LEMMA HistCounted ==
    ASSUME Inv, NEW r \in Runs, NEW kind,
           \/ hist' = [hist EXCEPT ![r] = Charged(@, row[r], kind)]
           \/ hist' = [hist EXCEPT ![r] = Uncharged(@)]
           \/ hist' = [hist EXCEPT ![r].approved = TRUE]
           \/ hist' = [hist EXCEPT ![r].approved = FALSE]
    PROVE  QuietHist
  <1>1. Charged(hist[r], row[r], kind).epoch = hist[r].epoch
    <2>1. /\ [hist[r] EXCEPT !.model = @ + 1].epoch = hist[r].epoch
          /\ [hist[r] EXCEPT !.poll = @ + 1].epoch = hist[r].epoch
          /\ [hist[r] EXCEPT !.work = @ + 1].epoch = hist[r].epoch
      BY InvRows DEF Hist
    <2> QED BY <2>1, Zenon DEF Charged
  <1>2. Uncharged(hist[r]).epoch = hist[r].epoch
    BY InvRows DEF Hist, Uncharged
  <1> QED BY <1>1, <1>2, InvRows DEF QuietHist, Hist

LEMMA OwnedStatusExec ==
    ASSUME NEW t \in Row, NEW e, NEW n
    PROVE  SetWorkflow(SetOwnedStatus(t, e), n).exec = e
  BY DEF Row, SetWorkflow, SetOwnedStatus, Unleased

LEMMA SupersededExec ==
    ASSUME NEW t \in Row
    PROVE  Superseded(t).exec # "running"
  BY DEF Row, Superseded, SetWorkflow, SetOwnedStatus, Unleased

LEMMA RescheduledExec ==
    ASSUME NEW t, GoodRow(t), t.exec = "running", NEW kind
    PROVE  RescheduleOrFail(t, kind).exec # "running"
  <1> DEFINE busy == kind = "batch_busy" /\ IsModelStage(t)
             models == IF busy THEN t.models - 1 ELSE t.models
             u == [Unleased(t) EXCEPT !.models = models]
  <1>1. t.claimedFrom \in Claimables
    BY DEF GoodRow, Consistent, Row
  <1> HIDE DEF models
  <1>2. SetWorkflow([u EXCEPT !.exec = "failed"], "failed").exec = "failed"
    BY DEF GoodRow, Row, Unleased, SetWorkflow
  <1>3. [u EXCEPT !.exec = t.claimedFrom, !.due = FALSE].exec = t.claimedFrom
    BY DEF GoodRow, Row, Unleased
  <1>4. RescheduleOrFail(t, kind).exec \in {"failed", t.claimedFrom}
    BY <1>2, <1>3 DEF RescheduleOrFail, models
  <1> QED BY <1>1, <1>4 DEF Claimables

LEMMA FinishQuiet ==
    ASSUME Inv, NEW p \in Procs, NEW t, Owns(p), t.exec # "running",
           Finish(p, t)
    PROVE  QuietRows /\ QuietHeld
  BY OwnsRunning, OneRow, HeldForgotten DEF Finish

LEMMA StoreEndsQuiet ==
    ASSUME Inv, NEW p \in Procs,
           StoreHeadMismatch(p) \/ StoreNotReviewable(p) \/ StorePlanStale(p)
    PROVE  Quiet
  <1>1. Owns(p)
    BY DEF StoreHeadMismatch, StoreNotReviewable, StorePlanStale, ReadyToStore
  <1>2. row[held[p].run] \in Row
    BY <1>1, OwnsRunning
  <1>3. Superseded(row[held[p].run]).exec # "running"
    BY <1>2, SupersededExec
  <1>4. SetWorkflow(SetOwnedStatus(row[held[p].run], "cancelled"),
                    "cancelled").exec # "running"
    BY <1>2, OwnedStatusExec
  <1>5. QuietHist
    BY HistSame DEF StoreHeadMismatch, StoreNotReviewable, StorePlanStale
  <1> QED BY <1>1, <1>3, <1>4, <1>5, FinishQuiet
          DEF StoreHeadMismatch, StoreNotReviewable, StorePlanStale, Quiet

LEMMA AcceptQuiet ==
    ASSUME Inv, NEW p \in Procs, NEW t, NEW complete \in BOOLEAN,
           ReadyToStore(p), t.exec # "running", AcceptContext(p, t, complete)
    PROVE  Quiet
  <1> DEFINE r == held[p].run
  <1>1. r \in Runs
    BY OwnsRunning DEF ReadyToStore
  <1>2. \A s \in Runs : Superseded(row[s]).exec # "running"
    BY InvRows, SupersededExec DEF GoodRow
  <1>3. QuietRows
    BY <1>2, InvRows DEF AcceptContext, QuietRows, Continues
  <1>4. QuietHeld
    BY HeldForgotten DEF AcceptContext
  <1>5. QuietHist
    BY <1>1, InvRows DEF AcceptContext, QuietHist, Hist
  <1> QED BY <1>3, <1>4, <1>5 DEF Quiet

LEMMA StoreContextQuiet ==
    ASSUME Inv, NEW p \in Procs, NEW complete \in BOOLEAN,
           \/ StoreCiPending(p, complete)
           \/ StoreCiTimeout(p, complete)
           \/ StoreCiReady(p, complete)
    PROVE  Quiet
  <1> DEFINE t == row[held[p].run]
             w == [SetWorkflow(SetOwnedStatus(t, "waiting_for_ci"), "ci")
                   EXCEPT !.deadline = "pending", !.due = FALSE]
             d == SetWorkflow(SetOwnedStatus(t, "timed_out"), "failed")
             y == [SetWorkflow(SetOwnedStatus(t, "ready_for_review"),
                               "planning") EXCEPT !.deadline = "none"]
  <1>1. ReadyToStore(p) /\ t \in Row
    BY OwnsRunning
       DEF StoreCiPending, StoreCiTimeout, StoreCiReady, ReadyToStore
  <1>2. w.exec # "running" /\ d.exec # "running" /\ y.exec # "running"
    BY <1>1 DEF Row, SetWorkflow, SetOwnedStatus, Unleased
  <1>3. \/ AcceptContext(p, w, complete)
        \/ AcceptContext(p, d, complete)
        \/ AcceptContext(p, y, complete)
    BY DEF StoreCiPending, StoreCiTimeout, StoreCiReady
  <1> QED BY <1>1, <1>2, <1>3, AcceptQuiet

LEMMA StoreReviewQuiet ==
    ASSUME Inv, NEW p \in Procs, NEW c \in {"complete", "partial"},
           \/ StorePlan(p) \/ StoreReview(p, c) \/ StorePartialReview(p)
           \/ PauseForBudget(p)
    PROVE  Quiet
  <1> DEFINE t == row[held[p].run]
  <1>1. Owns(p) /\ t \in Row
    BY OwnsRunning DEF StorePlan, StoreReview, StorePartialReview,
                       PauseForBudget
  <1>2. QuietHist
    <2>1. StoreReview(p, c) => hist' = [hist EXCEPT
                                           ![held[p].run].approved = FALSE]
      BY DEF StoreReview
    <2>2. StorePlan(p) \/ StorePartialReview(p) \/ PauseForBudget(p)
            => hist' = hist
      BY DEF StorePlan, StorePartialReview, PauseForBudget
    <2> QED BY <1>1, <2>1, <2>2, HistSame, HistCounted, OwnsRunning
  <1>3. ASSUME NEW v, Finish(p, v), v.exec # "running"
        PROVE  Quiet
    BY <1>1, <1>2, <1>3, FinishQuiet DEF Quiet
  <1>4. CASE StorePlan(p)
    <2> DEFINE v == [SetWorkflow(SetOwnedStatus(t, "ready_for_review"),
                                 "agent_batches") EXCEPT !.plan = "open"]
    <2>1. Finish(p, v)
      BY <1>4 DEF StorePlan
    <2>2. v.exec = "ready_for_review"
      BY <1>1 DEF Row, SetWorkflow, SetOwnedStatus, Unleased
    <2> QED BY <1>3, <2>1, <2>2
  <1>5. CASE StoreReview(p, c)
    <2> DEFINE old == t.snapshot \/ HasNewer(held[p].run)
               n == IF old THEN "completed" ELSE "awaiting_approval"
               v == [SetWorkflow(SetOwnedStatus(t, "completed"), n) EXCEPT
                        !.plan = "done", !.snapshot = old, !.coverage = c]
    <2>1. Finish(p, v)
      BY <1>5 DEF StoreReview
    <2> HIDE DEF old, n
    <2>2. v.exec = "completed"
      BY <1>1 DEF Row, SetWorkflow, SetOwnedStatus, Unleased
    <2> QED BY <1>3, <2>1, <2>2
  <1>6. CASE StorePartialReview(p)
    <2> DEFINE u == SetWorkflow(SetOwnedStatus(t, "failed"), "agent_batches")
               b == u.snapshot \/ HasNewer(held[p].run)
               v == [u EXCEPT !.snapshot = @ \/ HasNewer(held[p].run),
                              !.coverage = "partial"]
               w == [u EXCEPT !.snapshot = b, !.coverage = "partial"]
    <2>1. Finish(p, v) /\ v = w
      BY <1>6 DEF StorePartialReview
    <2> HIDE DEF b
    <2>2. w.exec = "failed"
      BY <1>1 DEF Row, SetWorkflow, SetOwnedStatus, Unleased
    <2> HIDE DEF v, w
    <2> QED BY <1>3, <2>1, <2>2
  <1>7. CASE PauseForBudget(p)
    <2> DEFINE v == [SetWorkflow(SetOwnedStatus(t, "ready_for_review"),
                                 "paused") EXCEPT
                        !.pausedFrom = "agent_batches"]
    <2>1. Finish(p, v)
      BY <1>7 DEF PauseForBudget
    <2>2. v.exec = "ready_for_review"
      BY <1>1 DEF Row, SetWorkflow, SetOwnedStatus, Unleased
    <2> QED BY <1>3, <2>1, <2>2
  <1> QED BY <1>4, <1>5, <1>6, <1>7

LEMMA ReportErrorQuiet ==
    ASSUME Inv, NEW p \in Procs, NEW kind, ReportError(p, kind)
    PROVE  Quiet
  <1>1. /\ Owns(p) /\ held[p].run \in Runs
        /\ GoodRow(row[held[p].run]) /\ row[held[p].run].exec = "running"
    BY OwnsRunning DEF ReportError
  <1>2. RescheduleOrFail(row[held[p].run], kind).exec # "running"
    BY <1>1, RescheduledExec
  <1>3. QuietHist
    BY <1>1, HistCounted DEF ReportError
  <1> QED BY <1>1, <1>2, <1>3, FinishQuiet DEF ReportError, Quiet

LEMMA MarkAggregatingQuiet ==
    ASSUME Inv, NEW p \in Procs, MarkAggregating(p)
    PROVE  Quiet
  <1> DEFINE r == held[p].run
             t == SetWorkflow(row[r], "aggregating")
  <1>1. r \in Runs /\ row[r] \in Row
    BY OwnsRunning DEF MarkAggregating
  <1>2. Continues(row[r], t)
    BY <1>1 DEF Continues, SetWorkflow, Row
  <1>3. row' = [row EXCEPT ![r] = t]
    BY DEF MarkAggregating
  <1> HIDE DEF t
  <1> QED BY <1>1, <1>2, <1>3, OneRow, HeldSame, HistSame
          DEF MarkAggregating, Quiet

\* A renewal is only granted while the lease is live.
LEMMA RenewQuiet ==
    ASSUME Inv, NEW p \in Procs, Renew(p)
    PROVE  Quiet
  <1> DEFINE r == held[p].run
             t == [row[r] EXCEPT !.lease = "live"]
  <1>1. r \in Runs /\ row[r] \in Row /\ row[r].lease = "live"
    BY OwnsRunning DEF Renew, Owns, Owned
  <1>2. Continues(row[r], t)
    BY <1>1 DEF Continues, Row
  <1>3. row' = [row EXCEPT ![r] = t]
    BY DEF Renew
  <1> HIDE DEF t
  <1> QED BY <1>1, <1>2, <1>3, OneRow, HeldSame, HistSame DEF Renew, Quiet

LEMMA LoadContextQuiet ==
    ASSUME Inv, NEW p \in Procs, LoadContext(p)
    PROVE  Quiet
  <1>1. QuietHeld
    BY InvRows DEF LoadContext, QuietHeld, SameLease, Lease
  <1>2. QuietRows
    BY DEF LoadContext, QuietRows, Continues
  <1> QED BY <1>1, <1>2, HistSame DEF LoadContext, Quiet

LEMMA ForgetQuiet ==
    ASSUME Inv, NEW p \in Procs, LoseLease(p) \/ Crash(p)
    PROVE  Quiet
  <1>1. QuietHeld
    BY HeldForgotten DEF LoseLease, Crash
  <1>2. QuietRows
    BY DEF LoseLease, Crash, QuietRows, Continues
  <1> QED BY <1>1, <1>2, HistSame DEF LoseLease, Crash, Quiet

LEMMA WorkQuiet ==
    ASSUME Inv, NEW p \in Procs, Work(p)
    PROVE  Quiet
  <1>1. ASSUME NEW c \in BOOLEAN,
               \/ StoreCiPending(p, c) \/ StoreCiTimeout(p, c)
               \/ StoreCiReady(p, c)
        PROVE  Quiet
    BY <1>1, StoreContextQuiet
  <1>2. ASSUME NEW c \in {"complete", "partial"}, StoreReview(p, c)
        PROVE  Quiet
    BY <1>2, StoreReviewQuiet
  <1>3. StorePlan(p) \/ StorePartialReview(p) \/ PauseForBudget(p) => Quiet
    BY StoreReviewQuiet
  <1> QED BY <1>1, <1>2, <1>3, LoadContextQuiet, MarkAggregatingQuiet,
             ForgetQuiet, StoreEndsQuiet, ReportErrorQuiet DEF Work, Stored

-----------------------------------------------------------------------------
(* Arrivals, the clock, recovery and the operator are quiet.               *)

LEMMA ArrivalsQuiet ==
    ASSUME Inv, Arrivals
    PROVE  Quiet
  <1>1. CASE Push
    BY <1>1, HeldSame, HistSame DEF Push, Quiet, QuietRows, Continues
  <1>2. ASSUME NEW r \in Runs, NEW h \in Heads, CreateRun(r, h)
        PROVE  Quiet
    <2>1. FreshRun(h).exec # "running"
      BY DEF FreshRun, NoRow
    <2> QED BY <1>2, <2>1, OneRow, HeldSame, HistSame DEF CreateRun, Quiet
  <1> QED BY <1>1, <1>2 DEF Arrivals

LEMMA ClockQuiet ==
    ASSUME Inv, Clock
    PROVE  Quiet
  <1>1. PICK r \in Runs : \/ ExpireAbandoned(r) \/ MissRenewal(r)
                          \/ BecomeDue(r) \/ DeadlinePasses(r)
    BY DEF Clock
  <1>2. /\ Continues(row[r], [row[r] EXCEPT !.lease = "expired"])
        /\ Continues(row[r], [row[r] EXCEPT !.due = TRUE])
        /\ Continues(row[r], [row[r] EXCEPT !.deadline = "passed"])
    BY NodeType DEF Continues, Row
  <1>3. QuietRows
    BY <1>1, <1>2, OneRow DEF ExpireAbandoned, MissRenewal, Expired,
                              BecomeDue, DeadlinePasses
  <1>4. held' = held /\ hist' = hist
    BY <1>1 DEF ExpireAbandoned, MissRenewal, Expired, BecomeDue,
                DeadlinePasses
  <1> QED BY <1>3, <1>4, HeldSame, HistSame DEF Quiet

LEMMA RecoverQuiet ==
    ASSUME Inv, NEW r \in Runs, Recover(r)
    PROVE  Quiet
  <1>1. RescheduleOrFail(row[r], "retryable").exec # "running"
    BY InvRows, RescheduledExec DEF Recover
  <1>2. QuietHist
    BY HistCounted DEF Recover
  <1> QED BY <1>1, <1>2, OneRow, HeldSame DEF Recover, Quiet

LEMMA OperateQuiet ==
    ASSUME Inv, NEW r \in Runs, NEW t, NEW kind, Operate(kind, r, t),
           t.exec # "running" \/ Continues(row[r], t), QuietHist
    PROVE  Quiet
  BY OneRow, HeldSame DEF Operate, Quiet

\* START, APPROVE, REJECT and EXPEDITE may meet a running task and leave its
\* lease alone.
LEMMA NodeActionsQuiet ==
    ASSUME Inv, NEW r \in Runs,
           Start(r) \/ Approve(r) \/ Reject(r) \/ Expedite(r)
    PROVE  Quiet
  <1>1. \A n \in Nodes :
            Continues(row[r], [row[r] EXCEPT !.wf = n, !.pausedFrom = "none"])
    BY NodeType DEF Continues, Row
  <1>2. Continues(row[r], [row[r] EXCEPT !.due = TRUE])
    BY NodeType DEF Continues, Row
  <1>3. QuietHist
    BY HistSame, HistCounted DEF Start, Approve, Reject, Expedite
  <1> QED BY <1>1, <1>2, <1>3, NodeFacts, OperateQuiet
          DEF Start, Approve, Reject, Expedite

LEMMA PauseQuiet ==
    ASSUME Inv, NEW r \in Runs, NEW explicit, Pause(r) \/ Resume(r, explicit)
    PROVE  Quiet
  <1>1. \A n : /\ PausedExec(n, row[r].exec) # "running"
               /\ ResumedExec(n, row[r].exec) # "running"
    BY NodeType, ExecChoices, ExecFacts
  <1>2. row[r] \in Row /\ Refreshed(r) \in Row
    BY NodeType, RefreshedGood
  <1>3. QuietHist
    BY HistCounted DEF Pause, Resume
  <1>4. PICK t, kind : Operate(kind, r, t) /\ t.exec # "running"
    <2>1. CASE Pause(r)
      <3>1. [Unleased(row[r]) EXCEPT !.wf = "paused",
                !.pausedFrom = row[r].wf, !.due = TRUE,
                !.exec = PausedExec(row[r].wf, row[r].exec)].exec
              = PausedExec(row[r].wf, row[r].exec)
        BY <1>2 DEF Unleased, Row
      <3> QED BY <1>1, <2>1, <3>1 DEF Pause
    <2>2. CASE Resume(r, explicit)
      <3> DEFINE default == IF row[r].pausedFrom = "none" THEN "ci"
                            ELSE row[r].pausedFrom
                 target == IF explicit = "none" THEN default ELSE explicit
                 e == ResumedExec(target, row[r].exec)
      <3>1. \A n : [Unleased(Refreshed(r)) EXCEPT !.wf = n,
                       !.pausedFrom = "none", !.due = TRUE, !.exec = e].exec
                     = e
        BY <1>2 DEF Unleased, Row
      <3> QED BY <1>1, <2>2, <3>1 DEF Resume
    <2> QED BY <2>1, <2>2
  <1> QED BY <1>3, <1>4, OperateQuiet

LEMMA RetriesQuiet ==
    ASSUME Inv, NEW r \in Runs, NEW target, NEW c,
           \/ RetryStage(r, target) \/ Cancel(r) \/ Retry(r)
           \/ RetryFailedNode(r, c)
    PROVE  Quiet
  <1> DEFINE t == Refreshed(r)
             v == StageReset(t, target)
  <1>1. row[r] \in Row /\ t \in Row
    BY NodeType, RefreshedGood
  <1>2. DOMAIN v = DOMAIN row[r]
    BY <1>1 DEF StageReset, Row
  <1> HIDE DEF v, t
  <1>3. QuietHist
    BY HistSame, HistCounted DEF RetryStage, Cancel, Retry, RetryFailedNode
  <1>4. ASSUME NEW u, NEW kind, Operate(kind, r, u), u.exec # "running"
        PROVE  Quiet
    BY <1>3, <1>4, OperateQuiet
  <1>5. CASE RetryStage(r, target)
    <2> DEFINE e == IF target = "ci" THEN "queued" ELSE "ready_for_review"
               u == [Unleased(v) EXCEPT !.wf = target, !.pausedFrom = "none",
                                        !.due = TRUE, !.exec = e]
    <2>1. Operate("retry_stage", r, u)
      BY <1>5 DEF RetryStage, v, t
    <2>2. u.exec = e /\ e # "running"
      BY <1>1, <1>2 DEF Unleased, Row
    <2> HIDE DEF u
    <2> QED BY <1>4, <2>1, <2>2
  <1>6. CASE Cancel(r)
    <2> DEFINE u == [Unleased(row[r]) EXCEPT !.exec = "cancelled",
                         !.wf = "cancelled", !.pausedFrom = "none"]
    <2>1. Operate("cancel", r, u)
      BY <1>6 DEF Cancel
    <2>2. u.exec = "cancelled"
      BY <1>1 DEF Unleased, Row
    <2> HIDE DEF u
    <2> QED BY <1>4, <2>1, <2>2
  <1>7. CASE Retry(r)
    <2> DEFINE e == IF t.plan # "none" \/ t.snapshot
                    THEN "ready_for_review" ELSE "queued"
               n == IF t.plan # "none" THEN "agent_batches"
                    ELSE IF t.snapshot THEN "planning" ELSE "queued"
               u == [Unleased(t) EXCEPT !.exec = e, !.wf = n, !.attempts = 0,
                             !.models = 0, !.polls = 0, !.due = TRUE]
    <2>1. Operate("retry", r, u)
      BY <1>7 DEF Retry, t
    <2>2. e # "running"
      OBVIOUS
    <2> HIDE DEF e, n
    <2>3. u.exec = e
      BY <1>1 DEF Unleased, Row
    <2> HIDE DEF u
    <2> QED BY <1>4, <2>1, <2>2, <2>3
  <1>8. CASE RetryFailedNode(r, c)
    <2> DEFINE u == [Unleased(t) EXCEPT !.exec = "ready_for_review",
                          !.wf = "agent_batches", !.pausedFrom = "none",
                          !.due = TRUE, !.plan = "open", !.coverage = c]
    <2>1. Operate("retry_failed_node", r, u)
      BY <1>8 DEF RetryFailedNode, t
    <2>2. u.exec = "ready_for_review"
      BY <1>1 DEF Unleased, Row
    <2> HIDE DEF u
    <2> QED BY <1>4, <2>1, <2>2
  <1> QED BY <1>5, <1>6, <1>7, <1>8

LEMMA NewRunsQuiet ==
    ASSUME Inv, NEW r \in Runs, NEW s \in Runs, NEW h,
           ReviewSnapshot(r, s) \/ NewReview(r, s, h)
    PROVE  Quiet
  <1>1. \A g : FreshRun(g).exec # "running" /\ HistoryRun(g).exec # "running"
    BY DEF FreshRun, HistoryRun, NoRow
  <1>2. ASSUME NEW t, NEW kind, t.exec # "running", RunFrom(kind, r, s, t)
        PROVE  Quiet
    BY <1>2, OneRow, HeldSame, HistSame DEF RunFrom, Quiet
  <1> QED BY <1>1, <1>2 DEF ReviewSnapshot, NewReview

LEMMA OperatorQuiet ==
    ASSUME Inv, Operator
    PROVE  Quiet
  <1> PICK r \in Runs :
        \/ Start(r) \/ Pause(r) \/ Approve(r) \/ Reject(r) \/ Cancel(r)
        \/ Retry(r) \/ Expedite(r)
        \/ \E target \in ResumeTargets \union {"none"} : Resume(r, target)
        \/ \E target \in Retryables : RetryStage(r, target)
        \/ \E c \in {"complete", "partial"} : RetryFailedNode(r, c)
        \/ \E s \in Runs : ReviewSnapshot(r, s)
        \/ \E s \in Runs, h \in Heads : NewReview(r, s, h)
    BY DEF Operator
  <1>1. CASE Start(r) \/ Approve(r) \/ Reject(r) \/ Expedite(r)
    BY <1>1, NodeActionsQuiet
  <1>2. CASE Pause(r)
    BY <1>2, PauseQuiet
  <1>3. CASE Cancel(r) \/ Retry(r)
    BY <1>3, RetriesQuiet
  <1>4. CASE \E target \in ResumeTargets \union {"none"} : Resume(r, target)
    BY <1>4, PauseQuiet
  <1>5. CASE \E target \in Retryables : RetryStage(r, target)
    BY <1>5, RetriesQuiet
  <1>6. CASE \E c \in {"complete", "partial"} : RetryFailedNode(r, c)
    BY <1>6, RetriesQuiet
  <1>7. CASE \E s \in Runs : ReviewSnapshot(r, s)
    BY <1>7, NewRunsQuiet
  <1>8. CASE \E s \in Runs, h \in Heads : NewReview(r, s, h)
    BY <1>8, NewRunsQuiet
  <1> QED BY <1>1, <1>2, <1>3, <1>4, <1>5, <1>6, <1>7, <1>8

\* Every step that is not a claim is quiet.
LEMMA QuietStep ==
    ASSUME Inv, [Next]_vars
    PROVE  Quiet \/ \E p \in Procs, r \in Runs : Claim(p, r)
  <1>1. CASE UNCHANGED vars
    <2>1. row' = row /\ held' = held /\ hist' = hist
      BY <1>1 DEF vars
    <2>2. QuietRows
      BY <2>1 DEF QuietRows, Continues
    <2> QED BY <2>1, <2>2, HeldSame, HistSame DEF Quiet
  <1>2. CASE Next
    BY <1>2, ArrivalsQuiet, RenewQuiet, WorkQuiet, ForgetQuiet, ClockQuiet,
       RecoverQuiet, OperatorQuiet DEF Next, Poll
  <1> QED BY <1>1, <1>2

-----------------------------------------------------------------------------
(* A shared identity.  When two processes run with the same worker id, the *)
(* owner column tells nothing, and the three counters of the task have to  *)
(* tell the claims apart.                                                  *)

\* The next claim of t advances attempt_count.
AttemptNext(t) == t.plan = "none" /\ t.exec \notin {"waiting_for_ci", "running"}

SameCounts(t, u) ==
    u.attempts = t.attempts /\ u.models = t.models /\ u.polls = t.polls

\* A transaction that takes no counter back: polls may restart, and a plan
\* may be dropped, once it is attempt_count that the next claim advances.
Calm(t, u) ==
    t.exec # "absent" =>
        /\ u.exec # "absent"
        /\ u.attempts = t.attempts /\ u.models = t.models
        /\ u.polls = t.polls \/ AttemptNext(u)
        /\ AttemptNext(t) => AttemptNext(u)

CalmRows == \A s \in Runs : Calm(row[s], row'[s])

\* The owner of a model claim gives its attempt back, which batch_busy does.
Refund(t, u, l) ==
    /\ t.exec = "running" /\ u.exec \notin {"absent", "running"}
    /\ t.claimedFrom = "ready_for_review" /\ l.plan
    /\ u.attempts = t.attempts /\ u.polls = t.polls
    /\ u.models = t.models - 1

Refunded(p) ==
    /\ Owns(p)
    /\ held'[p].run = 0
    /\ Refund(row[held[p].run], row'[held[p].run], held[p])
    /\ \A s \in Runs : s # held[p].run => row'[s] = row[s]

Counted == CalmRows \/ \E p \in Procs : Refunded(p)

LEMMA CalmRunning ==
    ASSUME NEW t, NEW u, SameCounts(t, u), t.exec = "running",
           u.exec # "absent"
    PROVE  Calm(t, u)
  BY DEF Calm, SameCounts, AttemptNext

LEMMA CalmSame ==
    ASSUME NEW t, NEW u, SameCounts(t, u), u.plan = t.plan,
           u.exec = t.exec \/ u.exec \notin {"waiting_for_ci", "running", "absent"}
    PROVE  Calm(t, u)
  BY DEF Calm, SameCounts, AttemptNext

LEMMA CalmOne ==
    ASSUME Inv, NEW r \in Runs, NEW t, row' = [row EXCEPT ![r] = t],
           Calm(row[r], t)
    PROVE  CalmRows
  BY InvRows DEF CalmRows, Calm

LEMMA CalmUnchanged ==
    ASSUME row' = row
    PROVE  CalmRows
  BY DEF CalmRows, Calm

LEMMA OwnedStatusCounts ==
    ASSUME NEW t \in Row, NEW e, NEW n
    PROVE  SameCounts(t, SetWorkflow(SetOwnedStatus(t, e), n))
  BY DEF Row, SetWorkflow, SetOwnedStatus, Unleased, SameCounts

LEMMA SupersededCalm ==
    ASSUME NEW t \in Row
    PROVE  Calm(t, Superseded(t))
  <1>1. /\ SameCounts(t, Superseded(t)) /\ Superseded(t).plan = t.plan
        /\ Superseded(t).exec = "superseded"
    BY DEF Row, Superseded, SetWorkflow, SetOwnedStatus, Unleased, SameCounts
  <1> QED BY <1>1, CalmSame

LEMMA FinishCalm ==
    ASSUME Inv, NEW p \in Procs, NEW t, Owns(p), t.exec # "absent",
           SameCounts(row[held[p].run], t), Finish(p, t)
    PROVE  CalmRows
  <1>1. held[p].run \in Runs /\ row[held[p].run].exec = "running"
    BY OwnsRunning
  <1>2. Calm(row[held[p].run], t)
    BY <1>1, CalmRunning
  <1> QED BY <1>1, <1>2, CalmOne DEF Finish

LEMMA StoreEndsCalm ==
    ASSUME Inv, NEW p \in Procs,
           StoreHeadMismatch(p) \/ StoreNotReviewable(p) \/ StorePlanStale(p)
    PROVE  CalmRows
  <1> DEFINE t == row[held[p].run]
             v == SetWorkflow(SetOwnedStatus(t, "cancelled"), "cancelled")
  <1>1. Owns(p) /\ t \in Row /\ held[p].run \in Runs
    BY OwnsRunning DEF StoreHeadMismatch, StoreNotReviewable, StorePlanStale,
                       ReadyToStore
  <1>2. SameCounts(t, v) /\ v.exec = "cancelled"
    BY <1>1, OwnedStatusCounts, OwnedStatusExec
  <1>3. Finish(p, Superseded(t)) \/ Finish(p, v)
    BY DEF StoreHeadMismatch, StoreNotReviewable, StorePlanStale
  <1> HIDE DEF v
  <1> QED BY <1>1, <1>2, <1>3, SupersededCalm, CalmOne, FinishCalm DEF Finish

LEMMA AcceptCalm ==
    ASSUME Inv, NEW p \in Procs, NEW t, NEW complete \in BOOLEAN,
           ReadyToStore(p), t.exec # "absent", SameCounts(row[held[p].run], t),
           AcceptContext(p, t, complete)
    PROVE  CalmRows
  <1>1. held[p].run \in Runs /\ row[held[p].run].exec = "running"
    BY OwnsRunning DEF ReadyToStore
  <1>2. Calm(row[held[p].run], t)
    BY <1>1, CalmRunning
  <1>3. \A s \in Runs : Calm(row[s], Superseded(row[s]))
    BY InvRows, SupersededCalm DEF GoodRow
  <1>4. \A s \in Runs : Calm(row[s], row[s])
    BY DEF Calm
  <1>5. \A s \in Runs : \/ s = held[p].run /\ row'[s] = t
                       \/ row'[s] \in {row[s], Superseded(row[s])}
    BY DEF AcceptContext
  <1> QED BY <1>2, <1>3, <1>4, <1>5 DEF CalmRows

LEMMA StoreContextCalm ==
    ASSUME Inv, NEW p \in Procs, NEW complete \in BOOLEAN,
           \/ StoreCiPending(p, complete)
           \/ StoreCiTimeout(p, complete)
           \/ StoreCiReady(p, complete)
    PROVE  CalmRows
  <1> DEFINE t == row[held[p].run]
             w == [SetWorkflow(SetOwnedStatus(t, "waiting_for_ci"), "ci")
                   EXCEPT !.deadline = "pending", !.due = FALSE]
             d == SetWorkflow(SetOwnedStatus(t, "timed_out"), "failed")
             y == [SetWorkflow(SetOwnedStatus(t, "ready_for_review"),
                               "planning") EXCEPT !.deadline = "none"]
  <1>1. ReadyToStore(p) /\ t \in Row
    BY OwnsRunning
       DEF StoreCiPending, StoreCiTimeout, StoreCiReady, ReadyToStore
  <1>2. w.exec # "absent" /\ d.exec # "absent" /\ y.exec # "absent"
    BY <1>1 DEF Row, SetWorkflow, SetOwnedStatus, Unleased
  <1>3. SameCounts(t, w) /\ SameCounts(t, d) /\ SameCounts(t, y)
    BY <1>1 DEF Row, SetWorkflow, SetOwnedStatus, Unleased, SameCounts
  <1>4. \/ AcceptContext(p, w, complete)
        \/ AcceptContext(p, d, complete)
        \/ AcceptContext(p, y, complete)
    BY DEF StoreCiPending, StoreCiTimeout, StoreCiReady
  <1> HIDE DEF w, d, y
  <1> QED BY <1>1, <1>2, <1>3, <1>4, AcceptCalm

LEMMA StoreReviewCalm ==
    ASSUME Inv, NEW p \in Procs, NEW c \in {"complete", "partial"},
           \/ StorePlan(p) \/ StoreReview(p, c) \/ StorePartialReview(p)
           \/ PauseForBudget(p)
    PROVE  CalmRows
  <1> DEFINE t == row[held[p].run]
  <1>1. Owns(p) /\ t \in Row
    BY OwnsRunning DEF StorePlan, StoreReview, StorePartialReview,
                       PauseForBudget
  <1>2. ASSUME NEW v, Finish(p, v), v.exec # "absent", SameCounts(t, v)
        PROVE  CalmRows
    BY <1>1, <1>2, FinishCalm
  <1>3. CASE StorePlan(p)
    <2> DEFINE v == [SetWorkflow(SetOwnedStatus(t, "ready_for_review"),
                                 "agent_batches") EXCEPT !.plan = "open"]
    <2>1. Finish(p, v)
      BY <1>3 DEF StorePlan
    <2>2. v.exec = "ready_for_review" /\ SameCounts(t, v)
      BY <1>1 DEF Row, SetWorkflow, SetOwnedStatus, Unleased, SameCounts
    <2> HIDE DEF v
    <2> QED BY <1>2, <2>1, <2>2
  <1>4. CASE StoreReview(p, c)
    <2> DEFINE old == t.snapshot \/ HasNewer(held[p].run)
               n == IF old THEN "completed" ELSE "awaiting_approval"
               v == [SetWorkflow(SetOwnedStatus(t, "completed"), n) EXCEPT
                        !.plan = "done", !.snapshot = old, !.coverage = c]
    <2>1. Finish(p, v)
      BY <1>4 DEF StoreReview
    <2> HIDE DEF old, n
    <2>2. v.exec = "completed" /\ SameCounts(t, v)
      BY <1>1 DEF Row, SetWorkflow, SetOwnedStatus, Unleased, SameCounts
    <2> HIDE DEF v
    <2> QED BY <1>2, <2>1, <2>2
  <1>5. CASE StorePartialReview(p)
    <2> DEFINE u == SetWorkflow(SetOwnedStatus(t, "failed"), "agent_batches")
               b == u.snapshot \/ HasNewer(held[p].run)
               v == [u EXCEPT !.snapshot = @ \/ HasNewer(held[p].run),
                              !.coverage = "partial"]
               w == [u EXCEPT !.snapshot = b, !.coverage = "partial"]
    <2>1. Finish(p, v) /\ v = w
      BY <1>5 DEF StorePartialReview
    <2> HIDE DEF b
    <2>2. w.exec = "failed" /\ SameCounts(t, w)
      BY <1>1 DEF Row, SetWorkflow, SetOwnedStatus, Unleased, SameCounts
    <2> HIDE DEF v, w
    <2> QED BY <1>2, <2>1, <2>2
  <1>6. CASE PauseForBudget(p)
    <2> DEFINE v == [SetWorkflow(SetOwnedStatus(t, "ready_for_review"),
                                 "paused") EXCEPT
                        !.pausedFrom = "agent_batches"]
    <2>1. Finish(p, v)
      BY <1>6 DEF PauseForBudget
    <2>2. v.exec = "ready_for_review" /\ SameCounts(t, v)
      BY <1>1 DEF Row, SetWorkflow, SetOwnedStatus, Unleased, SameCounts
    <2> HIDE DEF v
    <2> QED BY <1>2, <2>1, <2>2
  <1> QED BY <1>3, <1>4, <1>5, <1>6

\* A rescheduled or failed task keeps its counters, unless the error gives
\* the model attempt back.
LEMMA RescheduledCounts ==
    ASSUME NEW t, GoodRow(t), t.exec = "running", NEW kind
    PROVE  LET u == RescheduleOrFail(t, kind) IN
           /\ u.exec # "absent"
           /\ u.attempts = t.attempts /\ u.polls = t.polls
           /\ \/ u.models = t.models
              \/ /\ kind = "batch_busy" /\ t.claimedFrom = "ready_for_review"
                 /\ u.models = t.models - 1
  <1> DEFINE busy == kind = "batch_busy" /\ IsModelStage(t)
             models == IF busy THEN t.models - 1 ELSE t.models
             u == [Unleased(t) EXCEPT !.models = models]
             f == SetWorkflow([u EXCEPT !.exec = "failed"], "failed")
             g == [u EXCEPT !.exec = t.claimedFrom, !.due = FALSE]
  <1>1. t.claimedFrom \in Claimables /\ t \in Row
    BY DEF GoodRow, Consistent, Row
  <1>2. \/ models = t.models
        \/ /\ kind = "batch_busy" /\ t.claimedFrom = "ready_for_review"
           /\ models = t.models - 1
    BY DEF IsModelStage
  <1>3. RescheduleOrFail(t, kind) \in {f, g}
    BY DEF RescheduleOrFail
  <1> HIDE DEF models
  <1>4. /\ f.exec # "absent" /\ f.attempts = t.attempts /\ f.polls = t.polls
        /\ f.models = models
    BY <1>1 DEF Row, Unleased, SetWorkflow
  <1>5. /\ g.exec # "absent" /\ g.attempts = t.attempts /\ g.polls = t.polls
        /\ g.models = models
    BY <1>1 DEF Row, Unleased, Claimables
  <1> HIDE DEF f, g
  <1> QED BY <1>2, <1>3, <1>4, <1>5

LEMMA ReportErrorCounted ==
    ASSUME Inv, NEW p \in Procs,
           NEW kind \in {"retryable", "permanent", "batch_busy"},
           ReportError(p, kind)
    PROVE  Counted
  <1> DEFINE t == row[held[p].run]
             u == RescheduleOrFail(t, kind)
  <1>1. Owns(p) /\ held[p].run \in Runs /\ GoodRow(t) /\ t.exec = "running"
    BY OwnsRunning DEF ReportError
  <1>2. Finish(p, u)
    BY DEF ReportError
  <1>3. /\ u.exec # "absent" /\ u.attempts = t.attempts /\ u.polls = t.polls
        /\ \/ u.models = t.models
           \/ /\ kind = "batch_busy" /\ t.claimedFrom = "ready_for_review"
              /\ u.models = t.models - 1
    BY <1>1, RescheduledCounts
  <1>4. u.exec # "running"
    BY <1>1, RescheduledExec
  <1> HIDE DEF u
  <1>5. CASE u.models = t.models
    BY <1>1, <1>2, <1>3, <1>5, FinishCalm DEF SameCounts, Counted
  <1>6. CASE u.models # t.models
    <2>1. /\ row'[held[p].run] = u /\ held'[p].run = 0
          /\ \A s \in Runs : s # held[p].run => row'[s] = row[s]
      BY <1>1, <1>2, InvRows DEF Finish, NoLease
    <2>2. held[p].plan
      BY <1>3, <1>6 DEF ReportError, InModelStage
    <2> QED BY <1>1, <1>3, <1>4, <1>6, <2>1, <2>2
            DEF Refund, Refunded, Counted
  <1> QED BY <1>5, <1>6

LEMMA WorkCounted ==
    ASSUME Inv, NEW p \in Procs, Work(p)
    PROVE  Counted
  <1>1. ASSUME NEW c \in BOOLEAN,
               \/ StoreCiPending(p, c) \/ StoreCiTimeout(p, c)
               \/ StoreCiReady(p, c)
        PROVE  CalmRows
    BY <1>1, StoreContextCalm
  <1>2. ASSUME NEW c \in {"complete", "partial"}, StoreReview(p, c)
        PROVE  CalmRows
    BY <1>2, StoreReviewCalm
  <1>3. StorePlan(p) \/ StorePartialReview(p) \/ PauseForBudget(p) => CalmRows
    BY StoreReviewCalm
  <1>4. LoadContext(p) \/ LoseLease(p) => CalmRows
    BY CalmUnchanged DEF LoadContext, LoseLease
  <1>5. MarkAggregating(p) => CalmRows
    <2> SUFFICES ASSUME MarkAggregating(p) PROVE CalmRows
      OBVIOUS
    <2> DEFINE r == held[p].run
               t == SetWorkflow(row[r], "aggregating")
    <2>1. r \in Runs /\ row[r] \in Row /\ row[r].exec = "running"
      BY OwnsRunning DEF MarkAggregating
    <2>2. SameCounts(row[r], t) /\ t.exec = "running"
      BY <2>1 DEF SameCounts, SetWorkflow, Row
    <2>3. row' = [row EXCEPT ![r] = t]
      BY DEF MarkAggregating
    <2> HIDE DEF t
    <2> QED BY <2>1, <2>2, <2>3, CalmRunning, CalmOne
  <1> QED BY <1>1, <1>2, <1>3, <1>4, <1>5, StoreEndsCalm, ReportErrorCounted
          DEF Work, Stored, Counted

LEMMA RenewCalm ==
    ASSUME Inv, NEW p \in Procs, Renew(p)
    PROVE  CalmRows
  <1> DEFINE r == held[p].run
             t == [row[r] EXCEPT !.lease = "live"]
  <1>1. r \in Runs /\ row[r] \in Row /\ row[r].exec = "running"
    BY OwnsRunning DEF Renew
  <1>2. SameCounts(row[r], t) /\ t.exec = "running"
    BY <1>1 DEF SameCounts, Row
  <1>3. row' = [row EXCEPT ![r] = t]
    BY DEF Renew
  <1> HIDE DEF t
  <1> QED BY <1>1, <1>2, <1>3, CalmRunning, CalmOne

LEMMA AbsentCalm ==
    ASSUME NEW t, NEW u, t.exec = "absent"
    PROVE  Calm(t, u)
  BY DEF Calm

LEMMA ArrivalsCalm ==
    ASSUME Inv, Arrivals
    PROVE  CalmRows
  <1>1. CASE Push
    BY <1>1, CalmUnchanged DEF Push
  <1>2. ASSUME NEW r \in Runs, NEW h \in Heads, CreateRun(r, h)
        PROVE  CalmRows
    BY <1>2, AbsentCalm, CalmOne DEF CreateRun, NextSlot
  <1> QED BY <1>1, <1>2 DEF Arrivals

LEMMA ClockCalm ==
    ASSUME Inv, Clock
    PROVE  CalmRows
  <1>1. PICK r \in Runs : \/ ExpireAbandoned(r) \/ MissRenewal(r)
                          \/ BecomeDue(r) \/ DeadlinePasses(r)
    BY DEF Clock
  <1>2. row[r] \in Row
    BY NodeType
  <1>3. /\ Calm(row[r], [row[r] EXCEPT !.lease = "expired"])
        /\ Calm(row[r], [row[r] EXCEPT !.due = TRUE])
        /\ Calm(row[r], [row[r] EXCEPT !.deadline = "passed"])
    BY <1>2, CalmSame DEF SameCounts, Row
  <1> QED BY <1>1, <1>3, CalmOne DEF ExpireAbandoned, MissRenewal, Expired,
                                     BecomeDue, DeadlinePasses

LEMMA RecoverCalm ==
    ASSUME Inv, NEW r \in Runs, Recover(r)
    PROVE  CalmRows
  <1> DEFINE u == RescheduleOrFail(row[r], "retryable")
  <1>1. GoodRow(row[r]) /\ row[r].exec = "running"
    BY InvRows DEF Recover
  <1>2. u.exec # "absent" /\ SameCounts(row[r], u)
    BY <1>1, RescheduledCounts DEF SameCounts
  <1>3. row' = [row EXCEPT ![r] = u]
    BY DEF Recover
  <1> HIDE DEF u
  <1> QED BY <1>1, <1>2, <1>3, CalmRunning, CalmOne

LEMMA RefreshedCounts ==
    ASSUME NEW t \in Row, NEW r, t = row[r]
    PROVE  /\ Refreshed(r).exec = t.exec /\ Refreshed(r).plan = t.plan
           /\ SameCounts(t, Refreshed(r))
  BY DEF Refreshed, SameCounts, Row

\* The statuses pause and resume write.
LEMMA PausedExecs ==
    ASSUME NEW e, NEW n, e # "absent"
    PROVE  /\ PausedExec(n, e) = e
              \/ PausedExec(n, e) \notin {"waiting_for_ci", "running", "absent"}
           /\ ResumedExec(n, e) = e
              \/ ResumedExec(n, e) \notin {"waiting_for_ci", "running", "absent"}
  BY DEF PausedExec, ResumedExec

LEMMA NodeActionsCalm ==
    ASSUME Inv, NEW r \in Runs,
           Start(r) \/ Approve(r) \/ Reject(r) \/ Expedite(r)
    PROVE  CalmRows
  <1>1. row[r] \in Row
    BY NodeType
  <1>2. ASSUME NEW n PROVE Calm(row[r], [row[r] EXCEPT !.wf = n,
                                            !.pausedFrom = "none"])
    <2> DEFINE u == [row[r] EXCEPT !.wf = n, !.pausedFrom = "none"]
    <2>1. /\ SameCounts(row[r], u) /\ u.plan = row[r].plan
          /\ u.exec = row[r].exec
      BY <1>1 DEF SameCounts, Row
    <2> HIDE DEF u
    <2>2. Calm(row[r], u)
      BY <2>1, CalmSame
    <2> QED BY <2>2 DEF u
  <1>3. Calm(row[r], [row[r] EXCEPT !.due = TRUE])
    BY <1>1, CalmSame DEF SameCounts, Row
  <1> QED BY <1>2, <1>3, CalmOne DEF Start, Approve, Reject, Expedite, Operate

LEMMA PauseCalm ==
    ASSUME Inv, NEW r \in Runs, Pause(r)
    PROVE  CalmRows
  <1> DEFINE node == row[r].wf
             e == PausedExec(node, row[r].exec)
             u == [Unleased(row[r]) EXCEPT !.wf = "paused",
                      !.pausedFrom = node, !.due = TRUE, !.exec = e]
  <1>1. row[r] \in Row /\ row[r].exec # "absent" /\ row' = [row EXCEPT ![r] = u]
    BY NodeType DEF Pause, Operate
  <1>2. e = row[r].exec \/ e \notin {"waiting_for_ci", "running", "absent"}
    BY <1>1, PausedExecs
  <1> HIDE DEF e
  <1>3. SameCounts(row[r], u) /\ u.plan = row[r].plan /\ u.exec = e
    BY <1>1 DEF SameCounts, Unleased, Row
  <1> HIDE DEF u
  <1> QED BY <1>1, <1>2, <1>3, CalmSame, CalmOne

LEMMA ResumeCalm ==
    ASSUME Inv, NEW r \in Runs, NEW explicit, Resume(r, explicit)
    PROVE  CalmRows
  <1> DEFINE default == IF row[r].pausedFrom = "none" THEN "ci"
                        ELSE row[r].pausedFrom
             target == IF explicit = "none" THEN default ELSE explicit
             e == ResumedExec(target, row[r].exec)
             t == Refreshed(r)
             u == [Unleased(t) EXCEPT !.wf = target,
                      !.pausedFrom = "none", !.due = TRUE, !.exec = e]
  <1>1. row[r] \in Row /\ row[r].exec # "absent" /\ row' = [row EXCEPT ![r] = u]
    BY NodeType DEF Resume, Operate
  <1>2. e = row[r].exec \/ e \notin {"waiting_for_ci", "running", "absent"}
    BY <1>1, PausedExecs
  <1>3. t \in Row /\ t.plan = row[r].plan /\ SameCounts(row[r], t)
    BY <1>1, RefreshedGood, RefreshedCounts
  <1> HIDE DEF e, target, t
  <1>4. SameCounts(t, u) /\ u.plan = t.plan /\ u.exec = e
    BY <1>3 DEF SameCounts, Unleased, Row
  <1> HIDE DEF u
  <1>5. SameCounts(row[r], u) /\ u.plan = row[r].plan
    BY <1>3, <1>4 DEF SameCounts
  <1> QED BY <1>1, <1>2, <1>4, <1>5, CalmSame, CalmOne

LEMMA CancelCalm ==
    ASSUME Inv, NEW r \in Runs, Cancel(r)
    PROVE  CalmRows
  <1> DEFINE u == [Unleased(row[r]) EXCEPT !.exec = "cancelled",
                       !.wf = "cancelled", !.pausedFrom = "none"]
  <1>1. row[r] \in Row /\ row' = [row EXCEPT ![r] = u]
    BY NodeType DEF Cancel, Operate
  <1>2. SameCounts(row[r], u) /\ u.plan = row[r].plan /\ u.exec = "cancelled"
    BY <1>1 DEF SameCounts, Unleased, Row
  <1> HIDE DEF u
  <1> QED BY <1>1, <1>2, CalmSame, CalmOne

\* Only the reset to the CI stage restarts a counter, the polls, and it drops
\* the plan: the next claim is an attempt.
LEMMA RetryStageCalm ==
    ASSUME Inv, NEW r \in Runs, NEW target \in Retryables,
           RetryStage(r, target)
    PROVE  CalmRows
  <1> DEFINE t == Refreshed(r)
             v == StageReset(t, target)
             e == IF target = "ci" THEN "queued" ELSE "ready_for_review"
             u == [Unleased(v) EXCEPT !.wf = target, !.pausedFrom = "none",
                                      !.due = TRUE, !.exec = e]
  <1>1. row[r] \in Row /\ row' = [row EXCEPT ![r] = u] /\ row[r].plan # "none"
    BY NodeType DEF RetryStage, Operate
  <1>2. t \in Row /\ SameCounts(row[r], t)
    BY <1>1, RefreshedGood, RefreshedCounts
  <1> HIDE DEF t
  <1>3. DOMAIN v = DOMAIN t /\ v.attempts = t.attempts /\ v.models = t.models
    BY <1>2 DEF StageReset, Row
  <1>4. v.polls = t.polls \/ v.plan = "none"
    BY <1>2 DEF StageReset, Row
  <1> HIDE DEF v
  <1>5. SameCounts(v, u) /\ u.plan = v.plan /\ u.exec = e
    BY <1>2, <1>3 DEF SameCounts, Unleased, Row
  <1> HIDE DEF u
  <1>6. Calm(row[r], u)
    BY <1>1, <1>2, <1>3, <1>4, <1>5 DEF SameCounts, Calm, AttemptNext
  <1> QED BY <1>1, <1>6, CalmOne

LEMMA RetryFailedNodeCalm ==
    ASSUME Inv, NEW r \in Runs, NEW c, RetryFailedNode(r, c)
    PROVE  CalmRows
  <1> DEFINE t == Refreshed(r)
             u == [Unleased(t) EXCEPT !.exec = "ready_for_review",
                       !.wf = "agent_batches", !.pausedFrom = "none",
                       !.due = TRUE, !.plan = "open", !.coverage = c]
  <1>1. row[r] \in Row /\ row' = [row EXCEPT ![r] = u] /\ row[r].plan # "none"
    BY NodeType DEF RetryFailedNode, Operate
  <1>2. t \in Row /\ SameCounts(row[r], t)
    BY <1>1, RefreshedGood, RefreshedCounts
  <1> HIDE DEF t
  <1>3. SameCounts(t, u) /\ u.exec = "ready_for_review"
    BY <1>2 DEF SameCounts, Unleased, Row
  <1> HIDE DEF u
  <1>4. Calm(row[r], u)
    BY <1>1, <1>2, <1>3 DEF SameCounts, Calm, AttemptNext
  <1> QED BY <1>1, <1>4, CalmOne

LEMMA OperatorCalm ==
    ASSUME Inv, Operator, "retry" \notin OpKinds
    PROVE  CalmRows
  <1> PICK r \in Runs :
        \/ Start(r) \/ Pause(r) \/ Approve(r) \/ Reject(r) \/ Cancel(r)
        \/ Retry(r) \/ Expedite(r)
        \/ \E target \in ResumeTargets \union {"none"} : Resume(r, target)
        \/ \E target \in Retryables : RetryStage(r, target)
        \/ \E c \in {"complete", "partial"} : RetryFailedNode(r, c)
        \/ \E s \in Runs : ReviewSnapshot(r, s)
        \/ \E s \in Runs, h \in Heads : NewReview(r, s, h)
    BY DEF Operator
  <1>1. CASE Start(r) \/ Approve(r) \/ Reject(r) \/ Expedite(r)
    BY <1>1, NodeActionsCalm
  <1>2. CASE Pause(r) \/ Cancel(r)
    BY <1>2, PauseCalm, CancelCalm
  <1>3. ~Retry(r)
    BY DEF Retry, Operate
  <1>4. CASE \E target \in ResumeTargets \union {"none"} : Resume(r, target)
    BY <1>4, ResumeCalm
  <1>5. CASE \E target \in Retryables : RetryStage(r, target)
    BY <1>5, RetryStageCalm
  <1>6. CASE \E c \in {"complete", "partial"} : RetryFailedNode(r, c)
    BY <1>6, RetryFailedNodeCalm
  <1>7. ASSUME NEW s \in Runs, NEW t, NEW kind, RunFrom(kind, r, s, t)
        PROVE  CalmRows
    BY <1>7, AbsentCalm, CalmOne DEF RunFrom, NextSlot
  <1>8. CASE \/ \E s \in Runs : ReviewSnapshot(r, s)
             \/ \E s \in Runs, h \in Heads : NewReview(r, s, h)
    BY <1>7, <1>8 DEF ReviewSnapshot, NewReview
  <1> QED BY <1>1, <1>2, <1>3, <1>4, <1>5, <1>6, <1>8

LEMMA CountedStep ==
    ASSUME Inv, [Next]_vars, "retry" \notin OpKinds
    PROVE  Counted \/ \E p \in Procs, r \in Runs : Claim(p, r)
  <1>1. CASE UNCHANGED vars
    BY <1>1, CalmUnchanged DEF vars, Counted
  <1>2. \A p \in Procs : Crash(p) => CalmRows
    BY CalmUnchanged DEF Crash
  <1>3. CASE Next
    BY <1>2, <1>3, ArrivalsCalm, RenewCalm, WorkCounted, ClockCalm,
       RecoverCalm, OperatorCalm DEF Next, Poll, Counted
  <1> QED BY <1>1, <1>3

-----------------------------------------------------------------------------
(* What the counters of a lease tell about the counters of its task.       *)

\* The lease of the latest claim carries the counters of the running task.
Matches(l, t) ==
    /\ l.attempts = t.attempts /\ l.models = t.models /\ l.polls = t.polls
    /\ l.claimedFrom = t.claimedFrom /\ (l.plan <=> t.plan # "none")

\* No lease is ahead of a task that waits to be claimed, and a poll counter
\* that restarted is behind only if the next claim is an attempt.
Behind(l, t) ==
    \/ l.attempts < t.attempts
    \/ /\ l.attempts = t.attempts /\ l.models <= t.models
       /\ l.polls <= t.polls \/ AttemptNext(t)

\* An older lease is outdone in the counter the running claim advanced.
Outdone(l, t) ==
    \/ l.attempts < t.attempts
    \/ /\ l.attempts = t.attempts /\ t.claimedFrom = "waiting_for_ci"
       /\ l.models <= t.models /\ l.polls < t.polls
    \/ /\ l.attempts = t.attempts /\ t.claimedFrom = "ready_for_review"
       /\ t.plan # "none" /\ l.models < t.models /\ l.polls <= t.polls

Tells(l, t, h) ==
    /\ t.exec # "absent" /\ l.epoch <= h.epoch
    /\ t.exec # "running" => Behind(l, t)
    /\ t.exec = "running" /\ l.epoch = h.epoch => Matches(l, t)
    /\ t.exec = "running" /\ l.epoch # h.epoch => Outdone(l, t)

OneLease == \A p, q \in Procs :
    /\ held[p].run # 0 /\ held[p].run = held[q].run
    /\ held[p].epoch = held[q].epoch
    => p = q

CountInv ==
    /\ \A p \in Procs : held[p].run # 0 =>
           Tells(held[p], row[held[p].run], hist[held[p].run])
    /\ OneLease

LEMMA CountInit == Init => CountInv
  BY DEF Init, CountInv, OneLease, NoLease

\* The owner of a task holds the lease of its latest claim.
LEMMA CountOwner ==
    ASSUME Inv, CountInv, NEW p \in Procs, Owns(p)
    PROVE  held[p].epoch = hist[held[p].run].epoch
  <1> DEFINE l == held[p]
             t == row[held[p].run]
  <1>1. /\ held[p].run \in Runs /\ t \in Row /\ t.exec = "running"
        /\ l \in Lease
    BY OwnsRunning, InvRows
  <1>2. /\ Tells(l, t, hist[held[p].run])
        /\ t.attempts = l.attempts /\ t.models = l.models
        /\ t.polls = l.polls /\ t.claimedFrom = l.claimedFrom
    BY DEF CountInv, Owns, Owned
  <1> HIDE DEF l, t
  <1>3. ~Outdone(l, t)
    BY <1>1, <1>2 DEF Outdone, Row, Lease
  <1>4. l.epoch = hist[held[p].run].epoch
    BY <1>1, <1>2, <1>3 DEF Tells
  <1> QED BY <1>4 DEF l

\* A lease that goes on while its task is not claimed again.
LEMMA TellsQuiet ==
    ASSUME NEW l \in Lease, NEW m, NEW t \in Row, NEW u \in Row,
           NEW h \in Hist, NEW g, Tells(l, t, h), g.epoch = h.epoch,
           m.run # 0, SameLease(l, m), u.exec # "running" \/ Continues(t, u),
           Calm(t, u)
    PROVE  Tells(m, u, g)
  <1>1. /\ m.epoch = l.epoch /\ m.attempts = l.attempts
        /\ m.models = l.models /\ m.polls = l.polls
        /\ m.claimedFrom = l.claimedFrom /\ m.plan = l.plan
    BY DEF SameLease
  <1>2. u.exec # "absent" /\ m.epoch <= g.epoch
    BY <1>1 DEF Tells, Calm
  <1>3. ASSUME u.exec # "running" PROVE Behind(m, u)
    <2>1. CASE t.exec # "running"
      BY <1>1, <2>1 DEF Tells, Behind, Calm, Row, Lease
    <2>2. CASE t.exec = "running"
      <3>1. Matches(l, t) \/ Outdone(l, t)
        BY <2>2 DEF Tells
      <3>2. /\ u.attempts = t.attempts /\ u.models = t.models
            /\ u.polls = t.polls \/ AttemptNext(u)
        BY <2>2 DEF Calm
      <3> QED BY <1>1, <3>1, <3>2 DEF Matches, Outdone, Behind, Row, Lease
    <2> QED BY <2>1, <2>2
  <1>4. ASSUME u.exec = "running"
        PROVE  /\ m.epoch = g.epoch => Matches(m, u)
               /\ m.epoch # g.epoch => Outdone(m, u)
    BY <1>1, <1>4 DEF Tells, Continues, Matches, Outdone
  <1> QED BY <1>2, <1>3, <1>4 DEF Tells

\* The refund of a model claim stays ahead of every older lease.
LEMMA TellsRefund ==
    ASSUME NEW l \in Lease, NEW m, NEW k, NEW t \in Row, NEW u \in Row,
           NEW h \in Hist, NEW g, Tells(l, t, h), g.epoch = h.epoch,
           l.epoch # h.epoch, m.run # 0, SameLease(l, m), Refund(t, u, k)
    PROVE  Tells(m, u, g)
  <1>1. /\ m.epoch = l.epoch /\ m.attempts = l.attempts
        /\ m.models = l.models /\ m.polls = l.polls
    BY DEF SameLease
  <1>2. Outdone(l, t) /\ t.claimedFrom = "ready_for_review"
    BY DEF Tells, Refund
  <1>3. Behind(m, u)
    BY <1>1, <1>2 DEF Outdone, Behind, Refund, Row, Lease
  <1> QED BY <1>1, <1>3 DEF Tells, Refund

LEMMA CountQuiet ==
    ASSUME Inv, Inv', CountInv, Quiet, Counted
    PROVE  CountInv'
  <1>1. OneLease'
    BY DEF CountInv, OneLease, Quiet, QuietHeld, SameLease
  <1>2. ASSUME NEW q \in Procs, held'[q].run # 0
        PROVE  Tells(held'[q], row'[held'[q].run], hist'[held'[q].run])
    <2> DEFINE r == held[q].run
    <2>1. SameLease(held[q], held'[q]) /\ held'[q].run = r
      BY <1>2 DEF Quiet, QuietHeld, SameLease
    <2>2. held[q] \in Lease /\ r \in Runs
      BY <1>2, <2>1, InvRows, QueueAssumption DEF Lease, Runs
    <2>3. row[r] \in Row /\ hist[r] \in Hist
      BY <2>2, InvRows
    <2>4. row'[r] \in Row /\ hist'[r].epoch = hist[r].epoch
      BY <2>2 DEF Inv, TypeOK, Quiet, QuietHist
    <2>5. Tells(held[q], row[r], hist[r])
      BY <1>2, <2>1 DEF CountInv
    <2>6. row'[r].exec # "running" \/ Continues(row[r], row'[r])
      BY <2>2 DEF Quiet, QuietRows
    <2>7. CASE Calm(row[r], row'[r])
      BY <1>2, <2>1, <2>2, <2>3, <2>4, <2>5, <2>6, <2>7, TellsQuiet
    <2>8. ASSUME NEW p \in Procs, Refunded(p)
          PROVE  Tells(held'[q], row'[r], hist'[r])
      <3>1. CASE held[p].run # r
        <4>1. row'[r] = row[r]
          BY <2>2, <2>8, <3>1 DEF Refunded
        <4>2. Calm(row[r], row'[r])
          BY <4>1 DEF Calm
        <4> QED BY <2>1, <2>7, <4>2
      <3>2. CASE held[p].run = r
        <4>1. p # q
          BY <1>2, <2>8 DEF Refunded
        <4>2. held[p].epoch = hist[r].epoch
          BY <2>8, <3>2, CountOwner DEF Refunded
        <4>3. held[q].epoch # hist[r].epoch
          BY <1>2, <2>1, <3>2, <4>1, <4>2 DEF CountInv, OneLease
        <4>4. Refund(row[r], row'[r], held[p])
          BY <2>8, <3>2 DEF Refunded
        <4> QED BY <1>2, <2>1, <2>2, <2>3, <2>4, <2>5, <4>3, <4>4, TellsRefund
      <3> QED BY <3>1, <3>2
    <2> QED BY <2>1, <2>2, <2>7, <2>8 DEF Counted, CalmRows
  <1> QED BY <1>1, <1>2 DEF CountInv

\* A claim advances the counter in which it outdoes every older lease.
LEMMA TellsClaim ==
    ASSUME NEW l \in Lease, NEW t \in Row, NEW w, NEW h \in Hist, NEW g,
           t.exec \in Claimables, Tells(l, t, h), g.epoch = h.epoch + 1
    PROVE  Tells(l, ClaimedBy(t, w), g)
  <1> DEFINE u == ClaimedBy(t, w)
  <1>1. /\ u.exec = "running" /\ u.claimedFrom = t.exec /\ u.plan = t.plan
        /\ u.models = t.models + (IF IsModelClaim(t) THEN 1 ELSE 0)
        /\ u.polls = t.polls + (IF t.exec = "waiting_for_ci" THEN 1 ELSE 0)
        /\ u.attempts = t.attempts + (IF /\ t.exec # "waiting_for_ci"
                                         /\ ~IsModelClaim(t)
                                      THEN 1 ELSE 0)
    BY DEF ClaimedBy, Row
  <1> HIDE DEF u
  <1>2. Behind(l, t) /\ l.epoch <= h.epoch
    BY DEF Tells, Claimables
  <1>3. l.epoch < g.epoch
    BY <1>2 DEF Lease, Hist
  <1>4. Outdone(l, u)
    BY <1>1, <1>2 DEF Behind, Outdone, AttemptNext, IsModelClaim, Row, Lease
  <1>5. Tells(l, u, g)
    BY <1>1, <1>3, <1>4 DEF Tells, Lease, Hist
  <1> QED BY <1>5 DEF u

LEMMA CountClaim ==
    ASSUME Inv, CountInv, NEW p \in Procs, NEW r \in Runs, Claim(p, r)
    PROVE  CountInv'
  <1> DEFINE t == ClaimedBy(row[r], WorkerOf[p])
  <1>1. /\ row[r] \in Row /\ row[r].exec \in Claimables
        /\ hist[r] \in Hist /\ r \in Runs /\ r # 0
    BY InvRows, QueueAssumption DEF Claim, Claimable, Runs
  <1>2. /\ row'[r] = t /\ hist'[r].epoch = hist[r].epoch + 1
        /\ \A s \in Runs : s # r => row'[s] = row[s] /\ hist'[s] = hist[s]
    BY InvRows DEF Claim, Hist
  <1>3. /\ held'[p].run = r /\ held'[p].epoch = hist[r].epoch + 1
        /\ held'[p].attempts = t.attempts /\ held'[p].models = t.models
        /\ held'[p].polls = t.polls /\ held'[p].claimedFrom = t.claimedFrom
        /\ held'[p].plan <=> t.plan # "none"
        /\ \A q \in Procs : q # p => held'[q] = held[q]
    BY InvRows DEF Claim
  <1>4. t.exec = "running"
    BY <1>1 DEF ClaimedBy, Row
  <1> HIDE DEF t
  <1>5. Tells(held'[p], row'[r], hist'[r])
    BY <1>1, <1>2, <1>3, <1>4 DEF Tells, Matches, Hist
  <1>6. ASSUME NEW q \in Procs, q # p, held'[q].run # 0
        PROVE  Tells(held'[q], row'[held'[q].run], hist'[held'[q].run])
    <2>1. held'[q] = held[q] /\ held[q] \in Lease /\ held[q].run \in Runs
      BY <1>3, <1>6, InvRows, QueueAssumption DEF Lease, Runs
    <2>2. Tells(held[q], row[held[q].run], hist[held[q].run])
      BY <1>6, <2>1 DEF CountInv
    <2>3. CASE held[q].run = r
      BY <1>1, <1>2, <2>1, <2>2, <2>3, TellsClaim DEF t
    <2>4. CASE held[q].run # r
      BY <1>2, <2>1, <2>2, <2>4
    <2> QED BY <2>3, <2>4
  <1>7. \A q \in Procs : q # p /\ held'[q].run = r
                            => held'[q].epoch # held'[p].epoch
    <2> SUFFICES ASSUME NEW q \in Procs, q # p, held'[q].run = r
                 PROVE  held'[q].epoch # held'[p].epoch
      OBVIOUS
    <2>1. held'[q] = held[q] /\ held[q] \in Lease
      BY <1>3, InvRows
    <2>2. held[q].epoch <= hist[r].epoch
      BY <1>1, <2>1 DEF CountInv, Tells
    <2> QED BY <1>1, <1>3, <2>1, <2>2 DEF Lease, Hist
  <1>8. OneLease'
    <2> SUFFICES ASSUME NEW q \in Procs, NEW s \in Procs, held'[q].run # 0,
                        held'[q].run = held'[s].run,
                        held'[q].epoch = held'[s].epoch
                 PROVE  q = s
      BY DEF OneLease
    <2>1. CASE q = p \/ s = p
      BY <1>3, <1>7, <2>1
    <2>2. CASE q # p /\ s # p
      BY <1>3, <2>2 DEF CountInv, OneLease
    <2> QED BY <2>1, <2>2
  <1> QED BY <1>3, <1>5, <1>6, <1>8 DEF CountInv

LEMMA CountNext ==
    ASSUME "retry" \notin OpKinds, Inv, Inv', CountInv, [Next]_vars
    PROVE  CountInv'
  BY QuietStep, CountedStep, CountQuiet, CountClaim

-----------------------------------------------------------------------------
(* Fencing.                                                                *)

\* Two processes that pass the ownership check of a task are the same.
Alone == \A p, q \in Procs :
    held[p].run = held[q].run /\ Owns(p) /\ Owns(q) => p = q

\* The inductive strengthening of Fencing: a process whose identity owns the
\* task it holds a lease of holds the lease of the latest claim, whatever the
\* counters say and even after the lease expired.
FenceInv ==
    \A p \in Procs :
        held[p].run # 0 /\ row[held[p].run].owner = WorkerOf[p]
            => held[p].epoch = hist[held[p].run].epoch

LEMMA FenceInit == Init => FenceInv
  BY DEF Init, FenceInv, NoLease

LEMMA FenceClaim ==
    ASSUME DistinctWorkers, Inv, FenceInv,
           NEW p \in Procs, NEW r \in Runs, Claim(p, r)
    PROVE  FenceInv'
  <1> SUFFICES ASSUME NEW q \in Procs, held'[q].run # 0,
                      row'[held'[q].run].owner = WorkerOf[q]
               PROVE  held'[q].epoch = hist'[held'[q].run].epoch
    BY DEF FenceInv
  <1>1. row'[r].owner = WorkerOf[p]
    <2>1. row[r] \in Row
      BY NodeType
    <2> QED BY <2>1, InvRows DEF Claim, ClaimedBy, Row
  <1>2. /\ held'[p].run = r /\ held'[p].epoch = hist[r].epoch + 1
        /\ hist'[r].epoch = hist[r].epoch + 1
    BY InvRows DEF Claim, Hist
  <1>3. CASE q = p
    BY <1>2, <1>3
  <1>4. CASE q # p
    <2>0. held'[q] = held[q]
      BY <1>4, InvRows DEF Claim
    <2>1. held'[q] = held[q] /\ held[q].run \in Runs
      BY <2>0, InvRows, QueueAssumption DEF Lease, Runs
    <2>2. held[q].run # r
      BY <1>1, <1>4, <2>1 DEF DistinctWorkers
    <2>3. /\ row'[held[q].run] = row[held[q].run]
          /\ hist'[held[q].run] = hist[held[q].run]
      BY <2>1, <2>2, InvRows DEF Claim
    <2> QED BY <2>1, <2>3 DEF FenceInv
  <1> QED BY <1>3, <1>4

LEMMA FenceQuiet ==
    ASSUME Inv, Inv', FenceInv, Quiet
    PROVE  FenceInv'
  <1> SUFFICES ASSUME NEW q \in Procs, held'[q].run # 0,
                      row'[held'[q].run].owner = WorkerOf[q]
               PROVE  held'[q].epoch = hist'[held'[q].run].epoch
    BY DEF FenceInv
  <1> DEFINE r == held[q].run
  <1>1. held'[q].run = r /\ held'[q].epoch = held[q].epoch
    BY DEF Quiet, QuietHeld, SameLease
  <1>2. r \in Runs
    BY <1>1, InvRows, QueueAssumption DEF Lease, Runs
  <1>3. row'[r].exec = "running"
    BY <1>1, <1>2, QueueAssumption DEF Inv, LeaseConsistent
  <1>4. row[r].owner = WorkerOf[q]
    BY <1>1, <1>2, <1>3 DEF Quiet, QuietRows, Continues
  <1>5. hist'[r].epoch = hist[r].epoch
    BY <1>2 DEF Quiet, QuietHist
  <1> QED BY <1>1, <1>4, <1>5 DEF FenceInv

LEMMA FenceNext ==
    ASSUME DistinctWorkers, Inv, Inv', FenceInv, [Next]_vars
    PROVE  FenceInv'
  BY QuietStep, FenceClaim, FenceQuiet

LEMMA FencingApart ==
    ASSUME DistinctWorkers, Inv, FenceInv
    PROVE  Fencing /\ Alone
  <1>1. Fencing
    BY DEF FenceInv, Fencing, Owns, Owned
  <1>2. \A p \in Procs : Owns(p) => row[held[p].run].owner = WorkerOf[p]
    BY OwnsRunning
  <1>3. Alone
    BY <1>2 DEF Alone, DistinctWorkers
  <1> QED BY <1>1, <1>3

LEMMA FencingCounted ==
    ASSUME Inv, CountInv
    PROVE  Fencing /\ Alone
  <1>1. Fencing
    BY CountOwner DEF Fencing
  <1>2. \A p \in Procs : Owns(p) => held[p].run # 0
    BY DEF Owns
  <1>3. Alone
    BY <1>1, <1>2 DEF Alone, Fencing, CountInv, OneLease
  <1> QED BY <1>1, <1>3

LEMMA FencedAndAlone ==
    ASSUME ClaimsApart
    PROVE  Spec => [](Fencing /\ Alone)
  <1>1. CASE DistinctWorkers
    <2>1. Init => FenceInv
      BY FenceInit
    <2>2. Inv /\ Inv' /\ FenceInv /\ [Next]_vars => FenceInv'
      BY <1>1, FenceNext
    <2>3. Inv /\ FenceInv => Fencing /\ Alone
      BY <1>1, FencingApart
    <2> QED BY <2>1, <2>2, <2>3, InvHolds, PTL DEF Spec
  <1>2. CASE "retry" \notin OpKinds
    <2>1. Init => CountInv
      BY CountInit
    <2>2. Inv /\ Inv' /\ CountInv /\ [Next]_vars => CountInv'
      BY <1>2, CountNext
    <2>3. Inv /\ CountInv => Fencing /\ Alone
      BY FencingCounted
    <2> QED BY <2>1, <2>2, <2>3, InvHolds, PTL DEF Spec
  <1> QED BY <1>1, <1>2 DEF ClaimsApart

\* Only the process of the latest claim passes the ownership check of a task,
\* whatever leases expire, workers crash and operators reset, with any number
\* of processes and runs: whenever each process has an identity of its own,
\* and with shared identities as long as no operator takes RETRY.
THEOREM Fenced ==
    ASSUME ClaimsApart
    PROVE  Spec => []Fencing
  BY FencedAndAlone, PTL

-----------------------------------------------------------------------------
(* The repository's limit on concurrent reviews.                           *)

LEMMA ActiveFinite ==
    /\ IsFiniteSet(Active) /\ Cardinality(Active) \in Nat
    /\ IsFiniteSet(Active') /\ Cardinality(Active') \in Nat
  <1>1. IsFiniteSet(Runs)
    BY FS_Interval, QueueAssumption DEF Runs
  <1>2. Active \subseteq Runs /\ Active' \subseteq Runs
    BY DEF Active
  <1>3. IsFiniteSet(Active) /\ IsFiniteSet(Active')
    BY <1>1, <1>2, FS_Subset
  <1> QED BY <1>3, FS_CardinalityType

LEMMA LimitQuiet ==
    ASSUME Inv, RepoLimitHeld, Quiet
    PROVE  RepoLimitHeld'
  <1>1. Active' \subseteq Active
    BY DEF Quiet, QuietRows, Continues, Active
  <1>2. Cardinality(Active') <= Cardinality(Active)
    BY <1>1, ActiveFinite, FS_Subset
  <1> QED BY <1>2, ActiveFinite, QueueAssumption DEF RepoLimitHeld

LEMMA LimitClaim ==
    ASSUME Inv, NEW p \in Procs, NEW r \in Runs, Claim(p, r)
    PROVE  RepoLimitHeld'
  <1>1. \A s \in Runs : s # r => row'[s] = row[s]
    BY InvRows DEF Claim
  <1>2. Active' \subseteq Active \union {r}
    BY <1>1 DEF Active
  <1>3. /\ IsFiniteSet(Active \union {r})
        /\ Cardinality(Active \union {r}) <= Cardinality(Active) + 1
        /\ Cardinality(Active \union {r}) \in Nat
    <2>1. /\ IsFiniteSet(Active \union {r})
          /\ Cardinality(Active \union {r}) =
                IF r \in Active THEN Cardinality(Active)
                ELSE Cardinality(Active) + 1
      BY ActiveFinite, FS_AddElement
    <2>2. Cardinality(Active \union {r}) \in Nat
      BY <2>1, FS_CardinalityType
    <2> QED BY <2>1, <2>2, ActiveFinite
  <1>4. Cardinality(Active') <= Cardinality(Active \union {r})
    BY <1>2, <1>3, FS_Subset
  <1>5. Cardinality(Active) < RepoLimit
    BY DEF Claim, Claimable
  <1> QED BY <1>3, <1>4, <1>5, ActiveFinite, QueueAssumption
          DEF RepoLimitHeld

\* However many processes poll, claim_next never lets more leases be live
\* than the repository's limit; no transaction but a claim adds one.
THEOREM LimitHolds == Spec => []RepoLimitHeld
  <1>1. Init => RepoLimitHeld
    <2>1. Init => Active = {}
      BY DEF Init, Active, NoRow
    <2> QED BY <2>1, FS_EmptySet, QueueAssumption DEF RepoLimitHeld
  <1>2. Inv /\ RepoLimitHeld /\ [Next]_vars => RepoLimitHeld'
    BY QuietStep, LimitQuiet, LimitClaim
  <1> QED BY <1>1, <1>2, InvHolds, PTL DEF Spec

-----------------------------------------------------------------------------
(* The queue implements the exclusive lease.                               *)

\* A task has at most one holder, and HolderOf names it.
LEMMA OneHolder ==
    ASSUME Alone, Inv, NEW r \in Runs
    PROVE  /\ \A p, q \in Procs :
                held[p].run = r /\ Owns(p) /\ held[q].run = r /\ Owns(q)
                  => p = q
           /\ \A p \in Procs : held[p].run = r /\ Owns(p) => HolderOf(r) = p
           /\ ~Held(r) => HolderOf(r) = NoWorker
           /\ HolderOf(r) # NoWorker => /\ HolderOf(r) \in Procs
                                        /\ held[HolderOf(r)].run = r
                                        /\ Owns(HolderOf(r))
  <1>1. \A p, q \in Procs :
                held[p].run = r /\ Owns(p) /\ held[q].run = r /\ Owns(q)
                  => p = q
    BY DEF Alone
  <1>2. \A p \in Procs : held[p].run = r /\ Owns(p) => HolderOf(r) = p
    BY <1>1 DEF HolderOf, Held
  <1>3. ~Held(r) => HolderOf(r) = NoWorker
    BY DEF HolderOf
  <1>4. Held(r) => \E p \in Procs : /\ HolderOf(r) = p
                                    /\ held[p].run = r /\ Owns(p)
    BY <1>2 DEF Held
  <1> QED BY <1>1, <1>2, <1>3, <1>4

\* The same of the next state.
LEMMA OneHolderPrime ==
    ASSUME Alone', NEW r \in Runs
    PROVE  /\ \A p \in Procs : held'[p].run = r /\ Owns(p)'
                                   => HolderOf(r)' = p
           /\ ~Held(r)' => HolderOf(r)' = NoWorker
           /\ HolderOf(r)' # NoWorker => Held(r)'
  <1>1. \A p, q \in Procs :
                held'[p].run = r /\ Owns(p)' /\ held'[q].run = r /\ Owns(q)'
                  => p = q
    BY DEF Alone
  <1>2. \A p \in Procs : held'[p].run = r /\ Owns(p)' => HolderOf(r)' = p
    BY <1>1 DEF HolderOf, Held
  <1>3. ~Held(r)' => HolderOf(r)' = NoWorker
    BY DEF HolderOf
  <1>4. Held(r)' => \E p \in Procs : /\ HolderOf(r)' = p
                                     /\ held'[p].run = r /\ Owns(p)'
    BY <1>2 DEF Held
  <1> QED BY <1>2, <1>3, <1>4

\* A quiet step makes nobody a holder.
LEMMA HoldersShrink ==
    ASSUME Alone, Alone', Inv, Inv', Quiet, NEW r \in Runs
    PROVE  HolderOf(r)' \in {HolderOf(r), NoWorker}
  <1> SUFFICES ASSUME NEW p \in Procs, held'[p].run = r, Owns(p)'
               PROVE  HolderOf(r)' = HolderOf(r)
    BY OneHolderPrime DEF Held
  <1>0. r # 0 /\ r \in Runs
    BY QueueAssumption DEF Runs
  <1>1. Owned(row'[r], held'[p], WorkerOf[p])
    BY DEF Owns
  <1>2. Continues(row[r], row'[r])
    BY <1>1 DEF Quiet, QuietRows, Owned
  <1>3. /\ held[p].run = r /\ held'[p].attempts = held[p].attempts
        /\ held'[p].models = held[p].models /\ held'[p].polls = held[p].polls
        /\ held'[p].claimedFrom = held[p].claimedFrom
    BY <1>0 DEF Quiet, QuietHeld, SameLease
  <1>4. row[r].wf # "paused"
    BY <1>1, <1>2 DEF Inv, LeaseConsistent, Owned, Continues
  <1>5. Owns(p)
    BY <1>0, <1>1, <1>2, <1>3, <1>4 DEF Owns, Owned, Continues
  <1> QED BY <1>3, <1>5, OneHolder, OneHolderPrime

LEMMA LockInit == Init => Lock!Init
  <1> SUFFICES ASSUME Init PROVE Lock!Init
    OBVIOUS
  <1>1. \A r \in Runs : ~Held(r)
    BY DEF Init, Held, Owns, NoLease
  <1>2. \A r \in Runs : HolderOf(r) = NoWorker /\ hist[r].epoch = 0
    BY <1>1 DEF HolderOf, Init, NoHist
  <1> QED BY <1>2 DEF Lock!Init

LEMMA LockQuiet ==
    ASSUME Alone, Alone', Inv, Inv', Quiet
    PROVE  [Lock!Next]_<<[r \in Runs |-> HolderOf(r)],
                         [r \in Runs |-> hist[r].epoch]>>
  <1> DEFINE S == {r \in Runs : HolderOf(r) # NoWorker
                                /\ HolderOf(r)' = NoWorker}
             H == [r \in Runs |-> HolderOf(r)]
             T == [r \in Runs |-> hist[r].epoch]
  <1>1. \A r \in Runs : HolderOf(r)' = IF r \in S THEN NoWorker
                                       ELSE HolderOf(r)
    BY HoldersShrink
  <1>2. T' = T
    BY DEF Quiet, QuietHist
  <1>3. CASE S = {}
    <2>1. H' = H
      BY <1>1, <1>3
    <2> QED BY <1>2, <2>1
  <1>4. CASE S # {}
    <2>1. /\ \A r \in S : HolderOf(r) # NoWorker
          /\ S \in SUBSET Runs
      OBVIOUS
    <2>2. H' = [r \in Runs |-> IF r \in S THEN NoWorker ELSE H[r]]
      BY <1>1
    <2> HIDE DEF S
    <2>3. Lock!Release(S)
      BY <1>2, <2>1, <2>2 DEF Lock!Release
    <2> QED BY <1>4, <2>1, <2>3 DEF Lock!Next
  <1> QED BY <1>3, <1>4

LEMMA LockClaim ==
    ASSUME Alone, Alone', Inv, Inv',
           NEW p \in Procs, NEW r \in Runs, Claim(p, r)
    PROVE  Lock!Next
  <1>1. ~Held(r)
    BY DEF Claim, Claimable, Claimables, Held, Owns, Owned
  <1>2. held'[p].run = r /\ Owns(p)'
    <2> DEFINE t == ClaimedBy(row[r], WorkerOf[p])
    <2>1. row'[r] = t /\ row[r] \in Row
      BY InvRows DEF Claim, GoodRow
    <2>2. /\ held'[p].run = r /\ held'[p].attempts = t.attempts
          /\ held'[p].models = t.models /\ held'[p].polls = t.polls
          /\ held'[p].claimedFrom = t.claimedFrom
      BY InvRows DEF Claim
    <2>3. t.exec = "running" /\ t.owner = WorkerOf[p] /\ t.lease = "live"
          /\ t.wf # "paused"
      BY <2>1 DEF Claim, Claimable, ClaimedBy, Row
    <2>4. r # 0
      BY QueueAssumption DEF Runs
    <2> HIDE DEF t
    <2> QED BY <2>1, <2>2, <2>3, <2>4 DEF Owns, Owned
  <1>3. ASSUME NEW s \in Runs, s # r
        PROVE  HolderOf(s)' = HolderOf(s)
    <2>1. row'[s] = row[s]
      BY <1>3, InvRows DEF Claim
    <2>2. \A q \in Procs : (held'[q].run = s /\ Owns(q)')
                              <=> (held[q].run = s /\ Owns(q))
      <3> TAKE q \in Procs
      <3>1. CASE q = p
        <4>1. held[p].run = 0 /\ s # 0
          BY QueueAssumption DEF Claim, Runs
        <4> QED BY <1>2, <1>3, <3>1, <4>1
      <3>2. CASE q # p
        <4>1. held'[q] = held[q]
          BY <3>2, InvRows DEF Claim
        <4> QED BY <2>1, <4>1 DEF Owns
      <3> QED BY <3>1, <3>2
    <2>3. CASE Held(s)
      <3>1. PICK q \in Procs : held[q].run = s /\ Owns(q)
        BY <2>3 DEF Held
      <3> QED BY <2>2, <3>1, OneHolder, OneHolderPrime
    <2>4. CASE ~Held(s)
      <3>1. ~Held(s)'
        BY <2>2, <2>4 DEF Held
      <3> QED BY <2>4, <3>1, OneHolder, OneHolderPrime
    <2> QED BY <2>3, <2>4
  <1> DEFINE H == [s \in Runs |-> HolderOf(s)]
             T == [s \in Runs |-> hist[s].epoch]
  <1>4. H[r] = NoWorker
    BY <1>1, OneHolder
  <1>5. HolderOf(r)' = p
    BY <1>2, OneHolderPrime
  <1>6. H' = [H EXCEPT ![r] = p]
    BY <1>3, <1>5
  <1>7. T' = [T EXCEPT ![r] = @ + 1]
    BY InvRows DEF Claim, Hist
  <1>8. Lock!Acquire(r, p)
    BY <1>4, <1>6, <1>7 DEF Lock!Acquire
  <1> QED BY <1>8 DEF Lock!Next

\* Where the claims can be told apart, the queue implements ExclusiveLease: a
\* task has one holder at a time, each claim is a fresh token, and nobody
\* holds a task again under an old claim.
THEOREM ImplementsLock ==
    ASSUME ClaimsApart
    PROVE  Spec => LockRefined
  <1>1. Init => Lock!Init
    BY LockInit
  <1>2. Inv /\ Inv' /\ Alone /\ Alone' /\ [Next]_vars
          => [Lock!Next]_<<[r \in Runs |-> HolderOf(r)],
                           [r \in Runs |-> hist[r].epoch]>>
    BY QuietStep, LockQuiet, LockClaim
  <1> QED BY <1>1, <1>2, InvHolds, FencedAndAlone, PTL
          DEF Spec, LockRefined, Lock!Spec
=============================================================================
