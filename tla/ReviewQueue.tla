---------------------------- MODULE ReviewQueue ----------------------------
(***************************************************************************)
(* The PostgreSQL review queue of src/persistence/queue and the operator   *)
(* actions of src/persistence/management that work on the same rows.       *)
(*                                                                         *)
(* One pull request; run r was created before run s iff r < s (created_at).*)
(* A run's row stands for its ReviewRunRecord and its ReviewTaskRecord,    *)
(* which every transaction writes together, and its ReviewPlanRecord.      *)
(* One action is one database transaction, or one step of the environment  *)
(* (GitHub, the clock, a crash).  Durations are abstracted to the question *)
(* the code asks of them: a lease is live or expired, a task is due or not,*)
(* the CI deadline is absent, pending or passed.                           *)
(***************************************************************************)
EXTENDS Integers, FiniteSets

CONSTANTS
    NRuns,          \* bound: runs of the pull request
    NHeads,         \* bound: commits pushed to it
    Procs,          \* operating-system processes running a worker
    WorkerIds,      \* the stable identities written to lease_owner
    WorkerOf,       \* the identity a process is configured with
    NoWorker,       \* lease_owner IS NULL
    MaxAttempts,    \* max_attempts of every task
    RepoLimit,      \* the repository policy's max_concurrent_reviews
    MaxPolls,       \* bound: polls that may find the CI still pending
    MaxFaults,      \* bound: errors, crashes and missed renewals
    MaxOps,         \* bound: operator actions
    OpKinds,        \* the operator actions taken in this instance
    ResumeTargets,  \* target_stage values a RESUME request may carry
    LateDelivery    \* TRUE: what GitHub said of an older commit may arrive late

ASSUME QueueAssumption ==
    /\ NRuns \in Nat \ {0}
    /\ NHeads \in Nat \ {0}
    /\ WorkerOf \in [Procs -> WorkerIds]
    /\ NoWorker \notin WorkerIds \union Procs
    /\ MaxAttempts \in Nat \ {0}
    /\ RepoLimit \in Nat \ {0}
    /\ MaxPolls \in Nat
    /\ MaxFaults \in Nat
    /\ MaxOps \in Nat
    /\ LateDelivery \in BOOLEAN

Runs == 1..NRuns
Heads == 1..NHeads


Claimables == {"queued", "waiting_for_ci", "ready_for_review"}
Replaceables == Claimables \union {"running", "completed"}
Execs == Replaceables \union
         {"absent", "failed", "timed_out", "cancelled", "superseded"}

ModelNodes == {"agent_batches", "aggregating"}
Resumables == ModelNodes \union
    {"queued", "ci", "planning", "awaiting_approval", "awaiting_publish"}
Retryables == ModelNodes \union {"ci", "planning"}
Nodes == Resumables \union
    {"none", "paused", "failed", "rejected", "completed", "cancelled",
     "superseded"}

ASSUME TargetAssumption == ResumeTargets \subseteq Resumables

LeaseStates == {"none", "live", "expired"}
Deadlines == {"none", "pending", "passed"}
Plans == {"none", "open", "done"}       \* done: model_review_completed_at
Coverages == {"unknown", "partial", "complete", "stale"}

VARIABLES
    row,        \* row[r]: the records of run r
    held,       \* held[p]: the ReviewTaskLease process p works under
    ghHead,     \* the head commit GitHub reports for the pull request
    saved,      \* heads whose files and diff are completely stored
    hist,       \* hist[r]: what happened to r (history, never read)
    faults,     \* errors, crashes and missed renewals so far
    ops         \* operator actions so far

vars == <<row, held, ghHead, saved, hist, faults, ops>>

Row == [exec : Execs, wf : Nodes, pausedFrom : Nodes,
        owner : WorkerIds \union {NoWorker},
        lease : LeaseStates,
        claimedFrom : Claimables \union {"none"},
        attempts : Nat, models : Nat, polls : Nat,
        due : BOOLEAN, deadline : Deadlines,
        plan : Plans, coverage : Coverages,
        snapshot : BOOLEAN, head : 0..NHeads]

\* run = 0: the process holds no lease.  seen: the head it read from GitHub
\* (0: not read yet).  epoch is history: the claim that produced the lease.
Lease == [run : 0..NRuns, attempts : Nat, models : Nat, polls : Nat,
          claimedFrom : Claimables \union {"none"}, plan : BOOLEAN,
          seen : 0..NHeads, epoch : Nat]

Hist == [epoch : Nat, work : Nat, poll : Nat, model : Nat,
         stored : BOOLEAN, approved : BOOLEAN]

TypeOK ==
    /\ row \in [Runs -> Row]
    /\ held \in [Procs -> Lease]
    /\ ghHead \in Heads
    /\ saved \subseteq Heads
    /\ hist \in [Runs -> Hist]
    /\ faults \in Nat
    /\ ops \in Nat

NoRow == [exec |-> "absent", wf |-> "none", pausedFrom |-> "none",
          owner |-> NoWorker, lease |-> "none", claimedFrom |-> "none",
          attempts |-> 0, models |-> 0, polls |-> 0, due |-> FALSE,
          deadline |-> "none", plan |-> "none", coverage |-> "unknown",
          snapshot |-> FALSE, head |-> 0]

NoLease == [run |-> 0, attempts |-> 0, models |-> 0, polls |-> 0,
            claimedFrom |-> "none", plan |-> FALSE, seen |-> 0, epoch |-> 0]

NoHist == [epoch |-> 0, work |-> 0, poll |-> 0, model |-> 0,
           stored |-> FALSE, approved |-> FALSE]

Init ==
    /\ row = [r \in Runs |-> NoRow]
    /\ held = [p \in Procs |-> NoLease]
    /\ ghHead = 1
    /\ saved = {}
    /\ hist = [r \in Runs |-> NoHist]
    /\ faults = 0
    /\ ops = 0

-----------------------------------------------------------------------------
(* What the code reads from a row.                                         *)

\* Defects of _locked_owned_task: one of the identity checks is missing.
OwnedAnyPoll(t, l, w) ==
    /\ t.exec = "running" /\ t.owner = w /\ t.attempts = l.attempts
    /\ t.models = l.models /\ t.claimedFrom = l.claimedFrom
    /\ t.wf # "paused" /\ t.lease = "live"

OwnedAnyAttempt(t, l, w) ==
    /\ t.exec = "running" /\ t.owner = w /\ t.models = l.models
    /\ t.polls = l.polls /\ t.claimedFrom = l.claimedFrom
    /\ t.wf # "paused" /\ t.lease = "live"

\* _locked_owned_task: the one ownership check of every write under a lease.
Owned(t, l, w) ==
    /\ t.exec = "running"
    /\ t.owner = w
    /\ t.attempts = l.attempts
    /\ t.models = l.models
    /\ t.polls = l.polls
    /\ t.claimedFrom = l.claimedFrom
    /\ t.wf # "paused"
    /\ t.lease = "live"

Owns(p) == /\ held[p].run # 0
           /\ Owned(row[held[p].run], held[p], WorkerOf[p])

\* A run of another head that counts as newer than r.
Newer(r, s) ==
    /\ s > r
    /\ row[s].exec # "absent"
    /\ row[s].head # row[r].head
    /\ ~row[s].snapshot

HasNewer(r) == \E s \in Runs : Newer(r, s)

\* Runs whose live lease counts against the repository's limit.
Active == {r \in Runs : row[r].exec = "running" /\ row[r].lease = "live"}

\* Defect of claim_next: the concurrency limit is not checked.
ClaimableUnlimited(r) ==
    /\ row[r].exec \in Claimables
    /\ row[r].wf # "paused"
    /\ row[r].due
    /\ row[r].exec = "ready_for_review" => row[r].plan # "done"

Claimable(r) ==
    /\ row[r].exec \in Claimables
    /\ row[r].wf # "paused"
    /\ row[r].due
    /\ row[r].exec = "ready_for_review" => row[r].plan # "done"
    /\ Cardinality(Active) < RepoLimit

-----------------------------------------------------------------------------
(* What the code writes to a row.                                          *)

Unleased(t) == [t EXCEPT !.owner = NoWorker, !.lease = "none",
                         !.claimedFrom = "none"]

\* Defect: the lease expiry is not cleared with the owner.
SetOwnedStatusKeepLease(t, status) ==
    [t EXCEPT !.exec = status, !.pausedFrom = "none", !.owner = NoWorker,
              !.claimedFrom = "none"]

\* _set_owned_status
SetOwnedStatus(t, status) ==
    [Unleased(t) EXCEPT !.exec = status, !.pausedFrom = "none"]

\* _set_workflow_status
SetWorkflow(t, node) ==
    [t EXCEPT !.wf = node,
              !.pausedFrom = IF node = "paused" THEN @ ELSE "none"]

Superseded(t) == [SetWorkflow(SetOwnedStatus(t, "superseded"), "superseded")
                  EXCEPT !.coverage = "stale"]

\* claim_next: which of the three counters the claim advances.
IsModelClaim(t) == t.exec = "ready_for_review" /\ t.plan # "none"

ClaimedBy(t, w) ==
    [t EXCEPT
        !.exec = "running",
        !.claimedFrom = t.exec,
        !.owner = w,
        !.lease = "live",
        !.models = @ + (IF IsModelClaim(t) THEN 1 ELSE 0),
        !.polls = @ + (IF t.exec = "waiting_for_ci" THEN 1 ELSE 0),
        !.attempts = @ + (IF t.exec # "waiting_for_ci" /\ ~IsModelClaim(t)
                          THEN 1 ELSE 0)]

\* _reschedule_or_fail.  kind "batch_busy" stands for the errors that carry
\* batch_retry_managed; they give the model attempt back and never exhaust.
IsModelStage(t) == t.claimedFrom = "ready_for_review" /\ t.models > 0

\* Defect: claimed_from_status is read after it was cleared.
RescheduleCleared(t, kind) ==
    LET u == Unleased(t) IN
    IF kind = "permanent" \/ t.attempts >= MaxAttempts
    THEN SetWorkflow([u EXCEPT !.exec = "failed"], "failed")
    ELSE [u EXCEPT !.exec = u.claimedFrom, !.due = FALSE]

RescheduleOrFail(t, kind) ==
    LET busy == kind = "batch_busy" /\ IsModelStage(t)
        models == IF busy THEN t.models - 1 ELSE t.models
        spent == IF IsModelStage(t) THEN models ELSE t.attempts
        fails == kind = "permanent" \/ (spent >= MaxAttempts /\ ~busy)
        u == [Unleased(t) EXCEPT !.models = models]
    IN  IF fails
        THEN SetWorkflow([u EXCEPT !.exec = "failed"], "failed")
        ELSE [u EXCEPT !.exec = t.claimedFrom, !.due = FALSE]

\* The failure that _reschedule_or_fail records, in the history: did it hit
\* a model attempt, a CI poll or another attempt?
Charged(h, t, kind) ==
    IF kind = "batch_busy" THEN h
    ELSE IF t.claimedFrom = "ready_for_review" /\ t.plan # "none"
    THEN [h EXCEPT !.model = @ + 1]
    ELSE IF t.claimedFrom = "waiting_for_ci" THEN [h EXCEPT !.poll = @ + 1]
    ELSE [h EXCEPT !.work = @ + 1]

Uncharged(h) == [h EXCEPT !.work = 0, !.poll = 0, !.model = 0]

-----------------------------------------------------------------------------
(* Creating runs: webhooks, the review API, and the environment's pushes.  *)

Push ==
    /\ ghHead < NHeads
    /\ ghHead' = ghHead + 1
    /\ UNCHANGED <<row, held, saved, hist, faults, ops>>

NextSlot(r) == /\ row[r].exec = "absent"
               /\ \A s \in Runs : s < r => row[s].exec # "absent"

FreshRun(h) == [NoRow EXCEPT !.exec = "queued", !.wf = "queued",
                             !.due = TRUE, !.head = h]

\* accept_webhook and the review API
CreateRun(r, h) ==
    /\ NextSlot(r)
    /\ h <= ghHead
    /\ ~LateDelivery => \A s \in Runs : row[s].head <= h
    /\ row' = [row EXCEPT ![r] = FreshRun(h)]
    /\ UNCHANGED <<held, ghHead, saved, hist, faults, ops>>

-----------------------------------------------------------------------------
(* The worker: claim, renew, and the write that ends a lease.              *)

Claim(p, r) ==
    /\ held[p].run = 0
    /\ Claimable(r)
    /\ LET t == ClaimedBy(row[r], WorkerOf[p]) IN
       /\ row' = [row EXCEPT ![r] = t]
       /\ held' = [held EXCEPT ![p] =
            [run |-> r, attempts |-> t.attempts, models |-> t.models,
             polls |-> t.polls, claimedFrom |-> t.claimedFrom,
             plan |-> t.plan # "none", seen |-> 0,
             epoch |-> hist[r].epoch + 1]]
    /\ hist' = [hist EXCEPT ![r].epoch = @ + 1]
    /\ UNCHANGED <<ghHead, saved, faults, ops>>

\* renew_lease, from the heartbeat thread or the pipeline.
Renew(p) ==
    /\ Owns(p)
    /\ row' = [row EXCEPT ![held[p].run].lease = "live"]
    /\ UNCHANGED <<held, ghHead, saved, hist, faults, ops>>

\* The end of a leased transaction: run r becomes t and p forgets its lease.
Finish(p, t) ==
    /\ row' = [row EXCEPT ![held[p].run] = t]
    /\ held' = [held EXCEPT ![p] = NoLease]

InContextStage(p) == held[p].claimedFrom \in {"queued", "waiting_for_ci"}

\* _context_loader.load: GitHub is read outside any transaction.
LoadContext(p) ==
    /\ Owns(p)
    /\ InContextStage(p)
    /\ held[p].seen = 0
    /\ held' = [held EXCEPT ![p].seen = ghHead]
    /\ UNCHANGED <<row, ghHead, saved, hist, faults, ops>>

ReadyToStore(p) == Owns(p) /\ InContextStage(p) /\ held[p].seen # 0

\* store_github_context, head moved since the run was created.
StoreHeadMismatch(p) ==
    /\ ReadyToStore(p)
    /\ held[p].seen # row[held[p].run].head
    /\ Finish(p, Superseded(row[held[p].run]))
    /\ UNCHANGED <<ghHead, saved, hist, faults, ops>>

\* store_github_context: branch outside the policy, PR closed or a draft.
StoreNotReviewable(p) ==
    /\ ReadyToStore(p)
    /\ held[p].seen = row[held[p].run].head
    /\ Finish(p, SetWorkflow(SetOwnedStatus(row[held[p].run], "cancelled"),
                             "cancelled"))
    /\ UNCHANGED <<ghHead, saved, hist, faults, ops>>

\* Defect: reviews that wait for approval are left alone.
SupersededByQueuedOnly(r) ==
    {s \in Runs : /\ ~row[r].snapshot
                  /\ s < r
                  /\ row[s].head # row[r].head
                  /\ ~row[s].snapshot
                  /\ row[s].exec \in Claimables \union {"running"}}

\* _supersede_previous_versions
SupersededBy(r) ==
    {s \in Runs : /\ ~row[r].snapshot
                  /\ s < r
                  /\ row[s].head # row[r].head
                  /\ ~row[s].snapshot
                  /\ row[s].exec \in Replaceables}

\* store_github_context once the snapshot is accepted: files are replaced,
\* older versions superseded and the run becomes t, in one transaction.
AcceptContext(p, t, filesComplete) ==
    LET r == held[p].run IN
    /\ held[p].seen = row[r].head
    /\ row' = [s \in Runs |-> IF s = r THEN t
                              ELSE IF s \in SupersededBy(r)
                              THEN Superseded(row[s])
                              ELSE row[s]]
    /\ held' = [held EXCEPT ![p] = NoLease]
    /\ saved' = IF filesComplete THEN saved \union {row[r].head}
                ELSE saved \ {row[r].head}
    /\ hist' = [hist EXCEPT ![r].stored = ~row[r].snapshot]
    /\ UNCHANGED <<ghHead, faults, ops>>

\* CI pending or unknown before the deadline: poll again later.
StoreCiPending(p, filesComplete) ==
    LET t == row[held[p].run] IN
    /\ ReadyToStore(p)
    /\ t.deadline # "passed"
    /\ t.polls < MaxPolls
    /\ AcceptContext(p,
          [SetWorkflow(SetOwnedStatus(t, "waiting_for_ci"), "ci")
           EXCEPT !.deadline = "pending", !.due = FALSE],
          filesComplete)

\* CI pending or unknown at the deadline.
StoreCiTimeout(p, filesComplete) ==
    LET t == row[held[p].run] IN
    /\ ReadyToStore(p)
    /\ t.deadline = "passed"
    /\ AcceptContext(p, SetWorkflow(SetOwnedStatus(t, "timed_out"), "failed"),
                     filesComplete)

\* CI finished, or none is configured.
StoreCiReady(p, filesComplete) ==
    LET t == row[held[p].run] IN
    /\ ReadyToStore(p)
    /\ AcceptContext(p,
        [SetWorkflow(SetOwnedStatus(t, "ready_for_review"), "planning")
         EXCEPT !.deadline = "none"],
        filesComplete)

\* store_review_plan: planning found a newer head.
StorePlanStale(p) ==
    LET r == held[p].run IN
    /\ Owns(p)
    /\ held[p].claimedFrom = "ready_for_review"
    /\ row[r].plan = "none"
    /\ row[r].head \in saved
    /\ HasNewer(r) /\ ~row[r].snapshot
    /\ Finish(p, Superseded(row[r]))
    /\ UNCHANGED <<ghHead, saved, hist, faults, ops>>

\* store_review_plan: the plan is saved and the model stage may be claimed.
StorePlan(p) ==
    LET r == held[p].run IN
    /\ Owns(p)
    /\ held[p].claimedFrom = "ready_for_review"
    /\ row[r].plan = "none"
    /\ row[r].head \in saved
    /\ ~HasNewer(r) \/ row[r].snapshot
    /\ Finish(p, [SetWorkflow(SetOwnedStatus(row[r], "ready_for_review"),
                              "agent_batches") EXCEPT !.plan = "open"])
    /\ UNCHANGED <<ghHead, saved, hist, faults, ops>>

InModelStage(p) == held[p].claimedFrom = "ready_for_review" /\ held[p].plan

\* Defect: the run is updated without the ownership check.
MarkAggregatingUnowned(p) ==
    /\ held[p].run # 0
    /\ InModelStage(p)
    /\ row' = [row EXCEPT ![held[p].run] = SetWorkflow(@, "aggregating")]
    /\ UNCHANGED <<held, ghHead, saved, hist, faults, ops>>

\* mark_model_aggregating
MarkAggregating(p) ==
    LET r == held[p].run IN
    /\ Owns(p)
    /\ InModelStage(p)
    /\ row[r].wf = "agent_batches"
    /\ row' = [row EXCEPT ![r] = SetWorkflow(row[r], "aggregating")]
    /\ UNCHANGED <<held, ghHead, saved, hist, faults, ops>>

\* store_model_review, complete: the result waits for approval, or becomes
\* history when a newer head has arrived.
StoreReview(p, coverage) ==
    LET r == held[p].run
        old == row[r].snapshot \/ HasNewer(r)
    IN
    /\ Owns(p)
    /\ InModelStage(p)
    /\ row[r].plan = "open"
    /\ Finish(p, [SetWorkflow(SetOwnedStatus(row[r], "completed"),
                              IF old THEN "completed"
                              ELSE "awaiting_approval")
                  EXCEPT !.plan = "done", !.snapshot = old,
                         !.coverage = coverage])
    /\ hist' = [hist EXCEPT ![r].approved = FALSE]
    /\ UNCHANGED <<ghHead, saved, faults, ops>>

\* store_model_review, partial: some agents or batches failed for good.
StorePartialReview(p) ==
    LET r == held[p].run IN
    /\ Owns(p)
    /\ InModelStage(p)
    /\ row[r].plan = "open"
    /\ Finish(p, [SetWorkflow(SetOwnedStatus(row[r], "failed"),
                              "agent_batches")
                  EXCEPT !.snapshot = @ \/ HasNewer(r),
                         !.coverage = "partial"])
    /\ UNCHANGED <<ghHead, saved, hist, faults, ops>>

\* retry_or_fail
ReportError(p, kind) ==
    LET r == held[p].run IN
    /\ Owns(p)
    /\ kind = "batch_busy" => InModelStage(p)
    /\ kind # "permanent" => faults < MaxFaults
    /\ Finish(p, RescheduleOrFail(row[r], kind))
    /\ hist' = [hist EXCEPT ![r] = Charged(@, row[r], kind)]
    /\ faults' = IF kind = "permanent" THEN faults ELSE faults + 1
    /\ UNCHANGED <<ghHead, saved, ops>>

\* pause_for_monthly_budget
PauseForBudget(p) ==
    LET r == held[p].run IN
    /\ Owns(p)
    /\ InModelStage(p)
    /\ "budget" \in OpKinds
    /\ Finish(p, [SetWorkflow(SetOwnedStatus(row[r], "ready_for_review"),
                              "paused") EXCEPT !.pausedFrom = "agent_batches"])
    /\ UNCHANGED <<ghHead, saved, hist, faults, ops>>

\* Every leased call of a process that lost ownership raises TaskLeaseLost
\* (or replays a stored result) and writes nothing.
LoseLease(p) ==
    /\ held[p].run # 0
    /\ ~Owns(p)
    /\ held' = [held EXCEPT ![p] = NoLease]
    /\ UNCHANGED <<row, ghHead, saved, hist, faults, ops>>

\* The process dies and restarts with the same identity.
Crash(p) ==
    /\ held[p].run # 0
    /\ faults < MaxFaults
    /\ held' = [held EXCEPT ![p] = NoLease]
    /\ faults' = faults + 1
    /\ UNCHANGED <<row, ghHead, saved, hist, ops>>

-----------------------------------------------------------------------------
(* The clock, and the recovery every worker runs before it claims.         *)

Held(r) == \E p \in Procs : held[p].run = r /\ Owns(p)

Expired(r) ==
    /\ row[r].exec = "running"
    /\ row[r].lease = "live"
    /\ row' = [row EXCEPT ![r].lease = "expired"]
    /\ UNCHANGED <<held, ghHead, saved, hist, ops>>

\* Nobody renews the lease of a process that died.
ExpireAbandoned(r) == ~Held(r) /\ Expired(r) /\ faults' = faults

\* The process is up, but its renewal comes too late.
MissRenewal(r) ==
    /\ Held(r)
    /\ faults < MaxFaults
    /\ Expired(r)
    /\ faults' = faults + 1

BecomeDue(r) ==
    /\ row[r].exec # "absent"
    /\ ~row[r].due
    /\ row' = [row EXCEPT ![r].due = TRUE]
    /\ UNCHANGED <<held, ghHead, saved, hist, faults, ops>>

DeadlinePasses(r) ==
    /\ row[r].deadline = "pending"
    /\ row' = [row EXCEPT ![r].deadline = "passed"]
    /\ UNCHANGED <<held, ghHead, saved, hist, faults, ops>>

\* recover_expired_leases, one row of its batch.
Recover(r) ==
    /\ row[r].exec = "running"
    /\ row[r].wf # "paused"
    /\ row[r].lease = "expired"
    /\ row' = [row EXCEPT ![r] = RescheduleOrFail(row[r], "retryable")]
    /\ hist' = [hist EXCEPT ![r] = Charged(@, row[r], "retryable")]
    /\ UNCHANGED <<held, ghHead, saved, faults, ops>>

-----------------------------------------------------------------------------
(* apply_action: one operator request on run r, under its row lock.        *)

\* A retry or resume of an outdated version goes on as a history review, if
\* its code was saved; Refreshed is the row apply_action continues with.
Outdated(r) == ~row[r].snapshot /\ (HasNewer(r) \/ row[r].coverage = "stale")
MayContinue(r) == Outdated(r) => row[r].head \in saved
Refreshed(r) == IF Outdated(r)
                THEN [row[r] EXCEPT !.snapshot = TRUE, !.coverage = "partial"]
                ELSE row[r]

Operate(kind, r, t) ==
    /\ kind \in OpKinds
    /\ ops < MaxOps
    /\ row[r].exec # "absent"
    /\ ops' = ops + 1
    /\ row' = [row EXCEPT ![r] = t]
    /\ UNCHANGED <<held, ghHead, saved, faults>>

Start(r) ==
    /\ row[r].wf = "queued"
    /\ Operate("start", r, [row[r] EXCEPT !.wf = "ci", !.pausedFrom = "none"])
    /\ hist' = hist

\* _paused_execution_status
PausedExec(node, exec) ==
    IF node = "ci"
    THEN IF exec \in {"queued", "waiting_for_ci"} THEN exec ELSE "queued"
    ELSE IF node \in ModelNodes \union {"planning"} THEN "ready_for_review"
    ELSE IF exec = "running" THEN "completed" ELSE exec

\* _resumed_execution_status
ResumedExec(node, exec) ==
    IF node \in {"queued", "ci"} THEN "queued"
    ELSE IF node \in ModelNodes \union {"planning"} THEN "ready_for_review"
    ELSE IF exec = "running" THEN "completed" ELSE exec

Pause(r) ==
    LET node == row[r].wf IN
    /\ node \in Resumables
    /\ Operate("pause", r,
          [Unleased(row[r]) EXCEPT !.wf = "paused", !.pausedFrom = node,
              !.due = TRUE, !.exec = PausedExec(node, row[r].exec)])
    /\ hist' = [hist EXCEPT ![r] = Uncharged(@)]

\* The target is the request's target_stage or, by default, the node the
\* run was paused at.
Resume(r, explicit) ==
    LET default == IF row[r].pausedFrom = "none" THEN "ci"
                   ELSE row[r].pausedFrom
        target == IF explicit = "none" THEN default ELSE explicit
    IN
    /\ row[r].wf = "paused"
    /\ MayContinue(r)
    /\ target \in Resumables
    /\ ~(Refreshed(r).snapshot /\ explicit = "ci")
    /\ Operate("resume", r,
          [Unleased(Refreshed(r)) EXCEPT !.wf = target, !.pausedFrom = "none",
              !.due = TRUE, !.exec = ResumedExec(target, row[r].exec)])
    /\ hist' = [hist EXCEPT ![r] = Uncharged(@)]

\* _prepare_stage_retry
StageReset(t, target) ==
    CASE target = "ci" -> [t EXCEPT !.plan = "none", !.coverage = "unknown",
                                    !.polls = 0, !.deadline = "none"]
      [] target = "planning" -> [t EXCEPT !.plan = "none",
                                          !.coverage = "unknown"]
      [] OTHER -> [t EXCEPT !.plan = "open"]

RetryStage(r, target) ==
    /\ \/ row[r].wf \in {"failed", "rejected", "awaiting_approval"}
       \/ row[r].exec = "failed" /\ row[r].wf \in Retryables
    /\ row[r].plan # "none"
    /\ MayContinue(r)
    /\ ~(Refreshed(r).snapshot /\ target = "ci")
    /\ Operate("retry_stage", r,
          [Unleased(StageReset(Refreshed(r), target)) EXCEPT
              !.wf = target, !.pausedFrom = "none", !.due = TRUE,
              !.exec = IF target = "ci" THEN "queued" ELSE "ready_for_review"])
    /\ hist' = [hist EXCEPT ![r] = Uncharged(@)]

\* ReviewCoverage.block_reason with the exclusions acknowledged
CoverageAllows(t) ==
    \/ t.coverage \in {"unknown", "complete"}
    \/ t.coverage = "partial" /\ t.plan = "done"

Approve(r) ==
    /\ row[r].wf = "awaiting_approval"
    /\ CoverageAllows(row[r])
    /\ Operate("approve", r, [row[r] EXCEPT !.wf = "awaiting_publish",
                                            !.pausedFrom = "none"])
    /\ hist' = [hist EXCEPT ![r].approved = TRUE]

Reject(r) ==
    /\ row[r].wf \in {"awaiting_approval", "awaiting_publish"}
    /\ Operate("reject", r, [row[r] EXCEPT !.wf = "rejected",
                                           !.pausedFrom = "none"])
    /\ hist' = hist

Cancel(r) ==
    /\ \/ row[r].exec \in Claimables \union {"running"}
       \/ row[r].exec = "completed" /\ row[r].wf = "paused"
    /\ Operate("cancel", r,
          [Unleased(row[r]) EXCEPT !.exec = "cancelled", !.wf = "cancelled",
                                   !.pausedFrom = "none"])
    /\ hist' = hist

\* RETRY: every counter restarts at zero; the CI deadline is kept.
Retry(r) ==
    LET t == Refreshed(r) IN
    /\ row[r].exec \in {"failed", "timed_out"}
    /\ row[r].plan # "done"
    /\ MayContinue(r)
    /\ Operate("retry", r,
          [Unleased(t) EXCEPT
              !.exec = IF t.plan # "none" \/ t.snapshot
                       THEN "ready_for_review" ELSE "queued",
              !.wf = IF t.plan # "none" THEN "agent_batches"
                     ELSE IF t.snapshot THEN "planning" ELSE "queued",
              !.attempts = 0, !.models = 0, !.polls = 0, !.due = TRUE])
    /\ hist' = [hist EXCEPT ![r] = Uncharged(@)]

\* Defects of RETRY_FAILED_NODE: the node of the workflow, or the completed
\* plan, is left as it was.
RetryFailedNodeKeepNode(r, coverage) ==
    /\ row[r].plan # "none"
    /\ MayContinue(r)
    /\ ~(row[r].exec = "running" /\ row[r].lease = "live")
    /\ Operate("retry_failed_node", r,
          [Unleased(Refreshed(r)) EXCEPT
              !.exec = "ready_for_review", !.due = TRUE, !.plan = "open",
              !.coverage = coverage])
    /\ hist' = [hist EXCEPT ![r] = Uncharged(@)]

RetryFailedNodeKeepPlan(r, coverage) ==
    /\ row[r].plan # "none"
    /\ MayContinue(r)
    /\ ~(row[r].exec = "running" /\ row[r].lease = "live")
    /\ Operate("retry_failed_node", r,
          [Unleased(Refreshed(r)) EXCEPT
              !.exec = "ready_for_review", !.wf = "agent_batches",
              !.pausedFrom = "none", !.due = TRUE, !.coverage = coverage])
    /\ hist' = [hist EXCEPT ![r] = Uncharged(@)]

\* RETRY_FAILED_NODE: refused only while the task's lease is live.
RetryFailedNode(r, coverage) ==
    /\ row[r].plan # "none"
    /\ MayContinue(r)
    /\ ~(row[r].exec = "running" /\ row[r].lease = "live")
    /\ Operate("retry_failed_node", r,
          [Unleased(Refreshed(r)) EXCEPT
              !.exec = "ready_for_review", !.wf = "agent_batches",
              !.pausedFrom = "none", !.due = TRUE, !.plan = "open",
              !.coverage = coverage])
    /\ hist' = [hist EXCEPT ![r] = Uncharged(@)]

Expedite(r) ==
    /\ row[r].exec \in Claimables
    /\ Operate("expedite", r, [row[r] EXCEPT !.due = TRUE])
    /\ hist' = hist

\* A run s created by an operator from run r.
RunFrom(kind, r, s, t) ==
    /\ kind \in OpKinds
    /\ ops < MaxOps
    /\ row[r].exec \notin {"absent", "running"}
    /\ NextSlot(s)
    /\ row' = [row EXCEPT ![s] = t]
    /\ ops' = ops + 1
    /\ UNCHANGED <<held, ghHead, saved, hist, faults>>

HistoryRun(h) == [NoRow EXCEPT !.exec = "ready_for_review", !.wf = "planning",
                               !.due = TRUE, !.head = h, !.snapshot = TRUE]

\* RERUN and NEW_REVIEW: the service asks GitHub for the head of the pull
\* request, outside the transaction, and reviews that commit afresh.
NewReview(r, s, h) ==
    /\ IF LateDelivery THEN h <= ghHead ELSE h = ghHead
    /\ RunFrom("new_review", r, s, FreshRun(h))

\* REVIEW_SNAPSHOT reviews r's saved code as history.
ReviewSnapshot(r, s) ==
    /\ row[r].head \in saved
    /\ RunFrom("review_snapshot", r, s, HistoryRun(row[r].head))

-----------------------------------------------------------------------------

Arrivals == \/ Push
            \/ \E r \in Runs, h \in Heads : CreateRun(r, h)

Stored(p) ==
    \/ StoreHeadMismatch(p)
    \/ StoreNotReviewable(p)
    \/ \E complete \in BOOLEAN :
          \/ StoreCiPending(p, complete)
          \/ StoreCiTimeout(p, complete)
          \/ StoreCiReady(p, complete)
    \/ StorePlanStale(p)
    \/ StorePlan(p)
    \/ \E c \in {"complete", "partial"} : StoreReview(p, c)
    \/ StorePartialReview(p)
    \/ PauseForBudget(p)
    \/ \E kind \in {"retryable", "permanent", "batch_busy"} :
          ReportError(p, kind)

Work(p) == LoadContext(p) \/ MarkAggregating(p) \/ Stored(p) \/ LoseLease(p)

Poll(p) == \E r \in Runs : Claim(p, r)

Clock == \E r \in Runs : \/ ExpireAbandoned(r) \/ MissRenewal(r)
                         \/ BecomeDue(r) \/ DeadlinePasses(r)

Operator == \E r \in Runs :
    \/ Start(r) \/ Pause(r) \/ Approve(r) \/ Reject(r) \/ Cancel(r)
    \/ Retry(r) \/ Expedite(r)
    \/ \E target \in ResumeTargets \union {"none"} : Resume(r, target)
    \/ \E target \in Retryables : RetryStage(r, target)
    \/ \E c \in {"complete", "partial"} : RetryFailedNode(r, c)
    \/ \E s \in Runs : ReviewSnapshot(r, s)
    \/ \E s \in Runs, h \in Heads : NewReview(r, s, h)

Next ==
    \/ Arrivals
    \/ \E p \in Procs : Poll(p) \/ Renew(p) \/ Work(p) \/ Crash(p)
    \/ Clock
    \/ \E r \in Runs : Recover(r)
    \/ Operator

Spec == Init /\ [][Next]_vars

\* Every worker keeps polling and works on what it claimed, recovery runs in
\* every worker's loop, and time passes.  Nobody is obliged to push, to fail
\* or to press a button.
Fairness ==
    /\ \A p \in Procs : WF_vars(Poll(p)) /\ WF_vars(Work(p))
    /\ \A r \in Runs : /\ WF_vars(ExpireAbandoned(r))
                       /\ WF_vars(BecomeDue(r))
                       /\ WF_vars(DeadlinePasses(r))
                       /\ WF_vars(Recover(r))

FairSpec == Spec /\ Fairness
-----------------------------------------------------------------------------
(* Properties.                                                             *)

\* A task is running exactly while it has an owner, a lease and the stage it
\* was claimed from, and never while it is paused: whatever transaction takes
\* a task out of "running" clears all three fields of _locked_owned_task.
LeaseConsistent ==
    \A r \in Runs :
        /\ (row[r].exec = "running") <=> (row[r].owner # NoWorker)
        /\ (row[r].exec = "running") <=> (row[r].lease # "none")
        /\ (row[r].exec = "running") <=> (row[r].claimedFrom # "none")
        /\ row[r].exec = "running" => row[r].wf # "paused"

\* A process that passes the ownership check of _locked_owned_task holds the
\* lease of the latest claim of the task: a worker that lost its lease cannot
\* write over the worker that claimed the task after it, even when both were
\* configured with the same stable identity.
Fencing ==
    \A p \in Procs : Owns(p) => held[p].epoch = hist[held[p].run].epoch

\* The queue implements the exclusive lease of ExclusiveLease: a process holds
\* a run while it passes the ownership check, and the token is the claim.
HolderOf(r) == IF Held(r)
               THEN CHOOSE p \in Procs : held[p].run = r /\ Owns(p)
               ELSE NoWorker

Lock == INSTANCE ExclusiveLease
    WITH Items <- Runs, Holders <- Procs, Nobody <- NoWorker,
         holder <- [r \in Runs |-> HolderOf(r)],
         token <- [r \in Runs |-> hist[r].epoch]

LockRefined == Lock!Spec

\* claim_next keeps the number of live leases within the repository's limit,
\* whatever renewals, expiries and recoveries happen in between.
RepoLimitHeld == Cardinality(Active) <= RepoLimit

\* Between two operator actions a task fails at most MaxAttempts times in the
\* context and planning stages and at most MaxAttempts times in the model
\* stage: the two counters of claim_next bound _reschedule_or_fail.
RetryBudget ==
    \A r \in Runs : hist[r].work <= MaxAttempts /\ hist[r].model <= MaxAttempts

\* A run is only superseded when GitHub has moved past its commit: the review
\* of the current head is never thrown away.
OnlyStaleSuperseded ==
    \A r \in Runs : row[r].exec = "superseded" => row[r].head < ghHead

\* Once a run has stored the context of its commit, every older run of another
\* commit is finished, paused or a history review: no retry, resume or stage
\* reset brings one back to the review of the current pull request.
OldHeadRetired ==
    \A r, s \in Runs :
        /\ r < s /\ hist[s].stored
        /\ row[r].head # row[s].head /\ ~row[r].snapshot
        => \/ row[r].exec \in {"superseded", "failed", "timed_out", "cancelled"}
           \/ row[r].wf = "paused"

\* The head of the pull request is reviewed, and nothing but it.
HeadsRespected == OnlyStaleSuperseded /\ OldHeadRetired

\* A run that may be published carries a completed review, and an operator
\* approved that very result: no pause, resume or retry leads around APPROVE.
PublishGate ==
    \A r \in Runs : row[r].wf = "awaiting_publish" =>
                        row[r].plan = "done" /\ hist[r].approved

\* A task that is ready for review can be claimed: claim_next skips plans
\* whose model review is complete, so such a task would wait forever.
ReadyClaimable ==
    \A r \in Runs : row[r].exec = "ready_for_review" /\ row[r].wf # "paused"
                        => row[r].plan # "done"

\* A retried task is neither dropped nor retried without end.
RetriesSound == RetryBudget /\ ReadyClaimable

\* Only an operator, or a newer version of the pull request, takes a task out
\* of "paused": no worker, clock or recovery step does.
PauseHolds ==
    [][\A r \in Runs : row[r].wf = "paused" /\ row'[r].wf # "paused" =>
           ops' > ops \/ row'[r].exec = "superseded"]_vars

\* Only an operator revives a task that failed, timed out, was cancelled or
\* superseded: a late write of an old lease does not.
OnlyOperatorsRevive ==
    [][\A r \in Runs :
           /\ row[r].exec \in {"failed", "timed_out", "cancelled", "superseded"}
           /\ row'[r].exec # row[r].exec
           => ops' > ops]_vars

\* What was stopped starts again only at an operator's will.
OperatorsDecide == PauseHolds /\ OnlyOperatorsRevive

Settled(t) == \/ t.exec \in {"completed", "failed", "timed_out", "cancelled",
                             "superseded"}
              \/ t.wf = "paused"

\* A requested review that has neither ended nor been paused: it must not stay
\* so forever, whatever crashes, lost leases, errors and a pending CI do.
Unsettled(r) == row[r].exec # "absent" /\ ~Settled(row[r])
=============================================================================
