---------------------------- MODULE ModelBatches ----------------------------
(***************************************************************************)
(* The model stage of one review: agents run in parallel threads of the    *)
(* process that holds the task, and each sends its durable batches one     *)
(* after the other (src/persistence/queue/batches.py, src/apps/worker).    *)
(*                                                                         *)
(* The task's lease is the lock of ExclusiveLease, which ReviewQueue       *)
(* implements.  The lock is free as soon as a process crashes: that its    *)
(* lease still has to run out is the delay before Recover.                 *)
(***************************************************************************)
EXTENDS Integers, FiniteSets

CONSTANTS
    Task,           \* the review
    Procs,          \* worker processes
    NoProc,
    NAgents,        \* agents, in the order of PARALLEL_AGENTS
    MaxBatches,     \* bound: batches of one agent
    Confs,          \* model configurations, positive numbers
    Splits,         \* Splits[c]: numbers of batches c may plan
    MaxRequests,    \* max_retries + 1: claims of one batch
    MaxModels,      \* max_attempts of the task
    MaxFaults,      \* bound: errors, crashes and missed renewals
    MaxOps,         \* bound: operator actions
    OpKinds         \* the operator actions taken in this instance

ASSUME BatchAssumption ==
    /\ NoProc \notin Procs
    /\ NAgents \in Nat \ {0}
    /\ MaxBatches \in Nat \ {0}
    /\ Confs \subseteq Nat \ {0} /\ Confs # {}
    /\ Splits \in [Confs -> SUBSET (1..MaxBatches)]
    /\ MaxRequests \in Nat \ {0}
    /\ MaxModels \in Nat \ {0}
    /\ MaxFaults \in Nat
    /\ MaxOps \in Nat

Agents == 1..NAgents
Batches == 1..MaxBatches

VARIABLES
    task,       \* the review's scheduling state; wait: the agent whose
                \* busy batch sets available_at
    conf,       \* the configuration the operators have chosen
    rows,       \* rows[a][b]: ModelReviewBatchRecord
    planned,    \* planned[a]: configuration of the last batches_planned
    job,        \* job[p]: the configuration and split p works with
    thread,     \* thread[p][a]: the agent's thread in p's pool
    holder, token,  \* the task's lease
    claims,     \* claims[a][b]: claims of the batch (history, never read)
    overrun,    \* history: a batch in flight lost its live lease
    faults,     \* errors, crashes and missed renewals so far
    ops         \* operator actions so far

vars == <<task, conf, rows, planned, job, thread, holder, token, claims,
          overrun, faults, ops>>

TaskStates == {"ready", "running", "paused", "partial", "failed", "done"}
RowStates == {"absent", "pending", "running", "failed", "succeeded"}
Errors == {"none", "busy", "retryable", "fatal"}
Points == {"idle", "load", "ensure", "scan", "request", "done", "failed",
           "lost"}

\* saved: the configuration of the row's result or of its checkpoint.
RowType == [status : RowStates, attempts : Nat, live : BOOLEAN,
            due : BOOLEAN, saved : Confs \union {0}]
ThreadType == [pc : Points, batch : 0..MaxBatches, attempt : Nat,
               claim : Nat, error : Errors]

TypeOK ==
    /\ task \in [status : TaskStates, due : BOOLEAN, models : Nat,
                wait : 0..NAgents]
    /\ conf \in Confs
    /\ rows \in [Agents -> [Batches -> RowType]]
    /\ planned \in [Agents -> Confs \union {0}]
    /\ job \in [Procs -> [conf : Confs \union {0}, total : 0..MaxBatches]]
    /\ thread \in [Procs -> [Agents -> ThreadType]]
    /\ claims \in [Agents -> [Batches -> Nat]]
    /\ overrun \in BOOLEAN
    /\ faults \in Nat /\ ops \in Nat

NoRow == [status |-> "absent", attempts |-> 0, live |-> FALSE,
          due |-> FALSE, saved |-> 0]
Pending == [NoRow EXCEPT !.status = "pending", !.due = TRUE]
NoJob == [conf |-> 0, total |-> 0]
Idle == [pc |-> "idle", batch |-> 0, attempt |-> 0, claim |-> 0,
         error |-> "none"]

Lock == INSTANCE ExclusiveLease
    WITH Items <- {Task}, Holders <- Procs, Nobody <- NoProc

Init ==
    /\ task = [status |-> "ready", due |-> TRUE, models |-> 0, wait |-> 0]
    /\ conf \in Confs
    /\ rows = [a \in Agents |-> [b \in Batches |-> NoRow]]
    /\ planned = [a \in Agents |-> 0]
    /\ job = [p \in Procs |-> NoJob]
    /\ thread = [p \in Procs |-> [a \in Agents |-> Idle]]
    /\ Lock!Init
    /\ claims = [a \in Agents |-> [b \in Batches |-> 0]]
    /\ overrun = FALSE
    /\ faults = 0 /\ ops = 0

-----------------------------------------------------------------------------
(* What the code reads.                                                    *)

HasJob(p) == job[p] # NoJob

\* _locked_owned_task, as ReviewQueue and its proofs resolve it.
Owns(p) == holder[Task] = p

JobLost(p) == \E a \in Agents : thread[p][a].pc = "lost"

\* The thread may go on: the cursor has not seen the lease lost, and the next
\* transaction will pass the ownership check.
Works(p, a, point) ==
    thread[p][a].pc = point /\ ~JobLost(p) /\ Owns(p)

Known(a) == {b \in Batches : rows[a][b].status # "absent"}
InStatus(a, s) == {b \in Batches : rows[a][b].status = s}
Succeeded(a) == InStatus(a, "succeeded")
Unfinished(a) == Known(a) \ Succeeded(a)
LiveRunning(a) == {b \in InStatus(a, "running") : rows[a][b].live}

Whole(a) == Known(a) # {} /\ Unfinished(a) = {}

First(S) == CHOOSE x \in S : \A y \in S : x <= y

\* complete, checkpoint and fail: the row is still claimed as the thread
\* claimed it.  lease_owner is left out: it names the worker of the task.
StillClaimed(p, a) ==
    LET t == thread[p][a] IN
    /\ rows[a][t.batch].status = "running"
    /\ rows[a][t.batch].live
    /\ rows[a][t.batch].attempts = t.attempt

InFlight(a, b) ==
    {p \in Procs : thread[p][a].pc = "request" /\ thread[p][a].batch = b}

-----------------------------------------------------------------------------
(* The task: a process claims it and starts a thread per agent.            *)

Release == IF holder[Task] = NoProc THEN UNCHANGED <<holder, token>>
           ELSE Lock!Release({Task})

\* claim_next in the model stage; the worker reads the current configuration.
ClaimTask(p) ==
    /\ ~HasJob(p)
    /\ task.status = "ready" /\ task.due
    /\ Lock!Acquire(Task, p)
    /\ task' = [task EXCEPT !.status = "running", !.models = @ + 1]
    /\ \E n \in Splits[conf] :
          job' = [job EXCEPT ![p] = [conf |-> conf, total |-> n]]
    /\ thread' = [thread EXCEPT ![p] =
                     [a \in Agents |-> [Idle EXCEPT !.pc = "load"]]]
    /\ UNCHANGED <<conf, rows, planned, claims, overrun, faults, ops>>

\* The next transaction of the thread; what a thread leaves alone.
Step(p, a, t) == thread' = [thread EXCEPT ![p][a] = t]
OnlyRows == UNCHANGED <<task, conf, planned, job, holder, token, ops>>

\* The transaction writes one batch.
Write(a, b, r) == rows' = [rows EXCEPT ![a][b] = r]

At(p, a, point) == [thread[p][a] EXCEPT !.pc = point]

\* The agent stops with an error.  batch # 0: its loop over the batches has
\* begun, and the results of earlier batches are kept for the partial review.
Stopped(p, a, b, error) ==
    [thread[p][a] EXCEPT !.pc = "failed", !.batch = b, !.error = error]

\* _review_batches: every batch of the agent is already answered.
Restore(p, a) ==
    /\ Works(p, a, "load")
    /\ Whole(a)
    /\ Step(p, a, At(p, a, "done"))
    /\ OnlyRows /\ UNCHANGED <<rows, claims, overrun, faults>>

\* Defect: only checkpoints are compared with the configuration.
ForeignUnfinished(p, a) ==
    {b \in Unfinished(a) : rows[a][b].saved \notin {0, job[p].conf}}

Foreign(p, a) == {b \in Known(a) : rows[a][b].saved \notin {0, job[p].conf}}

\* MODEL_CONFIGURATION_CHANGED
RefuseMixture(p, a) ==
    /\ Works(p, a, "load")
    /\ ~Whole(a)
    /\ Foreign(p, a) # {}
    /\ Step(p, a, Stopped(p, a, 0, "fatal"))
    /\ OnlyRows /\ UNCHANGED <<rows, claims, overrun, faults>>

\* plan_model_review_batches and the event batches_planned.
Plan(p, a) ==
    /\ Works(p, a, "load")
    /\ ~Whole(a)
    /\ Foreign(p, a) = {}
    /\ planned' = [planned EXCEPT ![a] = job[p].conf]
    /\ Step(p, a, At(p, a, "ensure"))
    /\ UNCHANGED <<task, conf, rows, job, holder, token, claims, overrun,
                   faults, ops>>

Defined(n) == [b \in Batches |-> IF b <= n THEN Pending ELSE NoRow]

\* Defect: results that no longer fit the split are thrown away.
EnsureOverwriting(p, a) ==
    /\ Works(p, a, "ensure")
    /\ IF Known(a) = 1..job[p].total
       THEN Step(p, a, At(p, a, "scan")) /\ UNCHANGED rows
       ELSE IF LiveRunning(a) # {}
       THEN Step(p, a, Stopped(p, a, 0, "fatal")) /\ UNCHANGED rows
       ELSE /\ rows' = [rows EXCEPT ![a] = Defined(job[p].total)]
            /\ Step(p, a, At(p, a, "scan"))
    /\ OnlyRows /\ UNCHANGED <<claims, overrun, faults>>

\* ensure_model_batches.  A split is told apart by its number of batches.
Ensure(p, a) ==
    /\ Works(p, a, "ensure")
    /\ IF Known(a) = 1..job[p].total
       THEN Step(p, a, At(p, a, "scan")) /\ UNCHANGED rows
       ELSE IF Succeeded(a) \union LiveRunning(a) # {}
       THEN Step(p, a, Stopped(p, a, 0, "fatal")) /\ UNCHANGED rows
       ELSE /\ rows' = [rows EXCEPT ![a] = Defined(job[p].total)]
            /\ Step(p, a, At(p, a, "scan"))
    /\ OnlyRows /\ UNCHANGED <<claims, overrun, faults>>

\* The loop over the batches ends.
Answered(p, a) ==
    /\ Works(p, a, "scan")
    /\ Unfinished(a) = {}
    /\ Step(p, a, At(p, a, "done"))
    /\ OnlyRows /\ UNCHANGED <<rows, claims, overrun, faults>>

\* Defect of claim_model_batch: the lease of a running batch is not looked at.
ClaimableLive(r) == r.due

Claimable(r) == ~(r.status = "running" /\ r.live) /\ r.due

\* The next batch used up its requests, is in flight or is not due.
Refuse(p, a) ==
    LET b == First(Unfinished(a))
        used == rows[a][b].attempts >= MaxRequests
    IN
    /\ Works(p, a, "scan")
    /\ Unfinished(a) # {}
    /\ used \/ ~Claimable(rows[a][b])
    /\ Step(p, a, Stopped(p, a, b, IF used THEN "fatal" ELSE "busy"))
    /\ OnlyRows /\ UNCHANGED <<rows, claims, overrun, faults>>

\* claim_model_batch
ClaimBatch(p, a) ==
    LET b == First(Unfinished(a)) IN
    /\ Works(p, a, "scan")
    /\ Unfinished(a) # {}
    /\ rows[a][b].attempts < MaxRequests
    /\ Claimable(rows[a][b])
    /\ Write(a, b, [rows[a][b] EXCEPT !.status = "running", !.live = TRUE,
                                      !.attempts = @ + 1])
    /\ claims' = [claims EXCEPT ![a][b] = @ + 1]
    /\ Step(p, a, [thread[p][a] EXCEPT
                      !.pc = "request", !.batch = b,
                      !.attempt = rows[a][b].attempts + 1,
                      !.claim = claims[a][b] + 1])
    /\ OnlyRows /\ UNCHANGED <<overrun, faults>>

\* The thread's pool entry after its request: the loop ends with an error.
Error(p, a, kind) ==
    Stopped(p, a, thread[p][a].batch,
            IF kind = "retryable" /\ thread[p][a].attempt < MaxRequests
            THEN "retryable" ELSE "fatal")

\* complete_model_batch.  Its early return for a batch already answered, and
\* that of fail_model_batch, are never taken: only the owner of the task
\* writes to its batches.
Complete(p, a) ==
    LET b == thread[p][a].batch IN
    /\ Works(p, a, "request")
    /\ StillClaimed(p, a)
    /\ Write(a, b, [rows[a][b] EXCEPT !.status = "succeeded", !.live = FALSE,
                                      !.saved = job[p].conf])
    /\ Step(p, a, At(p, a, "scan"))
    /\ OnlyRows /\ UNCHANGED <<claims, overrun, faults>>

\* checkpoint_model_batch: part of a truncated batch is answered.
Checkpoint(p, a) ==
    LET b == thread[p][a].batch IN
    /\ Works(p, a, "request")
    /\ StillClaimed(p, a)
    /\ rows[a][b].saved = 0
    /\ Write(a, b, [rows[a][b] EXCEPT !.saved = job[p].conf])
    /\ UNCHANGED thread
    /\ OnlyRows /\ UNCHANGED <<claims, overrun, faults>>

\* The request failed.
Fail == faults < MaxFaults /\ faults' = faults + 1

\* fail_model_batch
FailBatch(p, a, kind) ==
    LET b == thread[p][a].batch IN
    /\ Works(p, a, "request")
    /\ StillClaimed(p, a)
    /\ Fail
    /\ Write(a, b, [rows[a][b] EXCEPT !.status = "failed", !.live = FALSE,
                                      !.due = FALSE])
    /\ Step(p, a, Error(p, a, kind))
    /\ OnlyRows /\ UNCHANGED <<claims, overrun>>

\* The failure itself could not be stored: the row stays running.
FailUnsaved(p, a, kind) ==
    /\ Works(p, a, "request")
    /\ Fail
    /\ Step(p, a, Error(p, a, kind))
    /\ OnlyRows /\ UNCHANGED <<rows, claims, overrun>>

\* The thread learns from a transaction, or from the cursor the heartbeat
\* marks, that the lease is lost.  A request in flight is still waited for.
Lose(p, a) ==
    /\ thread[p][a].pc \in {"load", "ensure", "scan", "request"}
    /\ \/ JobLost(p) \/ ~Owns(p)
       \/ thread[p][a].pc = "request" /\ ~StillClaimed(p, a)
    /\ Step(p, a, At(p, a, "lost"))
    /\ OnlyRows /\ UNCHANGED <<rows, claims, overrun, faults>>

-----------------------------------------------------------------------------
(* The end of a job.                                                       *)

Over(p) == /\ HasJob(p)
           /\ \A a \in Agents : thread[p][a].pc \in {"done", "failed", "lost"}

FailedAgents(p) == {a \in Agents : thread[p][a].pc = "failed"}

\* usable_results: some agent answered all or some of its batches.
Usable(p) == \E a \in Agents : \/ thread[p][a].pc = "done"
                               \/ thread[p][a].batch > 1

Leave(p) == /\ job' = [job EXCEPT ![p] = NoJob]
            /\ thread' = [thread EXCEPT ![p] = [a \in Agents |-> Idle]]

\* _reschedule_or_fail in the model stage, for the error of an agent.  A busy
\* batch costs no attempt and sets the time of the retry.
AfterError(t, agent, error) ==
    LET models == IF error = "busy" THEN t.models - 1 ELSE t.models IN
    IF error = "fatal" \/ (models >= MaxModels /\ error # "busy")
    THEN [t EXCEPT !.status = "failed", !.models = models]
    ELSE [status |-> "ready", due |-> FALSE, models |-> models,
          wait |-> IF error = "busy" THEN agent ELSE 0]

\* _run_fixed_agent_workflow after its agents: store the review, store what
\* there is of it, or report the first failed agent's error.
FinishJob(p) ==
    LET a == First(FailedAgents(p)) IN
    /\ Over(p) /\ ~JobLost(p) /\ Owns(p)
    /\ task' = IF FailedAgents(p) = {} THEN [task EXCEPT !.status = "done"]
               ELSE IF Usable(p) THEN [task EXCEPT !.status = "partial"]
               ELSE AfterError(task, a, thread[p][a].error)
    /\ Leave(p)
    /\ Lock!Release({Task})
    /\ UNCHANGED <<conf, rows, planned, claims, overrun, faults, ops>>

\* A job that lost its lease writes nothing; the heartbeat has stopped.
LeaveLost(p) ==
    /\ Over(p)
    /\ JobLost(p) \/ ~Owns(p)
    /\ Leave(p)
    /\ IF Owns(p) THEN Lock!Release({Task}) ELSE UNCHANGED <<holder, token>>
    /\ UNCHANGED <<task, conf, rows, planned, claims, overrun, faults,
                   ops>>

-----------------------------------------------------------------------------
(* Crashes, leases and the clock.                                          *)

Fault == faults < MaxFaults /\ faults' = faults + 1

Crash(p) ==
    /\ HasJob(p)
    /\ Fault
    /\ Leave(p)
    /\ IF Owns(p) THEN Lock!Release({Task}) ELSE UNCHANGED <<holder, token>>
    /\ UNCHANGED <<task, conf, rows, planned, claims, overrun, ops>>

\* The process works on, but its task's lease ran out.
MissRenewal(p) ==
    /\ Owns(p)
    /\ Fault
    /\ Lock!Release({Task})
    /\ UNCHANGED <<task, conf, rows, planned, job, thread, claims, overrun,
                   ops>>

\* recover_expired_leases
Recover ==
    /\ task.status = "running"
    /\ holder[Task] = NoProc
    /\ task' = AfterError(task, 0, "retryable")
    /\ UNCHANGED <<conf, rows, planned, job, thread, holder, token, claims,
                   overrun, faults, ops>>

\* The retry of a busy batch is not due before the batch.
BecomeDue ==
    /\ ~task.due
    /\ task.wait # 0 /\ Unfinished(task.wait) # {} =>
           Claimable(rows[task.wait][First(Unfinished(task.wait))])
    /\ task' = [task EXCEPT !.due = TRUE, !.wait = 0]
    /\ UNCHANGED <<conf, rows, planned, job, thread, holder, token, claims,
                   overrun, faults, ops>>

BatchDue(a, b) ==
    /\ rows[a][b].status = "failed" /\ ~rows[a][b].due
    /\ Write(a, b, [rows[a][b] EXCEPT !.due = TRUE])
    /\ UNCHANGED thread
    /\ OnlyRows /\ UNCHANGED <<claims, overrun, faults>>

BatchExpired(a, b) ==
    /\ b \in LiveRunning(a)
    /\ Write(a, b, [rows[a][b] EXCEPT !.live = FALSE])
    /\ UNCHANGED thread
    /\ OnlyRows /\ UNCHANGED <<claims>>

\* The lease of a batch outlives its request: it is renewed by the process
\* that owns the task and is longer than one request of any other process.
ExpireBatch(a, b) ==
    /\ InFlight(a, b) = {}
    /\ BatchExpired(a, b)
    /\ UNCHANGED <<overrun, faults>>

OverrunBatch(a, b) ==
    /\ InFlight(a, b) # {}
    /\ BatchExpired(a, b)
    /\ Fault
    /\ overrun' = TRUE

-----------------------------------------------------------------------------
(* The operators.                                                          *)

Operate(kind) ==
    /\ kind \in OpKinds
    /\ ops < MaxOps
    /\ ops' = ops + 1
    /\ UNCHANGED <<planned, job, thread, claims, faults>>

Scheduled == [task EXCEPT !.status = "ready", !.due = TRUE, !.wait = 0]

Configure(c) ==
    /\ c # conf
    /\ conf' = c
    /\ Operate("configure")
    /\ UNCHANGED <<task, rows, holder, token, overrun>>

\* PAUSE takes the task's lease away and leaves the batches alone.
Pause ==
    /\ task.status \in {"ready", "running", "partial"}
    /\ task' = [task EXCEPT !.status = "paused", !.due = TRUE,
                           !.wait = 0]
    /\ Release
    /\ Operate("pause")
    /\ UNCHANGED <<conf, rows, overrun>>

Resume ==
    /\ task.status = "paused"
    /\ task' = Scheduled
    /\ Operate("resume")
    /\ UNCHANGED <<conf, rows, holder, token, overrun>>

\* RETRY and RETRY_STAGE to agent_batches delete the batches of all agents,
\* whether they are in flight or not.
DeleteBatches ==
    /\ rows' = [a \in Agents |-> [b \in Batches |-> NoRow]]
    /\ overrun' = (overrun \/ \E a \in Agents, b \in Batches :
                                 InFlight(a, b) # {} /\ b \in LiveRunning(a))

Retry ==
    /\ task.status \in {"partial", "failed"}
    /\ task' = [Scheduled EXCEPT !.models = 0]
    /\ DeleteBatches
    /\ Operate("retry")
    /\ UNCHANGED <<conf, holder, token>>

RetryStage ==
    /\ task.status \in {"partial", "failed", "done"}
    /\ task' = Scheduled
    /\ DeleteBatches
    /\ Operate("retry_stage")
    /\ UNCHANGED <<conf, holder, token>>

\* Defect: an agent starts again only when a succeeded batch is outdated.
RestartsSucceeded(a) ==
    \/ Whole(a)
    \/ \E b \in Succeeded(a) : rows[a][b].saved # conf

\* retry_impacts: the agent has to start again from its first batch.
Restarts(a) ==
    \/ Whole(a)
    \/ planned[a] \notin {0, conf}
    \/ \E b \in Succeeded(a) : rows[a][b].saved # conf

\* RETRY_FAILED_NODE for the agents of S, or for one of their batches.
RetryFailedNode(S, B) ==
    LET selected(a) == IF a \in S THEN Unfinished(a) \intersect B ELSE {}
        targets == IF S = Agents THEN {a \in S : selected(a) # {}} ELSE S
        restarted == {a \in targets : Restarts(a)}
        none == \A a \in Agents : selected(a) = {}
    IN
    /\ task.status # "done"
    /\ holder[Task] = NoProc
    /\ none => \/ \A a \in Agents : Known(a) = {}
               \/ S = Agents /\ B = Batches
    /\ \A a \in Agents :
          LiveRunning(a) \intersect
              (IF a \in restarted THEN Batches ELSE selected(a)) = {}
    /\ rows' = [a \in Agents |-> [b \in Batches |->
                  IF a \in restarted THEN NoRow
                  ELSE IF b \in selected(a)
                  THEN [Pending EXCEPT !.saved = rows[a][b].saved]
                  ELSE rows[a][b]]]
    /\ task' = Scheduled
    /\ Operate("retry_failed_node")
    /\ UNCHANGED <<conf, holder, token, overrun>>

RetryAll == RetryFailedNode(Agents, Batches)
RetryAgent(a) == RetryFailedNode({a}, Batches)
RetryBatch(a, b) == b \in Known(a) /\ RetryFailedNode({a}, {b})

-----------------------------------------------------------------------------

Thread(p, a) ==
    \/ Restore(p, a) \/ RefuseMixture(p, a) \/ Plan(p, a) \/ Ensure(p, a)
    \/ Answered(p, a) \/ Refuse(p, a) \/ ClaimBatch(p, a)
    \/ Complete(p, a) \/ Checkpoint(p, a)
    \/ \E kind \in {"retryable", "fatal"} :
          FailBatch(p, a, kind) \/ FailUnsaved(p, a, kind)
    \/ Lose(p, a)

Finish(p) == FinishJob(p) \/ LeaveLost(p)

Operator ==
    \/ \E c \in Confs : Configure(c)
    \/ Pause \/ Resume \/ Retry \/ RetryStage
    \/ RetryAll
    \/ \E a \in Agents : RetryAgent(a) \/ \E b \in Batches : RetryBatch(a, b)

Next ==
    \/ \E p \in Procs : \/ ClaimTask(p) \/ Finish(p)
                        \/ \E a \in Agents : Thread(p, a)
                        \/ Crash(p) \/ MissRenewal(p)
    \/ Recover \/ BecomeDue
    \/ \E a \in Agents, b \in Batches :
          BatchDue(a, b) \/ ExpireBatch(a, b) \/ OverrunBatch(a, b)
    \/ Operator

Spec == Init /\ [][Next]_vars

\* Workers poll and run their threads, every request is answered or times
\* out, expired tasks are recovered and time passes.
Fairness ==
    /\ \A p \in Procs : WF_vars(ClaimTask(p)) /\ WF_vars(Finish(p))
    /\ \A p \in Procs, a \in Agents : WF_vars(Thread(p, a))
    /\ WF_vars(Recover) /\ WF_vars(BecomeDue)
    /\ \A a \in Agents, b \in Batches :
          WF_vars(BatchDue(a, b)) /\ WF_vars(ExpireBatch(a, b))

FairSpec == Spec /\ Fairness

-----------------------------------------------------------------------------
(* Properties.                                                             *)

\* A finished review has the answer of every batch of every agent, and all
\* answers of an agent come from one model configuration, however often the
\* configuration changed, batches were retried and workers replaced.
WholeReview ==
    task.status = "done" =>
        \A a \in Agents :
            /\ Whole(a)
            /\ \A b, c \in Known(a) : rows[a][b].saved = rows[a][c].saved

\* Every saved answer or checkpoint was produced under the configuration of
\* the agent's last batches_planned event, by which retry_impacts decides
\* whether the agent has to start again.
SavedMatchesPlanned ==
    \A a \in Agents, b \in Batches : rows[a][b].saved \in {0, planned[a]}

\* A finished review is whole and of one configuration, and what is stored of
\* an unfinished one is of the configuration it was planned with.
AnswersBelong == WholeReview /\ SavedMatchesPlanned

\* RETRY_FAILED_NODE cures MODEL_CONFIGURATION_CHANGED, as the error's
\* recovery_action promises: afterwards no unfinished agent holds an answer or
\* a checkpoint of another configuration.
RetryCures ==
    [][RetryAll => \A a \in Agents : ~Whole(a)' =>
           \A b \in Batches : rows'[a][b].saved \in {0, conf}]_vars

\* A stored answer is only taken away by an operator: no retry, take-over or
\* new plan of a worker loses what a model has answered.
ResultsKept ==
    [][\A a \in Agents : \A b \in Succeeded(a) :
           rows'[a][b] # rows[a][b] => ops' > ops]_vars

\* The answer that is stored for a batch is the answer to its latest claim:
\* an earlier request that comes back late is dropped, although the attempt
\* number that complete_model_batch compares starts again after a retry.
AnswerOfLatestClaim ==
    [][\A a \in Agents, b \in Batches :
           rows[a][b].status # "succeeded" /\ rows'[a][b].status = "succeeded"
           => \E p \in InFlight(a, b) :
                 /\ thread[p][a].claim = claims[a][b]
                 /\ thread'[p][a].pc # "request"]_vars

\* A stored answer is the answer to the latest claim, and stays.
AnswersKept == ResultsKept /\ AnswerOfLatestClaim

\* A batch is requested by one process at a time, pauses and take-overs
\* included, unless its lease ran out under a request or a retry deleted it.
OneRequest ==
    ~overrun => \A a \in Agents, b \in Batches :
                    \A p, q \in InFlight(a, b) : p = q

\* The model stage is under way, and it is over: answered in full or in part,
\* given up, or waiting for an operator.  Crashes, lost leases, failed requests
\* and batches found busy must not keep a review in it forever.
Unsettled == task.status \in {"ready", "running"}
Settled == task.status \in {"done", "partial", "failed", "paused"}
=============================================================================
