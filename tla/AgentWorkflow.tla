---------------------------- MODULE AgentWorkflow ----------------------------
(***************************************************************************)
(* What becomes of the answers of one review: three agents run in a pool   *)
(* over their own parts of the plan, their findings are merged, a summary  *)
(* model may be asked, and one transaction stores the result, as partial   *)
(* or as complete (services/agent_workflow.py, agent_pipeline.py,          *)
(* queue/results.py).  A failed node is run again over what is stored.     *)
(*                                                                         *)
(* ModelBatches models how one agent claims and saves its batches; here a  *)
(* batch is one unit of the plan.  A candidate is a record of the fields   *)
(* the code compares.  A lost lease ends the worker's turn; the next turn  *)
(* belongs to whoever claims the task.                                     *)
(***************************************************************************)
EXTENDS Integers, Sequences, FiniteSets

CONSTANTS
    AgentOrder,       \* the three agents, in the order results are merged
    Domains,          \* unit of the plan -> the agents it concerns
    ReviewerSets,     \* the agents with a configured model, as settings allow
    HasSummary,       \* whether the summary agent has one
    Candidates,       \* what the agents may report of a plan's unit
    SummaryCandidates,\* what the summary model may report
    Patch,            \* unit -> its hunks: counts, start lines, marks
    Source,           \* unit -> <<words of each line at the head>>
    MaxConcurrency, MaxModelFindings, MaxBlobs,
    MaxAnswer,        \* candidates in one answer (bound)
    MaxRounds,        \* turns of the task (bound)
    None

VARIABLES
    task,      \* status, workflow_status, turns taken, configured agents
    lease,     \* whether the worker still owns the task
    batches,   \* agent -> unit -> the saved answer, or None
    agent,     \* agent -> where its thread is
    execution, \* agent -> its AgentExecution
    halted,    \* the lease_lost event of the workflow
    outcome,   \* what the workflow returned, while the worker settles it
    summary,   \* the summary execution of this turn
    latest,    \* the latest summary event of the run
    call,      \* the model call: None, or what it was made of
    completed, \* model_review_completed_at is set
    rows       \* the stored findings

workflowVars == <<task, lease, batches, agent, execution, halted, outcome,
                  summary, latest, call, completed, rows>>

Agents == {AgentOrder[n] : n \in DOMAIN AgentOrder}
ReviewUnits == DOMAIN Domains
Mine(a) == {u \in ReviewUnits : a \in Domains[u]}

-----------------------------------------------------------------------------
(* Merging.                                                                *)

\* _candidate_identity.
Identity(c) == <<c.unit, c.category, c.file, c.title>>

Before(c, d) == \/ c.severity > d.severity
                \/ c.severity = d.severity /\ c.confidence > d.confidence

AllOf(lists) == UNION {lists[n] : n \in DOMAIN lists}

\* by_identity: the most confident of the candidates with identity i; the
\* earliest list that has one keeps its own.
Surest(lists, i) ==
    LET same == {c \in AllOf(lists) : Identity(c) = i}
        top == {c \in same : \A d \in same : d.confidence <= c.confidence}
    IN  CHOOSE c \in top : \E n \in DOMAIN lists :
            /\ c \in lists[n]
            /\ \A m \in 1..(n - 1) : top \cap lists[m] = {}

Distinct(lists) == {Surest(lists, Identity(c)) : c \in AllOf(lists)}

\* The MAX_MODEL_FINDINGS first, by severity and confidence.
Capped(s) ==
    IF Cardinality(s) <= MaxModelFindings THEN s
    ELSE CHOOSE k \in SUBSET s :
             /\ Cardinality(k) = MaxModelFindings
             /\ \A c \in k, d \in s \ k : ~Before(d, c)

MergeCandidates(lists) == Capped(Distinct(lists))

Reported(a) == IF execution[a].result = None THEN {} ELSE execution[a].result

\* _merge_findings: the executions in the agents' order.
MergeFindings ==
    MergeCandidates([n \in DOMAIN AgentOrder |-> Reported(AgentOrder[n])])

\* More candidates were reported than are left after merging.
Duplicates ==
    Cardinality(UNION {{a} \X Reported(a) : a \in Agents})
        > Cardinality(MergeFindings)

\* _filter_summary_candidates: only what the plan can vouch for.
FilterSummary(s) == {c \in s : c.unit \in ReviewUnits /\ c.file = c.unit}

-----------------------------------------------------------------------------
(* Findings as they are stored.                                            *)

\* finding_identity_fingerprint: a hint is an identity of its own.
Fingerprint(c) == IF c.hint # None THEN <<c.category, c.hint>>
                  ELSE <<c.category, c.evidence, c.file>>

\* _index_diff_locations: the lines of one side, none if a hunk's marks are
\* not as many as its header says.
Marks(h, side) ==
    {i \in DOMAIN h.marks :
        h.marks[i] = "same" \/ h.marks[i] = (IF side = "left" THEN "cut"
                                            ELSE "new")}
HunkLines(h, side) ==
    {h.start[side] + Cardinality({j \in Marks(h, side) : j < i}) :
        i \in Marks(h, side)}
DiffLines(u, side) ==
    IF \A h \in Patch[u], s \in {"left", "right"} :
           Cardinality(Marks(h, s)) = h.count[s]
    THEN UNION {HunkLines(h, side) : h \in Patch[u]} ELSE {}

Located(c) == c.side # None
Verification(c) == IF ~Located(c) THEN 1
                   ELSE IF c.line \in DiffLines(c.unit, c.side) THEN 2 ELSE 0

\* materialize_findings: one finding per fingerprint, the better located and
\* then the more confident one.
Materialized(s) ==
    {CHOOSE c \in s :
        /\ Fingerprint(c) = f
        /\ \A d \in s : Fingerprint(d) = f =>
               \/ Verification(d) < Verification(c)
               \/ /\ Verification(d) = Verification(c)
                  /\ d.confidence <= c.confidence
     : f \in {Fingerprint(c) : c \in s}}

\* verify_source_evidence, the words of the lines at the head against the
\* words of the evidence.
SourceSupports(c) ==
    /\ c.side = "right"
    /\ c.line \in DOMAIN Source[c.unit]
    /\ LET there == Source[c.unit][c.line] \intersect c.evidence
       IN  \/ c.evidence # {} /\ there = c.evidence
           \/ /\ Cardinality(there) >= 2
              /\ Cardinality(there) * 2 >= Cardinality(c.evidence)

\* The blobs asked for: of the findings on the head's side, the first ones.
AskedBlobs(s) ==
    LET keys == {c.unit : c \in {d \in s : d.side = "right"}}
    IN  {u \in keys : Cardinality({k \in keys : k < u}) < MaxBlobs}

\* _load_blobs: what comes back as text with the plan's blob id; nothing if
\* the request fails.
ReadBlobs(s) == SUBSET AskedBlobs(s)

Supported(s, read) == {c \in s : c.unit \in read /\ SourceSupports(c)}

Row(c, supported) ==
    [fingerprint |-> Fingerprint(c), unit |-> c.unit,
     confidence |-> c.confidence, verification |-> Verification(c),
     supported |-> c \in supported]

\* Findings whose fingerprint the run has already are left as they are.
NewRows(s, supported) ==
    {Row(c, supported) : c \in
        {d \in s : \A r \in rows : r.fingerprint # Fingerprint(d)}}

-----------------------------------------------------------------------------
NoExecution == [status |-> None, result |-> None, refused |-> FALSE]
Execution(status, result) ==
    [NoExecution EXCEPT !.status = status, !.result = result]

NoSaved == [u \in ReviewUnits |-> None]
Queued == [a \in Agents |-> "queued"]
Blank == [a \in Agents |-> NoExecution]

WorkflowInit ==
    /\ task = [status |-> "ready", stage |-> "agents", rounds |-> 0,
               reviewers |-> {}]
    /\ lease = FALSE
    /\ batches = [a \in Agents |-> NoSaved]
    /\ agent = Queued /\ execution = Blank
    /\ halted = FALSE
    /\ outcome = None /\ summary = NoExecution /\ latest = None
    /\ call = None /\ completed = FALSE /\ rows = {}

\* claim_ready and load_model_review_input: a fresh turn over the stored plan.
Claim ==
    /\ task.status = "ready" /\ ~completed
    /\ task.rounds < MaxRounds
    /\ \E reviewers \in ReviewerSets :
           task' = [task EXCEPT !.status = "running", !.rounds = @ + 1,
                                !.reviewers = reviewers]
    /\ lease' = TRUE
    /\ agent' = Queued /\ execution' = Blank
    /\ halted' = FALSE
    /\ outcome' = None /\ summary' = NoExecution
    /\ UNCHANGED <<batches, latest, call, completed, rows>>

\* The lease runs out or is taken over; recovery puts the task back.
LoseLease ==
    /\ task.status = "running" /\ lease
    /\ lease' = FALSE
    /\ UNCHANGED <<task, batches, agent, execution, halted, outcome, summary,
                   latest, call, completed, rows>>

-----------------------------------------------------------------------------
(* The pool.                                                               *)

Working == {a \in Agents : agent[a] = "started"}
InPool == task.status = "running" /\ outcome = None

\* The pool takes the agents in order.
Turn(a) == \E i \in DOMAIN AgentOrder :
                /\ AgentOrder[i] = a
                /\ \A j \in 1..(i - 1) : agent[AgentOrder[j]] # "queued"

\* execute: the start is recorded under the lease.
StartAgent(a) ==
    /\ InPool /\ lease /\ ~halted
    /\ agent[a] = "queued" /\ Turn(a)
    /\ Cardinality(Working) < MaxConcurrency
    /\ agent' = [agent EXCEPT ![a] = "started"]
    /\ UNCHANGED <<task, lease, batches, execution, halted, outcome, summary,
                   latest, call, completed, rows>>

\* invoke, without a request.
Skipped(a) ==
    \/ /\ Mine(a) = {}
       /\ execution' = [execution EXCEPT ![a] = Execution("not_applicable",
                                                          None)]
    \/ /\ Mine(a) # {} /\ a \notin task.reviewers
       /\ execution' = [execution EXCEPT ![a] = Execution("disabled", None)]

Done(a) == {u \in Mine(a) : batches[a][u] # None}
Findings(a) == UNION {batches[a][u] : u \in Done(a)}

\* reviewer.review and on_agent_completed: all units have an answer.
Succeeded(a) ==
    /\ Mine(a) # {} /\ a \in task.reviewers /\ Done(a) = Mine(a)
    /\ execution' = [execution EXCEPT ![a] = Execution("completed",
                                                       Findings(a))]

\* A batch failed: what earlier batches returned is kept with the failure.
Failed(a) ==
    /\ a \in task.reviewers /\ Done(a) # Mine(a)
    /\ \E refused \in BOOLEAN :
           execution' = [execution EXCEPT ![a] =
               [status |-> "failed", refused |-> refused,
                result |-> IF Done(a) = {} THEN None ELSE Findings(a)]]

CompleteAgent(a) ==
    /\ InPool /\ lease /\ a \in Working
    /\ \/ Skipped(a)
       \/ Succeeded(a)
       \/ Failed(a)
    /\ agent' = [agent EXCEPT ![a] = "done"]
    /\ UNCHANGED <<task, lease, batches, halted, outcome, summary, latest,
                   call, completed, rows>>

\* One batch is answered and saved; the model only names units it was given.
AnswerBatch(a, u) ==
    /\ InPool /\ lease /\ a \in Working /\ a \in task.reviewers
    /\ u \in Mine(a) /\ batches[a][u] = None
    /\ \A v \in Mine(a) : v < u => batches[a][v] # None
    /\ \E s \in SUBSET {c \in Candidates : c.unit = u} :
           /\ Cardinality(s) <= MaxAnswer
           /\ batches' = [batches EXCEPT ![a][u] = s]
    /\ UNCHANGED <<task, lease, agent, execution, halted, outcome, summary,
                   latest, call, completed, rows>>

\* An agent meets the lost lease: the event is set, the queued ones are
\* cancelled, and the workflow raises once the pool is empty.
NoticeLoss(a) ==
    /\ InPool /\ ~lease /\ agent[a] \in {"queued", "started"}
    /\ agent[a] = "queued" => halted \/ Turn(a)
    /\ agent' = [b \in Agents |->
                    IF b = a \/ agent[b] = "queued" THEN "stopped"
                    ELSE agent[b]]
    /\ halted' = TRUE
    /\ UNCHANGED <<task, lease, batches, execution, outcome, summary, latest,
                   call, completed, rows>>

-----------------------------------------------------------------------------
(* Aggregation.                                                            *)

AllDone == \A a \in Agents : agent[a] = "done"
Failure == \E a \in Agents : execution[a].status = "failed"
Disabled == \E a \in Agents : execution[a].status = "disabled"

\* Defect: an agent without a model is taken for one with nothing to do.
ShortByFailure == Failure

Short == Failure \/ Disabled
Usable == \E a \in Agents : execution[a].result # None
Partial == Short /\ Usable

\* The result as far as the three agents decide it.
Merged == [findings |-> MergeFindings, partial |-> Partial, short |-> Short,
           settled |-> FALSE]

\* on_aggregating: the stage is shown before any summary request.
Aggregate ==
    /\ InPool /\ AllDone /\ lease
    /\ outcome' = Merged
    /\ task' = IF Short /\ ~Partial THEN task
               ELSE [task EXCEPT !.stage = "aggregating"]
    /\ UNCHANGED <<lease, batches, agent, execution, halted, summary, latest,
                   call, completed, rows>>

\* force_summary: the latest summary of the run failed.
WantsSummary ==
    /\ HasSummary /\ ~Short
    /\ latest = "failed" \/ Duplicates

Settling == task.status = "running" /\ outcome # None
SummaryDue == Settling /\ ~outcome.settled /\ WantsSummary
                /\ summary.status = None

\* Defect: the summary's findings replace what the agents reported.
SummaryAnswersAlone ==
    /\ SummaryDue
    /\ \E s \in SUBSET (Candidates \union SummaryCandidates) :
           /\ Cardinality(s) <= MaxAnswer
           /\ outcome' = [outcome EXCEPT !.findings = Capped(FilterSummary(s))]
           /\ summary' = Execution("completed", FilterSummary(s))
    /\ UNCHANGED <<task, lease, batches, agent, execution, halted, latest,
                   call, completed, rows>>

SummaryAnswers ==
    /\ SummaryDue
    /\ \E s \in SUBSET (Candidates \union SummaryCandidates) :
           /\ Cardinality(s) <= MaxAnswer
           /\ outcome' = [outcome EXCEPT !.findings =
                             MergeCandidates(<<@, FilterSummary(s)>>)]
           /\ summary' = Execution("completed", FilterSummary(s))
    /\ UNCHANGED <<task, lease, batches, agent, execution, halted, latest,
                   call, completed, rows>>

\* A failed summary leaves the merged findings.
SummaryFails ==
    /\ SummaryDue
    /\ \E refused \in BOOLEAN :
           summary' = [status |-> "failed", result |-> None,
                       refused |-> refused]
    /\ UNCHANGED <<task, lease, batches, agent, execution, halted, outcome,
                   latest, call, completed, rows>>

-----------------------------------------------------------------------------
(* Settling the turn.                                                      *)

\* The request limit, the budget, a refused provider or the egress policy.
Refused == summary.refused \/ \E a \in Agents : execution[a].refused

\* _raise_if_lease_lost, then the summary's events.
RecordSummary ==
    /\ Settling /\ lease /\ ~Refused /\ ~outcome.settled
    /\ WantsSummary => summary.status # None
    /\ outcome' = [outcome EXCEPT !.settled = TRUE]
    /\ latest' = IF summary.status = None THEN "skipped" ELSE summary.status
    /\ UNCHANGED <<task, lease, batches, agent, execution, halted, summary,
                   call, completed, rows>>

\* The error of a refusal, or of an agent when nothing is usable, is raised.
RaiseError ==
    /\ Settling /\ lease
    /\ \/ Refused /\ (WantsSummary => summary.status # None)
       \/ outcome.settled /\ outcome.short /\ ~outcome.partial
    /\ \E status \in {"ready", "failed"} :
           task' = [task EXCEPT !.status = status]
    /\ lease' = FALSE
    /\ UNCHANGED <<batches, agent, execution, halted, outcome, summary,
                   latest, call, completed, rows>>

\* _workflow_result: the results the record stands for.
ResultOf ==
    [results |-> [a \in Agents |-> execution[a].result],
     summary |-> summary.result]

\* A workflow that is neither partial nor complete has nothing to store.
Storable == Settling /\ outcome.settled
                /\ (outcome.partial \/ ~outcome.short)

\* store_model_review under the lease, after the evidence was read back.  The
\* same partial result again only closes the turn.
StoreReview ==
    /\ Storable /\ lease
    /\ LET findings == Materialized(outcome.findings)
           same == outcome.partial /\ call = ResultOf
       IN  \E read \in ReadBlobs(findings) :
               rows' = IF same THEN rows
                       ELSE rows \union NewRows(findings,
                                                Supported(findings, read))
    /\ call' = ResultOf
    /\ completed' = ~outcome.partial
    /\ task' = IF outcome.partial
               THEN [task EXCEPT !.status = "failed", !.stage = "agents"]
               ELSE [task EXCEPT !.status = "completed",
                                 !.stage = "awaiting_approval"]
    /\ lease' = FALSE
    /\ UNCHANGED <<batches, agent, execution, halted, outcome, summary,
                   latest>>

\* The worker that lost the task stops; recovery makes it claimable again.
Abandon ==
    /\ task.status = "running" /\ ~lease
    /\ outcome = None => Working = {}
    /\ task' = [task EXCEPT !.status = "ready"]
    /\ UNCHANGED <<lease, batches, agent, execution, halted, outcome, summary,
                   latest, call, completed, rows>>

-----------------------------------------------------------------------------
(* Running a failed node again.                                            *)

Cleared(agents) == [a \in Agents |-> IF a \in agents THEN NoSaved
                                     ELSE batches[a]]

\* _prepare_failed_node_retry.  The agents whose configuration changed start
\* anew, and what was stored of the review is dropped with them.
RetryNode(changed) ==
    /\ \A a \in changed : execution[a].status = "failed"
    /\ task.status \in {"failed", "completed"}
    /\ Failure \/ latest = "failed" \/ Refused
    /\ batches' = Cleared(changed)
    /\ call' = IF changed = {} THEN call ELSE None
    /\ rows' = IF changed = {} THEN rows ELSE {}
    /\ completed' = FALSE
    /\ task' = [task EXCEPT !.status = "ready", !.stage = "agents"]
    /\ UNCHANGED <<lease, agent, execution, halted, outcome, summary, latest>>

\* _prepare_stage_retry: the agents again, or the aggregation alone.
RetryStage(stage) ==
    /\ task.status \in {"failed", "completed"}
    /\ batches' = IF stage = "agents" THEN Cleared(Agents) ELSE batches
    /\ call' = None /\ rows' = {} /\ completed' = FALSE
    /\ task' = [task EXCEPT !.status = "ready", !.stage = stage]
    /\ UNCHANGED <<lease, agent, execution, halted, outcome, summary, latest>>

WorkflowNext ==
    \/ Claim \/ LoseLease \/ Abandon
    \/ \E a \in Agents : \/ StartAgent(a) \/ CompleteAgent(a) \/ NoticeLoss(a)
                         \/ \E u \in ReviewUnits : AnswerBatch(a, u)
    \/ Aggregate \/ SummaryAnswers \/ SummaryFails
    \/ RecordSummary \/ RaiseError \/ StoreReview
    \/ \E changed \in SUBSET Agents : RetryNode(changed)
    \/ \E stage \in {"agents", "aggregating"} : RetryStage(stage)

WorkflowSpec == WorkflowInit /\ [][WorkflowNext]_workflowVars

-----------------------------------------------------------------------------
(* Properties.                                                             *)

\* A review is complete, and goes to approval, only if every agent the plan
\* concerns has answered for every unit of its own: no failure, missing
\* model, refusal or retry in between lets a partial result through.
CompleteCovered ==
    completed => \A a \in Agents : \A u \in Mine(a) : batches[a][u] # None

Represents(r, c) == r.fingerprint = Fingerprint(c)

\* Merging, a summary model, the cap and rows stored by an earlier partial
\* turn lose no problem an agent reported: a complete review has a stored
\* finding for every candidate of its merged list, and of every problem an
\* agent reported the list names one that is as sure, unless it is full.  (The
\* cap comes before the fingerprints, so a full list may end as fewer findings.)
ReportsStored ==
    completed =>
        /\ \A d \in outcome.findings : \E r \in rows : Represents(r, d)
        /\ \A a \in Agents : \A c \in Findings(a) :
              \/ \E d \in outcome.findings :
                     Identity(d) = Identity(c) /\ d.confidence >= c.confidence
              \/ Cardinality(outcome.findings) >= MaxModelFindings
=============================================================================
