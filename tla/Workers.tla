------------------------------- MODULE Workers -------------------------------
(* What worker processes do beside the queue: the model batches of a review   *)
(* (ModelBatches), its agents and their report, the code index of a commit,   *)
(* and the heartbeat row of a worker id.  They meet only in what each module  *)
(* abstracts of the others, and step by turns.                                *)
EXTENDS ModelBatches, Sequences

CONSTANTS Starts, Roles, Claimed, MaxTurns, MaxWrites,
          Configs, Chunks, Readers, Builders, Reviewers, LeaseTime, LaneTime, BlockTime, RetryTime,
          PrepTime, RequestLimit, MaxFailures, Operations, MaxChanges, MaxErrors,
          AgentOrder, Domains, ReviewerSets, HasSummary, Candidates, SummaryCandidates, Patch, Source,
          MaxConcurrency, MaxModelFindings, MaxBlobs, MaxAnswer, MaxRounds,
          None

ASSUME WorkersAssumption ==
    /\ None \notin Configs /\ None \notin Builders
    /\ None \notin [status : {"queued", "building", "ready", "failed"}, owner : Builders \cup {None},
                    left : Nat, lexical : BOOLEAN,
                    vstatus : {"pending", "ready", "paused", "limited", "failed"},
                    count : Nat, include : BOOLEAN, op : Nat, failures : Nat, prep : Nat]
    /\ Chunks \in Nat
    /\ Readers \in Nat \ {0}
    /\ LeaseTime \in Nat \ {0} /\ LaneTime \in Nat \ {0}
    /\ BlockTime \in Nat /\ RetryTime \in Nat /\ PrepTime \in Nat
    /\ RequestLimit \in Nat
    /\ MaxFailures \in Nat \ {0}
    /\ Operations \in Nat \ {0}
    /\ \A answer \in SUBSET Candidates : answer # None

\* A candidate has texts of limited length, so there are finitely many.
ASSUME ReportAssumption ==
    /\ AgentOrder \in Seq({"security", "convention", "logic"})
    /\ IsFiniteSet(Candidates) /\ IsFiniteSet(SummaryCandidates)
    /\ \A c \in Candidates \cup SummaryCandidates : c.confidence \in Int /\ c.severity \in Int
    /\ MaxModelFindings \in Nat

VARIABLES heartbeat, worker, beats, writes, said, late,
          settings, indexes, links, vectors, lane, used, builder, traces, reviewer, changes, errors, twice,
          turn, lease, batches, agent, execution, halted, outcome, summary, latest, call, completed, stored

Heart == INSTANCE WorkerHeartbeat
    WITH row <- heartbeat, faults <- writes, Processes <- Starts, Tasks <- Claimed, MaxFaults <- MaxWrites

Index == INSTANCE CodeIndexing
    WITH rows <- indexes, faults <- errors, Agents <- Readers, MaxFaults <- MaxErrors

Workflow == INSTANCE AgentWorkflow WITH task <- turn, rows <- stored

heartVars == <<heartbeat, worker, beats, writes, said, late>>
indexVars == <<settings, indexes, links, vectors, lane, used, builder, traces, reviewer, changes, errors,
               twice>>
reportVars == <<turn, lease, batches, agent, execution, halted, outcome, summary, latest, call,
                completed, stored>>
workersVars == <<vars, heartVars, indexVars, reportVars>>

WorkersInit == Init /\ Heart!HeartbeatInit /\ Index!Init /\ Workflow!WorkflowInit

BatchStep == Next /\ UNCHANGED <<heartVars, indexVars, reportVars>>
HeartbeatStep == Heart!HeartbeatNext /\ UNCHANGED <<vars, indexVars, reportVars>>
IndexStep == Index!Next /\ UNCHANGED <<vars, heartVars, reportVars>>
ReportStep == Workflow!WorkflowNext /\ UNCHANGED <<vars, heartVars, indexVars>>

WorkersNext == BatchStep \/ HeartbeatStep \/ IndexStep \/ ReportStep

WorkersSpec == WorkersInit /\ [][WorkersNext]_workersVars

---------------------------------------------------------------------------
\* A worker's row shows its owner's last word, and a process that was replaced
\* begins no work (WorkerHeartbeat).
TakeoverSound == Heart!TakeoverSound

\* The row of an index tells the truth and no vector is asked for twice (CodeIndexing).
IndexSound == Index!IndexSound

\* The contexts of a review come from one index (CodeIndexing).
OneIndexPerReview == Index!OneIndexPerReview

\* A complete report covers every agent that was asked (AgentWorkflow).
CompleteCovered == Workflow!CompleteCovered

\* No agent's finding is lost on the way to the report (AgentWorkflow).
ReportsStored == Workflow!ReportsStored
=============================================================================
