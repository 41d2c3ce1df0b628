----------------------------- MODULE MCProgress -----------------------------
(* What must come to an end, for TLC: the reviews of the queue, the parallel  *)
(* agents of a review, its wait for the code index, and a worker whose        *)
(* heartbeat another process took over.  They meet only in what each module   *)
(* abstracts of the others, so a behaviour moves one of them, its subject,    *)
(* and the fairness of the code is asked of the subject alone.                *)
EXTENDS MCReviewQueue

CONSTANTS review, builder1, reader1, config1, config2, None

VARIABLES subject,
          task, conf, rows, planned, job, thread, holder, token, claims, overrun,
          settings, indexes, links, vectors, lane, used, builder, traces, reviewer, changes, twice,
          heartbeat, worker, beats, said, late

Batch == INSTANCE ModelBatches
    WITH Task <- review, NoProc <- NoWorker, NAgents <- 2, MaxBatches <- 1,
         Confs <- {1}, Splits <- [c \in {1} |-> {1}], MaxRequests <- 2, MaxModels <- 2,
         MaxFaults <- 2

Index == INSTANCE CodeIndexing
    WITH rows <- indexes, Configs <- {config1, config2}, Builders <- {builder1}, Reviewers <- {reader1}, Chunks <- 1,
         Agents <- 2, LeaseTime <- 1, LaneTime <- 2, BlockTime <- 1, RetryTime <- 1, PrepTime <- 1,
         RequestLimit <- 1, MaxFailures <- 2, Operations <- 2, MaxChanges <- 1, MaxFaults <- 0

Heart == INSTANCE WorkerHeartbeat
    WITH row <- heartbeat, Processes <- {"p1", "p2"}, Roles <- {"review", "index", "mixed"},
         Tasks <- {"t1"}, MaxTurns <- 2

queueVars == <<row, held, ghHead, saved, hist>>
batchVars == <<task, conf, rows, planned, job, thread, holder, token, claims, overrun>>
indexVars == <<settings, indexes, links, vectors, lane, used, builder, traces, reviewer, changes, twice>>
heartVars == <<heartbeat, worker, beats, said, late>>
allVars == <<subject, queueVars, batchVars, indexVars, heartVars, faults, ops>>

\* The second process of a worker id starts after the first one, and has no task.
Successor == /\ worker["p1"].pc = "new" => worker'["p2"].pc = "new"
             /\ beats'["p2"] = <<>>

MCInit ==
    /\ subject \in {"queue", "batches", "index", "heartbeat"}
    /\ Init /\ Batch!Init /\ Index!Init /\ Heart!HeartbeatInit
    /\ worker["p2"].role = "review"
    /\ IF subject = "heartbeat" THEN worker["p1"].role # "review" ELSE worker["p1"].role = "review"
    /\ subject # "index" => /\ settings = [config |-> config1, mode |-> "off"]
                            /\ indexes = [c \in {config1, config2} |-> None]

MCNext ==
    /\ UNCHANGED subject
    /\ \/ subject = "queue" /\ Next /\ UNCHANGED <<batchVars, indexVars, heartVars>>
       \/ subject = "batches" /\ Batch!Next /\ UNCHANGED <<queueVars, indexVars, heartVars>>
       \/ subject = "index" /\ Index!Next /\ UNCHANGED <<queueVars, batchVars, heartVars, ops>>
       \/ /\ subject = "heartbeat" /\ Heart!HeartbeatNext /\ Successor
          /\ UNCHANGED <<queueVars, batchVars, indexVars, ops>>

QueueFairness ==
    /\ \A p \in Procs : /\ WF_vars(subject = "queue" /\ Poll(p))
                        /\ WF_vars(subject = "queue" /\ Work(p))
    /\ \A n \in Runs : /\ WF_vars(subject = "queue" /\ ExpireAbandoned(n))
                       /\ WF_vars(subject = "queue" /\ BecomeDue(n))
                       /\ WF_vars(subject = "queue" /\ DeadlinePasses(n))
                       /\ WF_vars(subject = "queue" /\ Recover(n))

BatchFairness ==
    /\ \A p \in Procs : /\ WF_Batch!vars(subject = "batches" /\ Batch!ClaimTask(p))
                        /\ WF_Batch!vars(subject = "batches" /\ Batch!Finish(p))
    /\ \A p \in Procs, g \in {1, 2} : WF_Batch!vars(subject = "batches" /\ Batch!Thread(p, g))
    /\ WF_Batch!vars(subject = "batches" /\ Batch!Recover)
    /\ WF_Batch!vars(subject = "batches" /\ Batch!BecomeDue)
    /\ \A g \in {1, 2} : /\ WF_Batch!vars(subject = "batches" /\ Batch!BatchDue(g, 1))
                         /\ WF_Batch!vars(subject = "batches" /\ Batch!ExpireBatch(g, 1))

IndexFairness ==
    /\ WF_Index!vars(subject = "index" /\ Index!Tick)
    /\ WF_Index!vars(subject = "index" /\ Index!Review(reader1))
    /\ WF_Index!vars(subject = "index" /\ Index!Ask(builder1))
    /\ WF_Index!vars(subject = "index" /\ (Index!Answer(builder1) \/ Index!AskFails(builder1)))

HeartFairness ==
    \A p \in {"p1", "p2"} :
        /\ WF_Heart!heartbeatVars(subject = "heartbeat" /\ Heart!Main(p))
        /\ \A i \in 1..2 : WF_Heart!heartbeatVars(/\ subject = "heartbeat"
                                                  /\ i \in DOMAIN beats[p] /\ Heart!Beat(p, i))

MCSpec == /\ MCInit /\ [][MCNext]_allVars
          /\ QueueFairness /\ BatchFairness /\ IndexFairness /\ HeartFairness

\* Nothing waits forever: the reviews of the queue and the model stage of a
\* review settle whatever processes, GitHub and agents meet, a review is given
\* its context or refused one whatever the builders of the index do, and a
\* process that was replaced stops by itself.
Waits == CASE subject = "queue" -> \E n \in Runs : Unsettled(n)
           [] subject = "batches" -> Batch!Unsettled
           [] subject = "index" -> Index!Waiting(reader1)
           [] OTHER -> \E p \in {"p1", "p2"} : Heart!Superseded(p)
Ends == CASE subject = "queue" -> \A n \in Runs : ~Unsettled(n)
          [] subject = "batches" -> Batch!Settled
          [] subject = "index" -> Index!Decided(reader1)
          [] OTHER -> \A p \in {"p1", "p2"} : ~Heart!Superseded(p)
=============================================================================
