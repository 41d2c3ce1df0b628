---------------------------- MODULE WorkersProofs ----------------------------
(***************************************************************************)
(* Proofs about what worker processes do beside the queue, for any number  *)
(* of processes, tasks, configurations, batches, chunks and agents: that   *)
(* a batch is requested once and its answer stays, that a worker's row     *)
(* shows its owner's last word, that an index is what its row says and no  *)
(* vector is asked for twice, that a review takes its contexts from one    *)
(* index, that a complete report covers every agent, and that no finding   *)
(* an agent reported is lost from it.                                      *)
(***************************************************************************)
EXTENDS Workers, Sequences, FiniteSetTheorems, FunctionTheorems, TLAPS

-----------------------------------------------------------------------------
(* The batches of a review, for every number of agents, batches, processes, *)
(* configurations and operator actions.  The lease of the task is what      *)
(* everything rests on: a batch is written only by a thread of the process  *)
(* that owns the task, and what such a thread read stays true while its     *)
(* process owns it.                                                         *)

\* The task's lease; only a running task has an owner.
LeaseInv ==
    /\ holder \in [{Task} -> Procs \union {NoProc}]
    /\ token \in [{Task} -> Nat]
    /\ holder[Task] # NoProc => task.status = "running"
    /\ task.status = "running" => task.models > 0

\* A thread runs under a configuration and a split of its job.
JobInv ==
    \A p \in Procs, a \in Agents :
        thread[p][a].pc # "idle" =>
            job[p].conf \in Confs /\ job[p].total \in Batches

\* What is saved in a batch fits the configuration it was planned with.
SavedRow(r, c) ==
    /\ r.status = "absent" => r.saved = 0
    /\ r.status = "succeeded" => r.saved # 0
    /\ r.saved \in {0, c}

SavedInv == \A a \in Agents, b \in Batches : SavedRow(rows[a][b], planned[a])

\* What a thread found stays true while its process owns the task.
ThreadInv ==
    \A p \in Procs, a \in Agents :
        Owns(p) =>
            /\ thread[p][a].pc \in {"ensure", "scan", "request"}
                  => planned[a] = job[p].conf
            /\ thread[p][a].pc \in {"scan", "request"} => Known(a) # {}
            /\ thread[p][a].pc = "request"
                  => thread[p][a].claim = claims[a][thread[p][a].batch]
            /\ thread[p][a].pc = "done" => Whole(a)

DoneInv == task.status = "done" => \A a \in Agents : Whole(a)

\* A thread waits for the answer to one of its agent's batches.
RequestInv ==
    \A p \in Procs, a \in Agents :
        thread[p][a].pc = "request" => thread[p][a].batch \in Batches

\* A request in flight holds the lease of its batch, alone.
FlightInv ==
    ~overrun =>
        \A p \in Procs, a \in Agents : thread[p][a].pc = "request" =>
            /\ thread[p][a].batch \in LiveRunning(a)
            /\ \A q \in InFlight(a, thread[p][a].batch) : q = p

BatchInv ==
    /\ TypeOK /\ LeaseInv /\ JobInv /\ SavedInv /\ ThreadInv /\ DoneInv
    /\ RequestInv /\ FlightInv

-----------------------------------------------------------------------------
(* The operators of the model.                                             *)

\* First is the least element: the sets of smaller elements are ordered by
\* inclusion, and a smallest of them exists.
LEMMA FirstIsLeast ==
    ASSUME NEW N \in Nat, NEW S \in SUBSET (1..N), S # {}
    PROVE  First(S) \in S /\ \A y \in S : First(S) <= y
  <1> DEFINE Below(x) == {y \in S : y < x}
             T == {Below(x) : x \in S}
             U == 1..N
  <1>i. S \subseteq Int
    OBVIOUS
  <1>1. IsFiniteSet(U) /\ S \subseteq U
    BY FS_Interval
  <1>2. T \subseteq FiniteSubsetsOf(U)
    BY <1>1, FS_Subset DEF FiniteSubsetsOf
  <1>3. PICK D \in T : \A E \in T : ~(<<E, D>> \in StrictSubsetOrdering(U))
    <2>1. T # {}
      OBVIOUS
    <2> HIDE DEF T, U
    <2> QED BY <1>2, <2>1, FS_StrictSubsetOrderingWellFounded, WFMin
  <1>4. PICK x \in S : D = Below(x)
    BY <1>3
  <1>5. ASSUME NEW y \in S, y < x
        PROVE  FALSE
    <2>0. ~(y < y) /\ \A z \in S : z < y => z < x
      BY <1>i, <1>5
    <2>1. Below(y) \subseteq Below(x) /\ y \in Below(x) /\ y \notin Below(y)
      BY <1>5, <2>0
    <2>2. Below(y) \in T
      OBVIOUS
    <2>3. Below(y) \subseteq U /\ Below(x) \subseteq U
      BY <1>1
    <2> HIDE DEF Below, T, U
    <2> QED BY <1>3, <1>4, <2>1, <2>2, <2>3 DEF StrictSubsetOrdering
  <1>6. \A y \in S : x <= y
    BY <1>i, <1>5
  <1> QED BY <1>6 DEF First

LEMMA Types ==
    ASSUME TypeOK
    PROVE  /\ \A a \in Agents : \A b \in Batches : rows[a][b] \in RowType
           /\ \A p \in Procs : \A a \in Agents : thread[p][a] \in ThreadType
           /\ Batches \subseteq 0..MaxBatches /\ 0 \in 0..MaxBatches
           /\ Confs \subseteq Nat /\ 0 \notin Confs
           /\ Agents \subseteq 0..NAgents /\ 0 \in 0..NAgents
           /\ MaxRequests \in Nat /\ MaxModels \in Nat
  BY BatchAssumption DEF TypeOK, Batches, Agents

\* The next batch of an agent is one of its batches without an answer.
LEMMA NextBatch ==
    ASSUME NEW a, Unfinished(a) # {}
    PROVE  /\ First(Unfinished(a)) \in Unfinished(a)
           /\ First(Unfinished(a)) \in Batches
           /\ rows[a][First(Unfinished(a))].status \notin
                 {"absent", "succeeded"}
  <1>1. Unfinished(a) \in SUBSET (1..MaxBatches) /\ MaxBatches \in Nat
    BY BatchAssumption DEF Unfinished, Known, Batches
  <1>2. First(Unfinished(a)) \in Unfinished(a)
    BY <1>1, FirstIsLeast
  <1> QED BY <1>2 DEF Unfinished, Known, Succeeded, InStatus

LEMMA WholeRows ==
    ASSUME NEW a
    PROVE  Whole(a) <=> /\ \E b \in Batches : rows[a][b].status # "absent"
                        /\ \A b \in Batches :
                              rows[a][b].status \in {"absent", "succeeded"}
  BY DEF Whole, Known, Unfinished, Succeeded, InStatus

\* An agent whose batches are left alone.
LEMMA AgentSame ==
    ASSUME NEW a \in Agents, rows'[a] = rows[a]
    PROVE  /\ Known(a)' = Known(a) /\ (Whole(a)' <=> Whole(a))
           /\ LiveRunning(a)' = LiveRunning(a)
  BY DEF Known, Whole, Unfinished, Succeeded, InStatus, LiveRunning

LEMMA InitBatch == Init => BatchInv
  <1> SUFFICES ASSUME Init PROVE BatchInv
    OBVIOUS
  <1>1. TypeOK
    <2>1. NoRow \in RowType
      BY DEF NoRow, RowType, RowStates
    <2>2. Idle \in ThreadType
      BY BatchAssumption DEF Idle, ThreadType, Points, Errors
    <2>3. NoJob \in [conf : Confs \union {0}, total : 0..MaxBatches]
      BY BatchAssumption DEF NoJob
    <2>4. task \in [status : TaskStates, due : BOOLEAN, models : Nat,
                   wait : 0..NAgents]
      BY BatchAssumption DEF Init, TaskStates
    <2> QED BY <2>1, <2>2, <2>3, <2>4 DEF Init, TypeOK
  <1>2. LeaseInv
    BY DEF Init, LeaseInv, Lock!Init
  <1>3. \A p \in Procs, a \in Agents : thread[p][a].pc = "idle"
    BY DEF Init, Idle
  <1>4. SavedInv
    BY DEF Init, SavedInv, SavedRow, NoRow
  <1> QED BY <1>1, <1>2, <1>3, <1>4
          DEF Init, BatchInv, JobInv, ThreadInv, DoneInv, RequestInv,
              FlightInv

-----------------------------------------------------------------------------
(* What a step writes.                                                     *)

LEMMA Written ==
    ASSUME TypeOK, NEW a \in Agents, NEW b \in Batches, NEW r \in RowType,
           Write(a, b, r)
    PROVE  /\ rows' \in [Agents -> [Batches -> RowType]]
           /\ rows'[a][b] = r
           /\ \A c \in Agents, d \in Batches :
                 c # a \/ d # b => rows'[c][d] = rows[c][d]
           /\ \A c \in Agents : c # a => rows'[c] = rows[c]
  BY DEF TypeOK, Write

LEMMA BatchStepped ==
    ASSUME TypeOK, NEW p \in Procs, NEW a \in Agents, NEW t \in ThreadType,
           Step(p, a, t)
    PROVE  /\ thread' \in [Procs -> [Agents -> ThreadType]]
           /\ thread'[p][a] = t
           /\ \A q \in Procs, c \in Agents :
                 q # p \/ c # a => thread'[q][c] = thread[q][c]
  BY DEF TypeOK, Step

\* The thread of an agent goes to a point, or stops with an error.
LEMMA Threads ==
    ASSUME TypeOK, NEW p \in Procs, NEW a \in Agents
    PROVE  /\ \A point \in Points :
                 /\ At(p, a, point) \in ThreadType
                 /\ At(p, a, point).pc = point
                 /\ At(p, a, point).batch = thread[p][a].batch
                 /\ At(p, a, point).claim = thread[p][a].claim
           /\ \A b \in 0..MaxBatches, error \in Errors :
                 /\ Stopped(p, a, b, error) \in ThreadType
                 /\ Stopped(p, a, b, error).pc = "failed"
  <1>1. thread[p][a] \in ThreadType
    BY Types
  <1> QED BY <1>1 DEF At, Stopped, ThreadType, Points

LEMMA ErrorStops ==
    ASSUME TypeOK, NEW p \in Procs, NEW a \in Agents, NEW kind
    PROVE  Error(p, a, kind) \in ThreadType /\ Error(p, a, kind).pc = "failed"
  <1>1. thread[p][a].batch \in 0..MaxBatches
    BY Types DEF ThreadType
  <1> QED BY <1>1, Threads DEF Error, Errors

\* A transaction of an agent's thread.
LEMMA TransactionTyped ==
    ASSUME TypeOK, NEW p \in Procs, NEW a \in Agents, NEW t \in ThreadType,
           Step(p, a, t) \/ thread' = thread, OnlyRows,
           \/ rows' = rows
           \/ rows' \in [Agents -> [Batches -> RowType]],
           \/ claims' = claims
           \/ claims' \in [Agents -> [Batches -> Nat]],
           overrun' \in BOOLEAN, faults' \in Nat
    PROVE  TypeOK'
  <1>1. thread' \in [Procs -> [Agents -> ThreadType]]
    BY BatchStepped DEF TypeOK
  <1> QED BY <1>1 DEF TypeOK, OnlyRows

-----------------------------------------------------------------------------
(* The threads of the process that owns the task.                          *)

InRequest(p, a) == thread[p][a].pc = "request"
Flying(p, a, r) == InRequest(p, a) /\ r.status = "running" /\ r.live

\* Every request of agent a in flight holds the lease of its batch, alone.
Alone(a) ==
    \A p \in Procs : InRequest(p, a) =>
        /\ rows[a][thread[p][a].batch].status = "running"
        /\ rows[a][thread[p][a].batch].live
        /\ \A q \in Procs : /\ InRequest(q, a)
                            /\ thread[q][a].batch = thread[p][a].batch
                            => q = p

LEMMA FlightAlone ==
    ASSUME RequestInv
    PROVE  FlightInv <=> (~overrun => \A a \in Agents : Alone(a))
  BY DEF FlightInv, RequestInv, Alone, InRequest, InFlight, LiveRunning,
         InStatus

\* What a transaction of agent a's thread in the owner's process p does.
AgentStep(p, a) ==
    LET t == thread'[p][a] IN
    /\ Owns(p) /\ thread[p][a].pc # "idle"
    /\ UNCHANGED <<task, job, holder, token, overrun>>
    /\ \A q \in Procs, c \in Agents :
          q # p \/ c # a => thread'[q][c] = thread[q][c]
    /\ \A c \in Agents : c # a => /\ rows'[c] = rows[c]
                                  /\ planned'[c] = planned[c]
                                  /\ claims'[c] = claims[c]
    /\ \A b \in Batches : SavedRow(rows'[a][b], planned'[a])
    /\ t.pc \in {"ensure", "scan", "request"} => planned'[a] = job[p].conf
    /\ t.pc \in {"scan", "request"} => Known(a)' # {}
    /\ t.pc = "request" => t.batch \in Batches /\ t.claim = claims'[a][t.batch]
    /\ t.pc = "done" => Whole(a)'
    /\ ~overrun => Alone(a)'

LEMMA AgentKept ==
    ASSUME BatchInv, TypeOK', NEW p \in Procs, NEW a \in Agents,
           AgentStep(p, a)
    PROVE  BatchInv'
  <1> USE DEF BatchInv
  <1>0. /\ task' = task /\ job' = job /\ holder' = holder /\ token' = token
        /\ overrun' = overrun /\ holder[Task] = p
    BY DEF AgentStep, Owns
  <1>1. LeaseInv'
    BY <1>0 DEF LeaseInv
  <1>2. JobInv'
    BY <1>0 DEF JobInv, AgentStep
  <1>3. SavedInv'
    <2> SUFFICES ASSUME NEW c \in Agents, NEW b \in Batches
                 PROVE  SavedRow(rows'[c][b], planned'[c])
      BY DEF SavedInv, SavedRow
    <2> QED BY DEF AgentStep, SavedInv
  <1>4. ASSUME NEW c \in Agents, c # a
        PROVE  /\ Known(c)' = Known(c) /\ (Whole(c)' <=> Whole(c))
               /\ rows'[c] = rows[c] /\ planned'[c] = planned[c]
               /\ claims'[c] = claims[c]
               /\ \A q \in Procs : thread'[q][c] = thread[q][c]
    <2>1. rows'[c] = rows[c]
      BY <1>4 DEF AgentStep
    <2> QED BY <1>4, <2>1, AgentSame DEF AgentStep
  <1>5. ThreadInv'
    <2> SUFFICES ASSUME NEW q \in Procs, NEW c \in Agents, Owns(q)'
                 PROVE  /\ thread'[q][c].pc \in {"ensure", "scan", "request"}
                              => planned'[c] = job'[q].conf
                        /\ thread'[q][c].pc \in {"scan", "request"}
                              => Known(c)' # {}
                        /\ thread'[q][c].pc = "request"
                              => thread'[q][c].claim
                                    = claims'[c][thread'[q][c].batch]
                        /\ thread'[q][c].pc = "done" => Whole(c)'
      BY DEF ThreadInv
    <2>1. q = p /\ Owns(p)
      BY <1>0 DEF Owns
    <2>2. CASE c = a
      BY <1>0, <2>1, <2>2 DEF AgentStep
    <2>3. CASE c # a
      BY <1>0, <1>4, <2>1, <2>3 DEF ThreadInv
    <2> QED BY <2>2, <2>3
  <1>6. DoneInv'
    BY <1>0, BatchAssumption DEF DoneInv, LeaseInv
  <1>7. RequestInv'
    BY <1>4 DEF RequestInv, AgentStep
  <1>8. FlightInv'
    <2>1. RequestInv' => (FlightInv' <=> (~overrun' =>
                                \A c \in Agents : Alone(c)'))
      BY DEF FlightInv, RequestInv, Alone, InRequest, InFlight, LiveRunning,
             InStatus
    <2>2. ASSUME ~overrun, NEW c \in Agents
          PROVE  Alone(c)'
      <3>1. CASE c = a
        BY <2>2, <3>1 DEF AgentStep
      <3>2. CASE c # a
        <4>1. Alone(c)
          BY <2>2, FlightAlone
        <4>2. /\ rows'[c] = rows[c]
              /\ \A q \in Procs : thread'[q][c] = thread[q][c]
          BY <1>4, <3>2
        <4> QED BY <4>1, <4>2 DEF Alone, InRequest
      <3> QED BY <3>1, <3>2
    <2> QED BY <1>0, <1>7, <2>1, <2>2
  <1> QED BY <1>1, <1>2, <1>3, <1>5, <1>6, <1>7, <1>8

\* What a thread of the owner knows of its agent.
LEMMA WorksFacts ==
    ASSUME BatchInv, NEW p \in Procs, NEW a \in Agents, NEW point,
           Works(p, a, point), point # "idle"
    PROVE  /\ TypeOK /\ Owns(p) /\ thread[p][a] \in ThreadType
           /\ thread[p][a].pc = point /\ thread[p][a].batch \in 0..MaxBatches
           /\ job[p].conf \in Confs /\ job[p].total \in Batches
           /\ \A b \in Batches : /\ SavedRow(rows[a][b], planned[a])
                                /\ rows[a][b] \in RowType
           /\ point \in {"ensure", "scan", "request"}
                 => planned[a] = job[p].conf
           /\ point \in {"scan", "request"} => Known(a) # {}
           /\ point = "request" => /\ thread[p][a].batch \in Batches
                                   /\ thread[p][a].claim
                                         = claims[a][thread[p][a].batch]
           /\ ~overrun => Alone(a)
           /\ faults \in Nat /\ overrun \in BOOLEAN
  <1>1. TypeOK /\ Owns(p) /\ thread[p][a].pc = point
    BY DEF BatchInv, Works
  <1>2. /\ thread[p][a] \in ThreadType
        /\ \A b \in Batches : rows[a][b] \in RowType
        /\ thread[p][a].batch \in 0..MaxBatches
    BY <1>1, Types DEF ThreadType
  <1>3. \A b \in Batches : SavedRow(rows[a][b], planned[a])
    BY DEF BatchInv, SavedInv
  <1>4. /\ point \in {"ensure", "scan", "request"} => planned[a] = job[p].conf
        /\ point \in {"scan", "request"} => Known(a) # {}
        /\ point = "request" => thread[p][a].claim
                                     = claims[a][thread[p][a].batch]
    BY <1>1 DEF BatchInv, ThreadInv
  <1>5. point = "request" => thread[p][a].batch \in Batches
    BY <1>1 DEF BatchInv, RequestInv
  <1>6. job[p].conf \in Confs /\ job[p].total \in Batches
    BY <1>1 DEF BatchInv, JobInv
  <1>7. ~overrun => Alone(a)
    BY FlightAlone DEF BatchInv
  <1>8. faults \in Nat /\ overrun \in BOOLEAN
    BY <1>1 DEF TypeOK
  <1> QED BY <1>1, <1>2, <1>3, <1>4, <1>5, <1>6, <1>7, <1>8

\* A thread that ends leaves every batch as it is.
LEMMA EndKept ==
    ASSUME BatchInv, NEW p \in Procs, NEW a \in Agents, NEW point,
           Works(p, a, point), point # "idle", NEW t \in ThreadType,
           Step(p, a, t), OnlyRows, UNCHANGED <<rows, claims, overrun>>,
           faults' \in Nat, t.pc \in {"done", "failed"},
           t.pc = "done" => Whole(a)
    PROVE  BatchInv'
  <1>1. /\ TypeOK /\ Owns(p) /\ thread[p][a].pc = point
        /\ \A b \in Batches : SavedRow(rows[a][b], planned[a])
        /\ ~overrun => Alone(a)
    BY WorksFacts
  <1>2. TypeOK'
    <2>1. overrun' \in BOOLEAN
      BY <1>1 DEF TypeOK
    <2> QED BY <1>1, <2>1, TransactionTyped
  <1>3. /\ thread'[p][a] = t
        /\ \A q \in Procs, c \in Agents :
              q # p \/ c # a => thread'[q][c] = thread[q][c]
    BY <1>1, BatchStepped
  <1>4. Whole(a) => Whole(a)'
    BY AgentSame
  <1>5. ~overrun => Alone(a)'
    BY <1>1, <1>3 DEF Alone, InRequest
  <1>6. AgentStep(p, a)
    BY <1>1, <1>3, <1>4, <1>5 DEF AgentStep, OnlyRows
  <1> QED BY <1>2, <1>6, AgentKept

LEMMA EndsKept ==
    ASSUME BatchInv, NEW p \in Procs, NEW a \in Agents,
           \/ Restore(p, a) \/ RefuseMixture(p, a) \/ Answered(p, a)
           \/ Refuse(p, a)
           \/ \E kind \in {"retryable", "fatal"} : FailUnsaved(p, a, kind)
    PROVE  BatchInv'
  <1>1. TypeOK /\ faults \in Nat
    BY DEF BatchInv, TypeOK
  <1>2. "done" \in Points /\ {"fatal", "busy"} \subseteq Errors
    BY DEF Points, Errors
  <1>3. CASE Restore(p, a)
    BY <1>1, <1>2, <1>3, Threads, EndKept DEF Restore
  <1>4. CASE RefuseMixture(p, a)
    <2>1. 0 \in 0..MaxBatches
      BY <1>1, Types
    <2> QED BY <1>1, <1>2, <1>4, <2>1, Threads, EndKept DEF RefuseMixture
  <1>5. CASE Answered(p, a)
    <2>1. Whole(a)
      BY <1>5, WorksFacts DEF Answered, Whole
    <2> QED BY <1>1, <1>2, <1>5, <2>1, Threads, EndKept DEF Answered
  <1>6. CASE Refuse(p, a)
    <2> DEFINE b == First(Unfinished(a))
               e == IF rows[a][b].attempts >= MaxRequests
                    THEN "fatal" ELSE "busy"
    <2>1. b \in 0..MaxBatches /\ e \in Errors
      BY <1>1, <1>2, <1>6, NextBatch, Types DEF Refuse
    <2>2. /\ Step(p, a, Stopped(p, a, b, e)) /\ Works(p, a, "scan")
          /\ OnlyRows /\ UNCHANGED <<rows, claims, overrun, faults>>
      BY <1>6 DEF Refuse
    <2> HIDE DEF b, e
    <2> QED BY <1>1, <2>1, <2>2, Threads, EndKept
  <1>7. ASSUME NEW kind, FailUnsaved(p, a, kind)
        PROVE  BatchInv'
    <2>1. faults' \in Nat
      BY <1>1, <1>7 DEF FailUnsaved, Fail
    <2> QED BY <1>1, <1>7, <2>1, ErrorStops, EndKept DEF FailUnsaved
  <1> QED BY <1>3, <1>4, <1>5, <1>6, <1>7

LEMMA PlanKept ==
    ASSUME BatchInv, NEW p \in Procs, NEW a \in Agents, Plan(p, a)
    PROVE  BatchInv'
  <1> DEFINE t == At(p, a, "ensure")
  <1>1. /\ TypeOK /\ Owns(p) /\ thread[p][a].pc = "load"
        /\ job[p].conf \in Confs
        /\ \A b \in Batches : SavedRow(rows[a][b], planned[a])
        /\ ~overrun => Alone(a)
    BY WorksFacts DEF Plan
  <1>2. t \in ThreadType /\ t.pc = "ensure"
    BY <1>1, Threads DEF Points
  <1> HIDE DEF t
  <1>3. /\ thread' \in [Procs -> [Agents -> ThreadType]]
        /\ thread'[p][a] = t
        /\ \A q \in Procs, c \in Agents :
              q # p \/ c # a => thread'[q][c] = thread[q][c]
    BY <1>1, <1>2, BatchStepped DEF Plan, t
  <1>4. /\ planned' = [planned EXCEPT ![a] = job[p].conf]
        /\ UNCHANGED <<task, conf, rows, job, holder, token, claims, overrun,
                       faults, ops>>
    BY DEF Plan
  <1>5. /\ planned'[a] = job[p].conf
        /\ \A c \in Agents : c # a => planned'[c] = planned[c]
        /\ planned' \in [Agents -> Confs \union {0}]
    BY <1>1, <1>4 DEF TypeOK
  <1>6. TypeOK'
    BY <1>1, <1>3, <1>4, <1>5 DEF TypeOK
  <1>7. ASSUME NEW b \in Batches
        PROVE  SavedRow(rows'[a][b], planned'[a])
    <2>1. Foreign(p, a) = {}
      BY DEF Plan
    <2> QED BY <1>1, <1>4, <1>5, <2>1 DEF Foreign, Known, SavedRow
  <1>8. ~overrun => Alone(a)'
    <2>1. rows' = rows /\ thread'[p][a].pc = "ensure"
      BY <1>2, <1>3, <1>4
    <2>2. \A q \in Procs : q # p => thread'[q][a] = thread[q][a]
      BY <1>3
    <2> QED BY <1>1, <2>1, <2>2 DEF Alone, InRequest
  <1>9. AgentStep(p, a)
    BY <1>1, <1>2, <1>3, <1>4, <1>5, <1>7, <1>8 DEF AgentStep
  <1> QED BY <1>6, <1>9, AgentKept

LEMMA DefinedRows ==
    ASSUME TypeOK, NEW n \in Batches, NEW c
    PROVE  /\ Defined(n) \in [Batches -> RowType]
           /\ \A b \in Batches : SavedRow(Defined(n)[b], c)
           /\ Defined(n)[1].status # "absent" /\ 1 \in Batches
  <1>1. NoRow \in RowType /\ Pending \in RowType
    BY DEF NoRow, Pending, RowType, RowStates
  <1>2. SavedRow(NoRow, c) /\ SavedRow(Pending, c)
    BY DEF NoRow, Pending, SavedRow
  <1>3. Pending.status # "absent"
    BY DEF NoRow, Pending
  <1>4. 1 \in Batches /\ 1 <= n
    BY BatchAssumption DEF Batches
  <1> QED BY <1>1, <1>2, <1>3, <1>4 DEF Defined

\* A new plan is only written where nothing is answered or in flight.
LEMMA EnsureKept ==
    ASSUME BatchInv, NEW p \in Procs, NEW a \in Agents, Ensure(p, a)
    PROVE  BatchInv'
  <1> DEFINE n == job[p].total
             t == At(p, a, "scan")
  <1>1. /\ TypeOK /\ Owns(p) /\ thread[p][a].pc = "ensure" /\ n \in Batches
        /\ \A b \in Batches : SavedRow(rows[a][b], planned[a])
        /\ planned[a] = job[p].conf
        /\ ~overrun => Alone(a)
        /\ faults \in Nat /\ overrun \in BOOLEAN
    <2>1. Works(p, a, "ensure")
      BY DEF Ensure
    <2> QED BY <2>1, WorksFacts
  <1>2. t \in ThreadType /\ t.pc = "scan" /\ 0 \in 0..MaxBatches
    BY <1>1, Threads, Types DEF Points
  <1>3. OnlyRows /\ UNCHANGED <<claims, overrun, faults>> /\ Works(p, a, "ensure")
    BY DEF Ensure
  <1>4. CASE Step(p, a, Stopped(p, a, 0, "fatal")) /\ UNCHANGED rows
    <2>1. /\ Stopped(p, a, 0, "fatal") \in ThreadType
          /\ Stopped(p, a, 0, "fatal").pc = "failed"
      BY <1>1, <1>2, Threads DEF Errors
    <2> QED BY <1>1, <1>3, <1>4, <2>1, EndKept
  <1>5. ASSUME Step(p, a, t), \/ rows' = rows
                             \/ rows' \in [Agents -> [Batches -> RowType]],
               \A c \in Agents : c # a => rows'[c] = rows[c],
               \A b \in Batches : SavedRow(rows'[a][b], planned[a]),
               Known(a)' # {}, ~overrun => Alone(a)'
        PROVE  BatchInv'
    <2>0. /\ claims' = claims /\ overrun' = overrun /\ faults' = faults
          /\ overrun' \in BOOLEAN /\ faults' \in Nat
      BY <1>1, <1>3
    <2>1. TypeOK'
      BY <1>1, <1>2, <1>3, <1>5, <2>0, TransactionTyped
    <2>2. /\ thread'[p][a].pc = "scan"
          /\ \A q \in Procs, c \in Agents :
                q # p \/ c # a => thread'[q][c] = thread[q][c]
      BY <1>1, <1>2, <1>5, BatchStepped
    <2>3. AgentStep(p, a)
      BY <1>1, <1>3, <1>5, <2>2 DEF AgentStep, OnlyRows
    <2> QED BY <2>1, <2>3, AgentKept
  <1>6. Step(p, a, t) => /\ thread'[p][a].pc = "scan"
                         /\ \A q \in Procs : q # p => thread'[q][a] = thread[q][a]
    BY <1>1, <1>2, BatchStepped
  <1> HIDE DEF t
  <1>7. CASE Known(a) = 1..n /\ Step(p, a, t) /\ UNCHANGED rows
    <2>1. Known(a) # {} /\ Known(a)' = Known(a)
      BY <1>1, <1>7, AgentSame DEF Batches
    <2>2. ~overrun => Alone(a)'
      BY <1>1, <1>6, <1>7 DEF Alone, InRequest
    <2> QED BY <1>1, <1>5, <1>7, <2>1, <2>2
  <1>8. CASE /\ Succeeded(a) \union LiveRunning(a) = {} /\ Step(p, a, t)
             /\ rows' = [rows EXCEPT ![a] = Defined(n)]
    <2>1. /\ rows' \in [Agents -> [Batches -> RowType]]
          /\ rows'[a] = Defined(n)
          /\ \A c \in Agents : c # a => rows'[c] = rows[c]
      BY <1>1, <1>8, DefinedRows DEF TypeOK
    <2>2. \A b \in Batches : SavedRow(rows'[a][b], planned[a])
      BY <1>1, <2>1, DefinedRows
    <2>3. Known(a)' # {}
      BY <1>1, <2>1, DefinedRows DEF Known
    <2>4. ASSUME Alone(a), NEW q \in Procs, InRequest(q, a)
          PROVE  FALSE
      <3>1. thread[q][a].batch \in Batches
        BY <2>4 DEF BatchInv, RequestInv, InRequest
      <3>2. thread[q][a].batch \in LiveRunning(a)
        BY <2>4, <3>1 DEF Alone, LiveRunning, InStatus
      <3> QED BY <1>8, <3>2
    <2>5. ~overrun => Alone(a)'
      BY <1>1, <1>6, <1>8, <2>4 DEF Alone, InRequest
    <2> QED BY <1>5, <1>8, <2>1, <2>2, <2>3, <2>5
  <1> QED BY <1>4, <1>7, <1>8 DEF Ensure, t

-----------------------------------------------------------------------------
(* The transactions that write one batch.                                  *)

\* A write to a batch that no other process has a request for.
LEMMA AloneWritten ==
    ASSUME TypeOK, RequestInv, NEW p \in Procs, NEW a \in Agents, Alone(a),
           NEW b \in Batches, NEW r \in RowType, Write(a, b, r),
           NEW t \in ThreadType, Step(p, a, t),
           \A q \in Procs : q # p /\ InRequest(q, a)
                                => thread[q][a].batch # b,
           t.pc = "request" => t.batch = b /\ r.status = "running" /\ r.live
    PROVE  Alone(a)'
  <1>1. rows'[a][b] = r /\ \A d \in Batches : d # b => rows'[a][d] = rows[a][d]
    BY Written
  <1>2. thread'[p][a] = t /\ \A q \in Procs : q # p =>
                                 thread'[q][a] = thread[q][a]
    BY BatchStepped
  <1>3. SUFFICES ASSUME NEW q \in Procs, InRequest(q, a)'
                 PROVE  /\ rows'[a][thread'[q][a].batch].status = "running"
                        /\ rows'[a][thread'[q][a].batch].live
                        /\ \A o \in Procs :
                              /\ InRequest(o, a)'
                              /\ thread'[o][a].batch = thread'[q][a].batch
                              => o = q
    BY DEF Alone
  <1>4. ASSUME NEW o \in Procs, o # p, InRequest(o, a)'
        PROVE  /\ InRequest(o, a) /\ thread'[o][a].batch = thread[o][a].batch
               /\ thread[o][a].batch \in Batches /\ thread[o][a].batch # b
    <2>1. InRequest(o, a) /\ thread'[o][a].batch = thread[o][a].batch
      BY <1>2, <1>4 DEF InRequest
    <2> QED BY <1>4, <2>1 DEF RequestInv, InRequest
  <1>5. CASE q = p
    BY <1>1, <1>2, <1>3, <1>4, <1>5 DEF InRequest
  <1>6. CASE q # p
    <2>1. rows'[a][thread'[q][a].batch] = rows[a][thread[q][a].batch]
      BY <1>1, <1>3, <1>4, <1>6
    <2>2. /\ rows[a][thread[q][a].batch].status = "running"
          /\ rows[a][thread[q][a].batch].live
      BY <1>3, <1>4, <1>6 DEF Alone
    <2>3. ASSUME NEW o \in Procs, InRequest(o, a)',
                 thread'[o][a].batch = thread'[q][a].batch
          PROVE  o = q
      <3>1. o # p
        BY <1>2, <1>3, <1>4, <1>6, <2>3 DEF InRequest
      <3> QED BY <1>3, <1>4, <1>6, <2>3, <3>1 DEF Alone
    <2> QED BY <2>1, <2>2, <2>3
  <1> QED BY <1>5, <1>6

LEMMA RowKept ==
    ASSUME BatchInv, NEW p \in Procs, NEW a \in Agents,
           NEW point \in {"scan", "request"}, Works(p, a, point),
           NEW b \in Batches, NEW r \in RowType, Write(a, b, r),
           NEW t \in ThreadType, Step(p, a, t), OnlyRows,
           overrun' = overrun, faults' \in Nat,
           claims' \in [Agents -> [Batches -> Nat]],
           \A c \in Agents : c # a => claims'[c] = claims[c],
           SavedRow(r, planned[a]), r.status # "absent",
           t.pc \in {"scan", "request", "failed"},
           t.pc = "request" => t.batch \in Batches
                                  /\ t.claim = claims'[a][t.batch],
           ~overrun => Alone(a)'
    PROVE  BatchInv'
  <1>1. /\ TypeOK /\ Owns(p) /\ thread[p][a].pc = point
        /\ \A d \in Batches : SavedRow(rows[a][d], planned[a])
        /\ planned[a] = job[p].conf /\ overrun \in BOOLEAN
    BY WorksFacts
  <1>2. /\ rows' \in [Agents -> [Batches -> RowType]]
        /\ rows'[a][b] = r
        /\ \A d \in Batches : d # b => rows'[a][d] = rows[a][d]
        /\ \A c \in Agents : c # a => rows'[c] = rows[c]
    BY <1>1, Written
  <1>3. /\ thread'[p][a] = t
        /\ \A q \in Procs, c \in Agents :
              q # p \/ c # a => thread'[q][c] = thread[q][c]
    BY <1>1, BatchStepped
  <1>4. TypeOK'
    BY <1>1, <1>2, TransactionTyped
  <1>5. Known(a)' # {}
    BY <1>2 DEF Known
  <1>6. /\ planned' = planned /\ job' = job
        /\ UNCHANGED <<task, job, holder, token, overrun>>
    BY DEF OnlyRows
  <1>7. \A d \in Batches : SavedRow(rows'[a][d], planned'[a])
    BY <1>1, <1>2, <1>6
  <1>8. AgentStep(p, a)
    BY <1>1, <1>2, <1>3, <1>5, <1>6, <1>7 DEF AgentStep
  <1> QED BY <1>4, <1>8, AgentKept

LEMMA RowClaimed ==
    ASSUME NEW o \in RowType
    PROVE  LET r == [o EXCEPT !.status = "running", !.live = TRUE,
                              !.attempts = @ + 1]
           IN  /\ r \in RowType /\ r.status = "running" /\ r.live
               /\ r.saved = o.saved /\ o.attempts + 1 \in Nat
  <1>1. o.attempts \in Nat /\ o.attempts + 1 \in Nat
    BY DEF RowType
  <1>2. "running" \in RowStates
    BY DEF RowStates
  <1> QED BY <1>1, <1>2 DEF RowType

Waiting(u, b, n, k) ==
    [u EXCEPT !.pc = "request", !.batch = b, !.attempt = n, !.claim = k]

LEMMA ThreadClaims ==
    ASSUME NEW u \in ThreadType, NEW b \in 0..MaxBatches, NEW n \in Nat,
           NEW k \in Nat
    PROVE  /\ Waiting(u, b, n, k) \in ThreadType
           /\ Waiting(u, b, n, k).pc = "request"
           /\ Waiting(u, b, n, k).batch = b
           /\ Waiting(u, b, n, k).claim = k
  <1>1. "request" \in Points
    BY DEF Points
  <1> QED BY <1>1 DEF ThreadType, Waiting

LEMMA ClaimBatchKept ==
    ASSUME BatchInv, NEW p \in Procs, NEW a \in Agents, ClaimBatch(p, a)
    PROVE  BatchInv'
  <1> DEFINE b == First(Unfinished(a))
             r == [rows[a][b] EXCEPT !.status = "running", !.live = TRUE,
                                     !.attempts = @ + 1]
             t == [thread[p][a] EXCEPT
                      !.pc = "request", !.batch = b,
                      !.attempt = rows[a][b].attempts + 1,
                      !.claim = claims[a][b] + 1]
  <1>1. /\ Works(p, a, "scan") /\ Write(a, b, r) /\ Step(p, a, t) /\ OnlyRows
        /\ claims' = [claims EXCEPT ![a][b] = @ + 1]
        /\ overrun' = overrun /\ faults' = faults
        /\ Unfinished(a) # {} /\ Claimable(rows[a][b])
    BY DEF ClaimBatch
  <1>2. /\ b \in Batches /\ rows[a][b].status \notin {"absent", "succeeded"}
    BY <1>1, NextBatch
  <1>3. /\ TypeOK /\ thread[p][a] \in ThreadType /\ faults \in Nat
        /\ rows[a][b] \in RowType /\ SavedRow(rows[a][b], planned[a])
        /\ ~overrun => Alone(a)
    BY <1>1, <1>2, WorksFacts
  <1>4. ~(rows[a][b].status = "running" /\ rows[a][b].live)
    BY <1>1 DEF Claimable
  <1> HIDE DEF b
  <1>5. /\ r \in RowType /\ r.status = "running" /\ r.live
        /\ r.saved = rows[a][b].saved /\ rows[a][b].attempts + 1 \in Nat
    BY <1>3, RowClaimed
  <1>6. SavedRow(r, planned[a])
    BY <1>2, <1>3, <1>5 DEF SavedRow
  <1>7. claims[a][b] \in Nat /\ claims[a][b] + 1 \in Nat
    BY <1>2, <1>3 DEF TypeOK
  <1>8. /\ t \in ThreadType /\ t.pc = "request" /\ t.batch = b
        /\ t.claim = claims[a][b] + 1
    <2>1. b \in 0..MaxBatches
      BY <1>2, <1>3, Types
    <2> DEFINE n == rows[a][b].attempts + 1
               k == claims[a][b] + 1
    <2>2. t = Waiting(thread[p][a], b, n, k)
      BY DEF Waiting
    <2>3. thread[p][a] \in ThreadType /\ n \in Nat /\ k \in Nat
      BY <1>3, <1>5, <1>7
    <2> HIDE DEF t, n, k
    <2>4. t \in ThreadType /\ t.pc = "request" /\ t.batch = b /\ t.claim = k
      BY <2>1, <2>2, <2>3, ThreadClaims
    <2> QED BY <2>4 DEF k
  <1>9. /\ claims' \in [Agents -> [Batches -> Nat]]
        /\ claims'[a][b] = claims[a][b] + 1
        /\ \A c \in Agents : c # a => claims'[c] = claims[c]
    BY <1>1, <1>2, <1>3, <1>7 DEF TypeOK
  <1> HIDE DEF r, t
  <1>10. ~overrun => Alone(a)'
    <2> SUFFICES ASSUME ~overrun PROVE Alone(a)'
      OBVIOUS
    <2>1. ASSUME NEW q \in Procs, InRequest(q, a)
          PROVE  thread[q][a].batch # b
      BY <1>3, <1>4, <2>1 DEF Alone
    <2>2. RequestInv
      BY DEF BatchInv
    <2> QED BY <1>1, <1>2, <1>3, <1>5, <1>8, <2>1, <2>2, AloneWritten
  <1> QED BY <1>1, <1>2, <1>3, <1>5, <1>6, <1>8, <1>9, <1>10, RowKept

\* Complete, Checkpoint and FailBatch: the batch of the thread is still
\* claimed, and no other process has a request for it.
LEMMA AnswerKept ==
    ASSUME BatchInv, NEW p \in Procs, NEW a \in Agents,
           Works(p, a, "request"), NEW r \in RowType,
           Write(a, thread[p][a].batch, r),
           NEW t \in ThreadType, Step(p, a, t), OnlyRows,
           UNCHANGED <<claims, overrun>>, faults' \in Nat,
           SavedRow(r, planned[a]), r.status # "absent",
           \/ t.pc \in {"scan", "failed"}
           \/ t = thread[p][a] /\ r.status = "running" /\ r.live
    PROVE  BatchInv'
  <1> DEFINE b == thread[p][a].batch
  <1>1. /\ TypeOK /\ b \in Batches /\ thread[p][a].pc = "request"
        /\ thread[p][a].claim = claims[a][b]
        /\ ~overrun => Alone(a)
    BY WorksFacts
  <1>2. claims' = claims /\ claims \in [Agents -> [Batches -> Nat]]
    BY <1>1 DEF TypeOK
  <1>3. ~overrun => Alone(a)'
    <2> SUFFICES ASSUME ~overrun PROVE Alone(a)'
      OBVIOUS
    <2>1. ASSUME NEW q \in Procs, q # p, InRequest(q, a)
          PROVE  thread[q][a].batch # b
      BY <1>1, <2>1 DEF Alone, InRequest
    <2>2. RequestInv
      BY DEF BatchInv
    <2>3. t.pc = "request" => t.batch = b /\ r.status = "running" /\ r.live
      OBVIOUS
    <2> QED BY <1>1, <2>1, <2>2, <2>3, AloneWritten
  <1>4. t.pc = "request" => t.batch \in Batches /\ t.claim = claims'[a][t.batch]
    BY <1>1, <1>2
  <1>5. t.pc \in {"scan", "request", "failed"}
    BY <1>1
  <1> QED BY <1>1, <1>2, <1>3, <1>4, <1>5, RowKept

LEMMA CompleteKept ==
    ASSUME BatchInv, NEW p \in Procs, NEW a \in Agents, Complete(p, a)
    PROVE  BatchInv'
  <1> DEFINE b == thread[p][a].batch
             r == [rows[a][b] EXCEPT !.status = "succeeded", !.live = FALSE,
                                     !.saved = job[p].conf]
             t == At(p, a, "scan")
  <1>1. /\ Works(p, a, "request") /\ Write(a, b, r) /\ Step(p, a, t)
        /\ OnlyRows /\ UNCHANGED <<claims, overrun>> /\ faults' = faults
    BY DEF Complete
  <1>2. /\ TypeOK /\ b \in Batches /\ rows[a][b] \in RowType /\ faults \in Nat
        /\ planned[a] = job[p].conf /\ job[p].conf \in Confs
    BY <1>1, WorksFacts
  <1>3. job[p].conf # 0 /\ job[p].conf \in Confs \union {0}
    BY <1>2, Types
  <1>4. /\ r \in RowType /\ r.status = "succeeded" /\ r.saved = job[p].conf
    BY <1>2, <1>3 DEF RowType, RowStates
  <1>5. SavedRow(r, planned[a])
    BY <1>2, <1>3, <1>4 DEF SavedRow
  <1>6. t \in ThreadType /\ t.pc = "scan"
    BY <1>2, Threads DEF Points
  <1> HIDE DEF r, t
  <1> QED BY <1>1, <1>2, <1>4, <1>5, <1>6, AnswerKept

LEMMA CheckpointKept ==
    ASSUME BatchInv, NEW p \in Procs, NEW a \in Agents, Checkpoint(p, a)
    PROVE  BatchInv'
  <1> DEFINE b == thread[p][a].batch
             r == [rows[a][b] EXCEPT !.saved = job[p].conf]
             t == thread[p][a]
  <1>1. /\ Works(p, a, "request") /\ Write(a, b, r) /\ thread' = thread
        /\ OnlyRows /\ UNCHANGED <<claims, overrun>> /\ faults' = faults
        /\ StillClaimed(p, a)
    BY DEF Checkpoint
  <1>2. /\ TypeOK /\ b \in Batches /\ rows[a][b] \in RowType /\ faults \in Nat
        /\ planned[a] = job[p].conf /\ job[p].conf \in Confs
        /\ t \in ThreadType
    BY <1>1, WorksFacts
  <1>3. job[p].conf # 0 /\ job[p].conf \in Confs \union {0}
    BY <1>2, Types
  <1>4. /\ r \in RowType /\ r.status = "running" /\ r.live
        /\ r.saved = job[p].conf
    BY <1>1, <1>2, <1>3 DEF RowType, RowStates, StillClaimed
  <1>5. SavedRow(r, planned[a])
    BY <1>2, <1>3, <1>4 DEF SavedRow
  <1>6. Step(p, a, t)
    BY <1>1, <1>2 DEF TypeOK, Step
  <1> HIDE DEF r
  <1> QED BY <1>1, <1>2, <1>4, <1>5, <1>6, AnswerKept

LEMMA FailBatchKept ==
    ASSUME BatchInv, NEW p \in Procs, NEW a \in Agents, NEW kind,
           FailBatch(p, a, kind)
    PROVE  BatchInv'
  <1> DEFINE b == thread[p][a].batch
             r == [rows[a][b] EXCEPT !.status = "failed", !.live = FALSE,
                                     !.due = FALSE]
             t == Error(p, a, kind)
  <1>1. /\ Works(p, a, "request") /\ Write(a, b, r) /\ Step(p, a, t)
        /\ OnlyRows /\ UNCHANGED <<claims, overrun>> /\ faults' = faults + 1
        /\ StillClaimed(p, a)
    BY DEF FailBatch, Fail
  <1>2. /\ TypeOK /\ b \in Batches /\ rows[a][b] \in RowType /\ faults \in Nat
        /\ SavedRow(rows[a][b], planned[a])
    BY <1>1, WorksFacts
  <1>3. /\ r \in RowType /\ r.status = "failed" /\ r.saved = rows[a][b].saved
    BY <1>2 DEF RowType, RowStates
  <1>4. SavedRow(r, planned[a])
    BY <1>2, <1>3 DEF SavedRow
  <1>5. t \in ThreadType /\ t.pc = "failed"
    BY <1>2, ErrorStops
  <1> HIDE DEF r, t
  <1> QED BY <1>1, <1>2, <1>3, <1>4, <1>5, AnswerKept

-----------------------------------------------------------------------------
(* The steps that leave the batches alone.                                 *)

TaskType == [status : TaskStates, due : BOOLEAN, models : Nat,
             wait : 0..NAgents]

JobRecords == [conf : Confs \union {0}, total : 0..MaxBatches]

\* A thread that has read nothing it relies on.
Unread(t) == t.pc \in {"idle", "load", "lost"}

LEMMA QuietKept ==
    ASSUME BatchInv, TypeOK', LeaseInv',
           UNCHANGED <<rows, planned, claims, overrun>>,
           \A p \in Procs, a \in Agents :
              \/ /\ thread'[p][a] = thread[p][a]
                 /\ thread[p][a].pc = "idle" \/ job'[p] = job[p]
              \/ /\ Unread(thread'[p][a])
                 /\ thread'[p][a].pc # "idle" =>
                        job'[p].conf \in Confs /\ job'[p].total \in Batches,
           \A p \in Procs : holder'[Task] = p =>
              holder[Task] = p \/ \A a \in Agents : Unread(thread'[p][a]),
           task'.status = "done" => \A a \in Agents : Whole(a)
    PROVE  BatchInv'
  <1>0. rows' = rows /\ planned' = planned /\ claims' = claims
        /\ overrun' = overrun
    OBVIOUS
  <1>1. JobInv'
    BY DEF BatchInv, JobInv
  <1>2. SavedInv'
    BY <1>0 DEF BatchInv, SavedInv, SavedRow
  <1>3. \A a \in Agents : /\ Known(a)' = Known(a)
                          /\ Whole(a)' <=> Whole(a)
    BY <1>0, AgentSame
  <1>4. DoneInv'
    BY <1>3 DEF DoneInv
  <1>5. ThreadInv'
    <2> SUFFICES ASSUME NEW p \in Procs, NEW a \in Agents, Owns(p)',
                        ~Unread(thread'[p][a])
                 PROVE  /\ thread'[p][a].pc \in {"ensure", "scan", "request"}
                              => planned'[a] = job'[p].conf
                        /\ thread'[p][a].pc \in {"scan", "request"}
                              => Known(a)' # {}
                        /\ thread'[p][a].pc = "request"
                              => thread'[p][a].claim
                                    = claims'[a][thread'[p][a].batch]
                        /\ thread'[p][a].pc = "done" => Whole(a)'
      BY DEF ThreadInv, Unread
    <2>1. Owns(p) /\ thread'[p][a] = thread[p][a]
          /\ (thread[p][a].pc = "idle" \/ job'[p] = job[p])
      BY DEF Owns
    <2>2. /\ thread[p][a].pc \in {"ensure", "scan", "request"}
                => planned[a] = job[p].conf
          /\ thread[p][a].pc \in {"scan", "request"} => Known(a) # {}
          /\ thread[p][a].pc = "request"
                => thread[p][a].claim = claims[a][thread[p][a].batch]
          /\ thread[p][a].pc = "done" => Whole(a)
      BY <2>1 DEF BatchInv, ThreadInv
    <2> QED BY <1>0, <1>3, <2>1, <2>2
  <1>6. \A p \in Procs, a \in Agents :
            thread'[p][a].pc = "request" => thread'[p][a] = thread[p][a]
    BY DEF Unread
  <1>7. RequestInv'
    BY <1>6 DEF BatchInv, RequestInv
  <1>8. FlightInv'
    <2>1. FlightInv' <=> (~overrun' => \A a \in Agents : Alone(a)')
      BY <1>7 DEF FlightInv, RequestInv, Alone, InRequest, InFlight,
                  LiveRunning, InStatus
    <2>2. ASSUME ~overrun, NEW a \in Agents PROVE Alone(a)'
      <3>1. Alone(a)
        BY <2>2, FlightAlone DEF BatchInv
      <3>2. \A p \in Procs : InRequest(p, a)' =>
                InRequest(p, a) /\ thread'[p][a].batch = thread[p][a].batch
        BY <1>6 DEF InRequest
      <3> QED BY <1>0, <3>1, <3>2 DEF Alone
    <2> QED BY <1>0, <2>1, <2>2
  <1> QED BY <1>1, <1>2, <1>4, <1>5, <1>7, <1>8 DEF BatchInv

\* A task that loses its owner, or has none.
LEMMA Freed ==
    ASSUME LeaseInv, \/ Lock!Release({Task})
                     \/ holder[Task] = NoProc /\ UNCHANGED <<holder, token>>
    PROVE  /\ holder' \in [{Task} -> Procs \union {NoProc}]
           /\ token' \in [{Task} -> Nat]
           /\ holder'[Task] = NoProc
  BY DEF LeaseInv, Lock!Release

LEMMA AfterErrorTyped ==
    ASSUME NEW t \in TaskType, t.models > 0, NEW asked \in 0..NAgents,
           NEW error
    PROVE  /\ AfterError(t, asked, error) \in TaskType
           /\ AfterError(t, asked, error).status \in {"failed", "ready"}
  <1> DEFINE m == IF error = "busy" THEN t.models - 1 ELSE t.models
             w == IF error = "busy" THEN asked ELSE 0
  <1>1. t.models \in Nat /\ m \in Nat
    BY DEF TaskType
  <1>2. w \in 0..NAgents
    BY BatchAssumption
  <1>3. {"failed", "ready"} \subseteq TaskStates
    BY DEF TaskStates
  <1>4. AfterError(t, asked, error) =
            IF error = "fatal" \/ (m >= MaxModels /\ error # "busy")
            THEN [t EXCEPT !.status = "failed", !.models = m]
            ELSE [status |-> "ready", due |-> FALSE, models |-> m, wait |-> w]
    BY DEF AfterError
  <1> HIDE DEF m, w
  <1>5. /\ [t EXCEPT !.status = "failed", !.models = m] \in TaskType
        /\ [t EXCEPT !.status = "failed", !.models = m].status = "failed"
    BY <1>1, <1>3 DEF TaskType
  <1>6. /\ [status |-> "ready", due |-> FALSE, models |-> m, wait |-> w]
              \in TaskType
        /\ [status |-> "ready", due |-> FALSE, models |-> m,
            wait |-> w].status = "ready"
    BY <1>1, <1>2, <1>3 DEF TaskType
  <1> QED BY <1>4, <1>5, <1>6

\* The parts of the type invariant, and what a process leaves behind.
LEMMA Parts ==
    ASSUME BatchInv
    PROVE  /\ task \in TaskType /\ TypeOK /\ LeaseInv
           /\ faults \in Nat /\ ops \in Nat
           /\ task.status = "running" => task.models > 0
           /\ Idle \in ThreadType /\ Idle.pc = "idle" /\ NoJob \in JobRecords
           /\ NoProc \notin Procs
  BY BatchAssumption
     DEF BatchInv, TypeOK, LeaseInv, TaskType, Idle, ThreadType, Points,
         Errors, NoJob, JobRecords

LEMMA LoseKept ==
    ASSUME BatchInv, NEW p \in Procs, NEW a \in Agents, Lose(p, a)
    PROVE  BatchInv'
  <1> DEFINE t == At(p, a, "lost")
  <1>1. TypeOK /\ LeaseInv /\ Step(p, a, t) /\ OnlyRows
        /\ UNCHANGED <<rows, claims, overrun, faults>>
        /\ thread[p][a].pc # "idle"
    BY DEF Lose, BatchInv
  <1>2. t \in ThreadType /\ t.pc = "lost"
    BY <1>1, Threads DEF Points
  <1> HIDE DEF t
  <1>3. /\ thread'[p][a] = t
        /\ \A q \in Procs, c \in Agents :
              q # p \/ c # a => thread'[q][c] = thread[q][c]
    BY <1>1, <1>2, BatchStepped
  <1>4. TypeOK'
    <2>1. overrun' \in BOOLEAN /\ faults' \in Nat
      BY <1>1 DEF TypeOK
    <2> QED BY <1>1, <1>2, <2>1, TransactionTyped
  <1>5. task' = task /\ job' = job /\ holder' = holder /\ token' = token
        /\ UNCHANGED <<rows, planned, claims, overrun>>
    BY <1>1 DEF OnlyRows
  <1>6. LeaseInv'
    BY <1>1, <1>5 DEF LeaseInv
  <1>7. job[p].conf \in Confs /\ job[p].total \in Batches
    BY <1>1 DEF BatchInv, JobInv
  <1>8. \A q \in Procs, c \in Agents :
              \/ /\ thread'[q][c] = thread[q][c]
                 /\ thread[q][c].pc = "idle" \/ job'[q] = job[q]
              \/ /\ Unread(thread'[q][c])
                 /\ thread'[q][c].pc # "idle" =>
                        job'[q].conf \in Confs /\ job'[q].total \in Batches
    BY <1>2, <1>3, <1>5, <1>7 DEF Unread
  <1>9. task'.status = "done" => \A c \in Agents : Whole(c)
    BY <1>5 DEF BatchInv, DoneInv
  <1> QED BY <1>4, <1>5, <1>6, <1>8, <1>9, QuietKept

\* A task without an owner, scheduled anew or not; the threads go on.
LEMMA TaskKept ==
    ASSUME BatchInv, UNCHANGED <<rows, planned, job, thread, claims, overrun>>,
           conf' \in Confs, faults' \in Nat, ops' \in Nat,
           task' \in TaskType,
           \/ holder' = holder /\ token' = token
           \/ Lock!Release({Task}),
           holder'[Task] # NoProc => task'.status = "running",
           task'.status = "running" => task.status = "running"
                                          /\ task'.models = task.models,
           task'.status = "done" => task.status = "done"
    PROVE  BatchInv'
  <1>1. TypeOK /\ LeaseInv /\ DoneInv
    BY DEF BatchInv
  <1>2. /\ holder' \in [{Task} -> Procs \union {NoProc}]
        /\ token' \in [{Task} -> Nat]
        /\ holder'[Task] = holder[Task] \/ holder'[Task] = NoProc
    BY <1>1, Freed DEF LeaseInv
  <1>3. LeaseInv'
    BY <1>1, <1>2 DEF LeaseInv
  <1>4. TypeOK'
    BY <1>1 DEF TypeOK, TaskType
  <1>5. \A q \in Procs : holder'[Task] = q => holder[Task] = q
    BY <1>2, Parts
  <1>6. task'.status = "done" => \A a \in Agents : Whole(a)
    BY <1>1 DEF DoneInv
  <1>7. \A q \in Procs, c \in Agents :
            /\ thread'[q][c] = thread[q][c]
            /\ job'[q] = job[q]
    OBVIOUS
  <1>8. UNCHANGED <<rows, planned, claims, overrun>>
    OBVIOUS
  <1> QED BY <1>3, <1>4, <1>5, <1>6, <1>7, <1>8, QuietKept

LEMMA TasksKept ==
    ASSUME BatchInv,
           \/ \E p \in Procs : MissRenewal(p)
           \/ Recover \/ BecomeDue
           \/ \E c \in Confs : Configure(c)
           \/ Pause \/ Resume
    PROVE  BatchInv'
  <1>1. /\ task \in TaskType /\ LeaseInv /\ faults \in Nat /\ ops \in Nat
        /\ conf \in Confs /\ NoProc \notin Procs
        /\ holder[Task] # NoProc => task.status = "running"
        /\ task.status = "running" => task.models > 0
        /\ faults + 1 \in Nat /\ ops + 1 \in Nat
    BY Parts DEF TypeOK, LeaseInv
  <1>2. /\ 0 \in 0..NAgents /\ "paused" \in TaskStates /\ "ready" \in TaskStates
    BY BatchAssumption DEF TaskStates
  <1>3. Scheduled \in TaskType /\ Scheduled.status = "ready"
    BY <1>1, <1>2 DEF Scheduled, TaskType
  <1>4. ASSUME NEW p \in Procs, MissRenewal(p) PROVE BatchInv'
    <2>1. /\ Lock!Release({Task}) /\ holder'[Task] = NoProc /\ faults' \in Nat
          /\ UNCHANGED <<rows, planned, job, thread, claims, overrun>>
          /\ task' = task /\ conf' = conf /\ ops' = ops
      BY <1>1, <1>4, Freed DEF MissRenewal, Fault
    <2> QED BY <1>1, <2>1, TaskKept
  <1>5. CASE Recover
    <2>1. /\ task' = AfterError(task, 0, "retryable") /\ holder[Task] = NoProc
          /\ UNCHANGED <<rows, planned, job, thread, claims, overrun>>
          /\ conf' = conf /\ ops' = ops /\ faults' = faults
          /\ holder' = holder /\ token' = token /\ task.models > 0
      BY <1>1, <1>5 DEF Recover
    <2>2. task' \in TaskType /\ task'.status \in {"failed", "ready"}
      BY <1>1, <1>2, <2>1, AfterErrorTyped
    <2> QED BY <1>1, <2>1, <2>2, TaskKept
  <1>6. CASE BecomeDue
    <2>1. /\ task' = [task EXCEPT !.due = TRUE, !.wait = 0]
          /\ UNCHANGED <<rows, planned, job, thread, claims, overrun>>
          /\ conf' = conf /\ ops' = ops /\ faults' = faults
          /\ holder' = holder /\ token' = token
      BY <1>6 DEF BecomeDue
    <2>2. /\ task' \in TaskType /\ task'.status = task.status
          /\ task'.models = task.models
      BY <1>1, <1>2, <2>1 DEF TaskType
    <2> QED BY <1>1, <2>1, <2>2, TaskKept
  <1>7. ASSUME NEW c \in Confs, Configure(c) PROVE BatchInv'
    <2>1. /\ UNCHANGED <<rows, planned, job, thread, claims, overrun>>
          /\ task' = task /\ conf' \in Confs /\ ops' \in Nat
          /\ faults' \in Nat /\ holder' = holder /\ token' = token
      BY <1>1, <1>7 DEF Configure, Operate
    <2> QED BY <1>1, <2>1, TaskKept
  <1>8. CASE Pause
    <2>1. /\ task' = [task EXCEPT !.status = "paused", !.due = TRUE,
                                  !.wait = 0]
          /\ UNCHANGED <<rows, planned, job, thread, claims, overrun>>
          /\ conf' = conf /\ ops' \in Nat /\ faults' \in Nat
      BY <1>1, <1>8 DEF Pause, Operate
    <2>2. task' \in TaskType /\ task'.status = "paused"
      BY <1>1, <1>2, <2>1 DEF TaskType
    <2>3. /\ (holder' = holder /\ token' = token) \/ Lock!Release({Task})
          /\ holder'[Task] = NoProc
      BY <1>1, <1>8, Freed DEF Pause, Release
    <2> QED BY <1>1, <2>1, <2>2, <2>3, TaskKept
  <1>9. CASE Resume
    <2>1. /\ task' = Scheduled /\ holder[Task] = NoProc
          /\ UNCHANGED <<rows, planned, job, thread, claims, overrun>>
          /\ conf' = conf /\ ops' \in Nat /\ faults' \in Nat
          /\ holder' = holder /\ token' = token
      BY <1>1, <1>9 DEF Resume, Operate
    <2> QED BY <1>1, <1>3, <2>1, TaskKept
  <1> QED BY <1>4, <1>5, <1>6, <1>7, <1>8, <1>9

\* A process leaves its job: it finished, lost its lease or crashed.
LEMMA LeaveKept ==
    ASSUME BatchInv, NEW p \in Procs, Leave(p),
           UNCHANGED <<conf, rows, planned, claims, overrun, ops>>,
           faults' \in Nat, task' \in TaskType,
           \/ Lock!Release({Task})
           \/ ~Owns(p) /\ UNCHANGED <<holder, token>>,
           \/ task' = task
           \/ task'.status # "running" /\ Lock!Release({Task}),
           task'.status = "done" => \A a \in Agents : Whole(a)
    PROVE  BatchInv'
  <1>1. /\ TypeOK /\ LeaseInv /\ Idle \in ThreadType /\ Idle.pc = "idle"
        /\ NoJob \in JobRecords
    BY Parts
  <1>2. /\ job' \in [Procs -> JobRecords]
        /\ \A q \in Procs : q # p => job'[q] = job[q]
        /\ thread' \in [Procs -> [Agents -> ThreadType]]
        /\ \A a \in Agents : thread'[p][a] = Idle
        /\ \A q \in Procs : q # p => thread'[q] = thread[q]
    BY <1>1 DEF Leave, TypeOK, JobRecords
  <1>3. /\ holder' \in [{Task} -> Procs \union {NoProc}]
        /\ token' \in [{Task} -> Nat]
        /\ holder'[Task] = holder[Task] \/ holder'[Task] = NoProc
        /\ Lock!Release({Task}) => holder'[Task] = NoProc
    BY <1>1, Freed DEF LeaseInv
  <1>4. TypeOK'
    BY <1>1, <1>2 DEF TypeOK, TaskType, JobRecords
  <1>5. LeaseInv'
    BY <1>1, <1>3 DEF LeaseInv
  <1>6. \A q \in Procs, a \in Agents :
              \/ /\ thread'[q][a] = thread[q][a]
                 /\ thread[q][a].pc = "idle" \/ job'[q] = job[q]
              \/ /\ Unread(thread'[q][a])
                 /\ thread'[q][a].pc # "idle" =>
                        job'[q].conf \in Confs /\ job'[q].total \in Batches
    BY <1>1, <1>2 DEF Unread
  <1>7. \A q \in Procs : holder'[Task] = q => holder[Task] = q
    BY <1>3, Parts
  <1>8. UNCHANGED <<rows, planned, claims, overrun>>
    OBVIOUS
  <1> QED BY <1>4, <1>5, <1>6, <1>7, <1>8, QuietKept

LEMMA FinishJobKept ==
    ASSUME BatchInv, NEW p \in Procs, FinishJob(p)
    PROVE  BatchInv'
  <1> DEFINE a == First(FailedAgents(p))
             error == thread[p][a].error
  <1>1. /\ task \in TaskType /\ faults \in Nat /\ task.models > 0
        /\ task.status = "running"
    BY Parts DEF FinishJob, Owns, LeaseInv
  <1>2. /\ Over(p) /\ ~JobLost(p) /\ Owns(p) /\ Leave(p)
        /\ Lock!Release({Task}) /\ faults' = faults
        /\ UNCHANGED <<conf, rows, planned, claims, overrun, ops>>
        /\ task' = IF FailedAgents(p) = {} THEN [task EXCEPT !.status = "done"]
                   ELSE IF Usable(p) THEN [task EXCEPT !.status = "partial"]
                   ELSE AfterError(task, a, error)
    BY DEF FinishJob
  <1>3. CASE FailedAgents(p) = {}
    <2>1. task' \in TaskType /\ task'.status = "done"
      BY <1>1, <1>2, <1>3 DEF TaskType, TaskStates
    <2>2. ASSUME NEW c \in Agents PROVE Whole(c)
      <3>1. thread[p][c].pc = "done"
        BY <1>2, <1>3 DEF Over, JobLost, FailedAgents
      <3> QED BY <1>2, <3>1 DEF BatchInv, ThreadInv
    <2>3. ~Owns(p)'
      BY <1>2, Parts, Freed DEF Owns
    <2> QED BY <1>1, <1>2, <2>1, <2>2, <2>3, LeaveKept
  <1>4. CASE FailedAgents(p) # {}
    <2>1. a \in 0..NAgents
      <3>1. FailedAgents(p) \in SUBSET (1..NAgents) /\ NAgents \in Nat
        BY BatchAssumption DEF FailedAgents, Agents
      <3>2. a \in FailedAgents(p)
        BY <1>4, <3>1, FirstIsLeast
      <3> QED BY <3>1, <3>2
    <2> HIDE DEF a, error
    <2>2. /\ [task EXCEPT !.status = "partial"] \in TaskType
          /\ [task EXCEPT !.status = "partial"].status = "partial"
      BY <1>1 DEF TaskType, TaskStates
    <2>3. /\ AfterError(task, a, error) \in TaskType
          /\ AfterError(task, a, error).status \in {"failed", "ready"}
      BY <1>1, <2>1, AfterErrorTyped
    <2>4. task' \in TaskType /\ task'.status \in {"partial", "failed", "ready"}
      BY <1>2, <1>4, <2>2, <2>3
    <2>5. ~Owns(p)'
      BY <1>2, Parts, Freed DEF Owns
    <2> QED BY <1>1, <1>2, <2>4, <2>5, LeaveKept
  <1> QED BY <1>3, <1>4

LEMMA LeftKept ==
    ASSUME BatchInv, NEW p \in Procs, LeaveLost(p) \/ Crash(p)
    PROVE  BatchInv'
  <1>1. /\ task \in TaskType /\ faults \in Nat
        /\ task.status = "done" => \A a \in Agents : Whole(a)
    BY Parts DEF BatchInv, DoneInv
  <1>2. /\ Leave(p) /\ faults' \in Nat /\ task' = task
        /\ UNCHANGED <<conf, rows, planned, claims, overrun, ops>>
        /\ \/ Lock!Release({Task})
           \/ ~Owns(p) /\ UNCHANGED <<holder, token>>
    BY <1>1 DEF LeaveLost, Crash, Fault
  <1>3. task' \in TaskType /\ (task'.status = "done" =>
                                   \A a \in Agents : Whole(a))
    BY <1>1, <1>2
  <1> QED BY <1>2, <1>3, LeaveKept

LEMMA ClaimTaskKept ==
    ASSUME BatchInv, NEW p \in Procs, ClaimTask(p)
    PROVE  BatchInv'
  <1> DEFINE load == [Idle EXCEPT !.pc = "load"]
  <1>1. /\ TypeOK /\ LeaseInv /\ task \in TaskType /\ conf \in Confs
        /\ Idle \in ThreadType /\ NoProc \notin Procs
    BY Parts DEF TypeOK
  <1>2. load \in ThreadType /\ load.pc = "load"
    BY <1>1 DEF ThreadType, Points
  <1>3. PICK n \in Splits[conf] :
            job' = [job EXCEPT ![p] = [conf |-> conf, total |-> n]]
    BY DEF ClaimTask
  <1>4. n \in Batches /\ n \in 0..MaxBatches
    BY <1>1, <1>3, BatchAssumption, Types DEF Batches
  <1> HIDE DEF load
  <1>5. /\ job' \in [Procs -> JobRecords]
        /\ job'[p].conf \in Confs /\ job'[p].total \in Batches
        /\ \A q \in Procs : q # p => job'[q] = job[q]
    BY <1>1, <1>3, <1>4 DEF TypeOK, JobRecords
  <1>6. /\ thread' \in [Procs -> [Agents -> ThreadType]]
        /\ \A a \in Agents : thread'[p][a] = load
        /\ \A q \in Procs : q # p => thread'[q] = thread[q]
    BY <1>1, <1>2 DEF TypeOK, ClaimTask, load
  <1>7. /\ task' \in TaskType /\ task'.status = "running"
        /\ task'.models > 0
    <2>1. /\ task' = [task EXCEPT !.status = "running", !.models = @ + 1]
          /\ task.models \in Nat /\ "running" \in TaskStates
      BY <1>1 DEF ClaimTask, TaskType, TaskStates
    <2>2. task.models + 1 \in Nat /\ task.models + 1 > 0
      BY <2>1
    <2> QED BY <1>1, <2>1, <2>2 DEF TaskType
  <1>8. /\ holder' \in [{Task} -> Procs \union {NoProc}]
        /\ token' \in [{Task} -> Nat]
        /\ holder'[Task] = p /\ holder[Task] = NoProc
    BY <1>1 DEF ClaimTask, Lock!Acquire, LeaseInv
  <1>9. UNCHANGED <<conf, rows, planned, claims, overrun, faults, ops>>
    BY DEF ClaimTask
  <1>10. TypeOK'
    BY <1>1, <1>5, <1>6, <1>7, <1>9 DEF TypeOK, TaskType, JobRecords
  <1>11. LeaseInv'
    BY <1>7, <1>8 DEF LeaseInv
  <1>12. \A q \in Procs, a \in Agents :
              \/ /\ thread'[q][a] = thread[q][a]
                 /\ thread[q][a].pc = "idle" \/ job'[q] = job[q]
              \/ /\ Unread(thread'[q][a])
                 /\ thread'[q][a].pc # "idle" =>
                        job'[q].conf \in Confs /\ job'[q].total \in Batches
    BY <1>2, <1>5, <1>6 DEF Unread
  <1>13. \A q \in Procs : holder'[Task] = q =>
              holder[Task] = q \/ \A a \in Agents : Unread(thread'[q][a])
    BY <1>2, <1>6, <1>8 DEF Unread
  <1> QED BY <1>7, <1>9, <1>10, <1>11, <1>12, <1>13, QuietKept

-----------------------------------------------------------------------------
(* Batches become due, expire or are deleted.                              *)

\* The clock changes a batch that nobody is known to have a request for.
LEMMA ClockKept ==
    ASSUME BatchInv, NEW a \in Agents, NEW b \in Batches, NEW r \in RowType,
           Write(a, b, r), UNCHANGED thread, OnlyRows, claims' = claims,
           faults' \in Nat, r.status = rows[a][b].status,
           r.saved = rows[a][b].saved,
           \/ overrun' = TRUE
           \/ /\ overrun' = overrun
              /\ \A p \in Procs : InRequest(p, a) => overrun
                                     \/ thread[p][a].batch # b
    PROVE  BatchInv'
  <1>1. /\ TypeOK /\ LeaseInv /\ SavedInv /\ RequestInv /\ overrun \in BOOLEAN
    BY DEF BatchInv, TypeOK
  <1>2. /\ rows' \in [Agents -> [Batches -> RowType]]
        /\ rows'[a][b] = r
        /\ \A c \in Agents, d \in Batches :
              c # a \/ d # b => rows'[c][d] = rows[c][d]
    BY <1>1, Written
  <1>3. /\ task' = task /\ planned' = planned /\ job' = job
        /\ holder' = holder /\ token' = token /\ thread' = thread
    BY DEF OnlyRows
  <1>4. \A c \in Agents, d \in Batches :
            /\ rows'[c][d].status = rows[c][d].status
            /\ rows'[c][d].saved = rows[c][d].saved
    BY <1>2
  <1>5. TypeOK'
    <2>1. overrun' \in BOOLEAN
      BY <1>1
    <2> QED BY <1>1, <1>2, <1>3, <2>1 DEF TypeOK, OnlyRows
  <1>6. LeaseInv' /\ JobInv' /\ RequestInv'
    BY <1>1, <1>3 DEF LeaseInv, JobInv, RequestInv, BatchInv
  <1>7. SavedInv'
    BY <1>1, <1>3, <1>4 DEF SavedInv, SavedRow
  <1>8. \A c \in Agents : /\ Known(c)' = Known(c)
                          /\ Succeeded(c)' = Succeeded(c)
                          /\ Whole(c)' <=> Whole(c)
    BY <1>4 DEF Known, Succeeded, InStatus, Whole, Unfinished
  <1>9. ThreadInv' /\ DoneInv'
    <2>1. ThreadInv /\ DoneInv
      BY DEF BatchInv
    <2>2. DoneInv'
      BY <1>3, <1>8, <2>1 DEF DoneInv
    <2>3. ThreadInv'
      BY <1>3, <1>8, <2>1 DEF ThreadInv, Owns
    <2> QED BY <2>2, <2>3
  <1>10. FlightInv'
    <2>1. FlightInv' <=> (~overrun' => \A c \in Agents : Alone(c)')
      BY <1>6 DEF FlightInv, RequestInv, Alone, InRequest, InFlight,
                  LiveRunning, InStatus
    <2>2. ASSUME ~overrun', NEW c \in Agents PROVE Alone(c)'
      <3>1. Alone(c) /\ ~overrun
        BY <1>1, <2>2, FlightAlone DEF BatchInv
      <3>2. \A p \in Procs : InRequest(p, c) =>
                rows'[c][thread[p][c].batch] = rows[c][thread[p][c].batch]
        BY <1>1, <1>2, <2>2, <3>1 DEF RequestInv, InRequest
      <3> QED BY <1>3, <3>1, <3>2 DEF Alone, InRequest
    <2> QED BY <2>1, <2>2
  <1> QED BY <1>5, <1>6, <1>7, <1>9, <1>10 DEF BatchInv

LEMMA ClocksKept ==
    ASSUME BatchInv, NEW a \in Agents, NEW b \in Batches,
           BatchDue(a, b) \/ ExpireBatch(a, b) \/ OverrunBatch(a, b)
    PROVE  BatchInv'
  <1>1. /\ TypeOK /\ rows[a][b] \in RowType /\ faults \in Nat
        /\ ~overrun => Alone(a)
    BY Types, FlightAlone DEF BatchInv, TypeOK
  <1>2. CASE BatchDue(a, b)
    <2> DEFINE r == [rows[a][b] EXCEPT !.due = TRUE]
    <2>1. r \in RowType /\ r.status = rows[a][b].status
          /\ r.saved = rows[a][b].saved
      BY <1>1 DEF RowType
    <2>2. \A p \in Procs : InRequest(p, a) => overrun
                              \/ thread[p][a].batch # b
      BY <1>1, <1>2 DEF BatchDue, Alone
    <2>3. /\ Write(a, b, r) /\ UNCHANGED thread /\ OnlyRows
          /\ claims' = claims /\ overrun' = overrun /\ faults' \in Nat
      BY <1>1, <1>2 DEF BatchDue
    <2> HIDE DEF r
    <2> QED BY <2>1, <2>2, <2>3, ClockKept
  <1>3. CASE ExpireBatch(a, b) \/ OverrunBatch(a, b)
    <2> DEFINE r == [rows[a][b] EXCEPT !.live = FALSE]
    <2>1. r \in RowType /\ r.status = rows[a][b].status
          /\ r.saved = rows[a][b].saved
      BY <1>1 DEF RowType
    <2>2. /\ Write(a, b, r) /\ UNCHANGED thread /\ OnlyRows
          /\ claims' = claims
      BY <1>3 DEF ExpireBatch, OverrunBatch, BatchExpired
    <2>3. faults' \in Nat
      BY <1>1, <1>3 DEF ExpireBatch, OverrunBatch, Fault
    <2>4. \/ overrun' = TRUE
          \/ /\ overrun' = overrun
             /\ \A p \in Procs : InRequest(p, a) => thread[p][a].batch # b
      BY <1>3 DEF ExpireBatch, OverrunBatch, InFlight, InRequest
    <2> HIDE DEF r
    <2> QED BY <2>1, <2>2, <2>3, <2>4, ClockKept
  <1> QED BY <1>2, <1>3

\* An operator deletes or resets batches of a task without an owner.
LEMMA ResetKept ==
    ASSUME BatchInv, holder[Task] = NoProc,
           UNCHANGED <<conf, planned, job, thread, claims, holder, token,
                       faults>>,
           ops' \in Nat, task' \in TaskType, task'.status = "ready",
           rows' \in [Agents -> [Batches -> RowType]],
           \A a \in Agents, b \in Batches : SavedRow(rows'[a][b], planned[a]),
           overrun' \in BOOLEAN, overrun => overrun',
           ~overrun' => \A p \in Procs, a \in Agents : InRequest(p, a) =>
               rows'[a][thread[p][a].batch] = rows[a][thread[p][a].batch]
    PROVE  BatchInv'
  <1>1. /\ TypeOK /\ LeaseInv /\ SavedInv /\ RequestInv /\ overrun \in BOOLEAN
        /\ NoProc \notin Procs
    BY Parts DEF BatchInv, TypeOK
  <1>2. TypeOK'
    BY <1>1 DEF TypeOK, TaskType
  <1>3. LeaseInv' /\ JobInv' /\ RequestInv'
    BY <1>1 DEF LeaseInv, JobInv, RequestInv, BatchInv
  <1>4. SavedInv' /\ DoneInv'
    BY DEF SavedInv, SavedRow, DoneInv
  <1>5. ThreadInv'
    BY <1>1 DEF ThreadInv, Owns
  <1>6. FlightInv'
    <2>1. FlightInv' <=> (~overrun' => \A c \in Agents : Alone(c)')
      BY <1>3 DEF FlightInv, RequestInv, Alone, InRequest, InFlight,
                  LiveRunning, InStatus
    <2>2. ASSUME ~overrun', NEW c \in Agents PROVE Alone(c)'
      <3>1. Alone(c)
        BY <1>1, <2>2, FlightAlone DEF BatchInv
      <3>2. \A p \in Procs : InRequest(p, c) =>
                rows'[c][thread[p][c].batch] = rows[c][thread[p][c].batch]
        BY <2>2
      <3> QED BY <3>1, <3>2 DEF Alone, InRequest
    <2> QED BY <2>1, <2>2
  <1> QED BY <1>2, <1>3, <1>4, <1>5, <1>6 DEF BatchInv

LEMMA RetriesKept ==
    ASSUME BatchInv, Retry \/ RetryStage
    PROVE  BatchInv'
  <1>1. /\ task \in TaskType /\ TypeOK /\ LeaseInv /\ ops + 1 \in Nat
        /\ NoRow \in RowType /\ NoProc \notin Procs /\ overrun \in BOOLEAN
    BY Parts DEF NoRow, RowType, RowStates, TypeOK
  <1>2. 0 \in 0..NAgents /\ "ready" \in TaskStates
    BY BatchAssumption DEF TaskStates
  <1>3. /\ Scheduled \in TaskType /\ Scheduled.status = "ready"
        /\ [Scheduled EXCEPT !.models = 0] \in TaskType
        /\ [Scheduled EXCEPT !.models = 0].status = "ready"
    BY <1>1, <1>2 DEF Scheduled, TaskType
  <1>4. /\ task' \in TaskType /\ task'.status = "ready" /\ DeleteBatches
        /\ task.status # "running" /\ ops' \in Nat
        /\ UNCHANGED <<conf, planned, job, thread, claims, holder, token,
                       faults>>
    BY <1>1, <1>3 DEF Retry, RetryStage, Operate
  <1>5. holder[Task] = NoProc
    BY <1>1, <1>4 DEF LeaseInv
  <1>6. /\ rows' \in [Agents -> [Batches -> RowType]]
        /\ \A a \in Agents, b \in Batches : rows'[a][b] = NoRow
    BY <1>1, <1>4 DEF DeleteBatches
  <1>7. \A a \in Agents, b \in Batches : SavedRow(rows'[a][b], planned[a])
    BY <1>6 DEF NoRow, SavedRow
  <1>8. overrun' \in BOOLEAN /\ (overrun => overrun')
    BY <1>1, <1>4 DEF DeleteBatches
  <1>9. ASSUME ~overrun', NEW p \in Procs, NEW a \in Agents, InRequest(p, a)
        PROVE  FALSE
    <2>1. thread[p][a].batch \in Batches /\ ~overrun
      BY <1>8, <1>9 DEF BatchInv, RequestInv, InRequest
    <2>2. /\ thread[p][a].batch \in LiveRunning(a)
          /\ p \in InFlight(a, thread[p][a].batch)
      BY <1>9, <2>1 DEF BatchInv, FlightInv, InFlight, InRequest
    <2> QED BY <1>4, <1>9, <2>1, <2>2 DEF DeleteBatches
  <1> QED BY <1>4, <1>5, <1>6, <1>7, <1>8, <1>9, ResetKept

LEMMA RetryFailedNodeKept ==
    ASSUME BatchInv, NEW S \in SUBSET Agents, NEW B \in SUBSET Batches,
           RetryFailedNode(S, B)
    PROVE  BatchInv'
  <1> DEFINE selected(a) == IF a \in S THEN Unfinished(a) \intersect B ELSE {}
             targets == IF S = Agents THEN {a \in S : selected(a) # {}} ELSE S
             restarted == {a \in targets : Restarts(a)}
  <1>1. /\ task \in TaskType /\ TypeOK /\ LeaseInv /\ ops + 1 \in Nat
        /\ NoRow \in RowType /\ overrun \in BOOLEAN /\ SavedInv
    BY Parts DEF NoRow, RowType, RowStates, TypeOK, BatchInv
  <1>2. Scheduled \in TaskType /\ Scheduled.status = "ready"
    <2>1. 0 \in 0..NAgents /\ "ready" \in TaskStates
      BY BatchAssumption DEF TaskStates
    <2> QED BY <1>1, <2>1 DEF Scheduled, TaskType
  <1>3. /\ holder[Task] = NoProc /\ task' = Scheduled /\ ops' \in Nat
        /\ overrun' = overrun
        /\ UNCHANGED <<conf, planned, job, thread, claims, holder, token,
                       faults>>
        /\ \A a \in Agents :
              LiveRunning(a) \intersect
                  (IF a \in restarted THEN Batches ELSE selected(a)) = {}
        /\ rows' = [a \in Agents |-> [b \in Batches |->
                      IF a \in restarted THEN NoRow
                      ELSE IF b \in selected(a)
                      THEN [Pending EXCEPT !.saved = rows[a][b].saved]
                      ELSE rows[a][b]]]
    BY <1>1 DEF RetryFailedNode, Operate
  <1> HIDE DEF selected, restarted
  <1>4. ASSUME NEW a \in Agents, NEW b \in Batches
        PROVE  LET r == [Pending EXCEPT !.saved = rows[a][b].saved]
               IN  r \in RowType /\ SavedRow(r, planned[a])
    <2>1. rows[a][b] \in RowType /\ SavedRow(rows[a][b], planned[a])
      BY <1>1, Types DEF SavedInv
    <2> QED BY <2>1 DEF SavedRow, Pending, NoRow, RowType, RowStates
  <1>5. \A a \in Agents, b \in Batches :
            /\ rows'[a][b] \in RowType
            /\ SavedRow(rows'[a][b], planned[a])
    <2> SUFFICES ASSUME NEW a \in Agents, NEW b \in Batches
                 PROVE  /\ rows'[a][b] \in RowType
                        /\ SavedRow(rows'[a][b], planned[a])
      OBVIOUS
    <2>1. /\ rows[a][b] \in RowType /\ SavedRow(rows[a][b], planned[a])
          /\ SavedRow(NoRow, planned[a])
      BY <1>1, Types DEF SavedInv, SavedRow, NoRow
    <2>2. \/ rows'[a][b] = NoRow
          \/ rows'[a][b] = rows[a][b]
          \/ rows'[a][b] = [Pending EXCEPT !.saved = rows[a][b].saved]
      BY <1>3
    <2> QED BY <1>1, <1>4, <2>1, <2>2
  <1>6. rows' \in [Agents -> [Batches -> RowType]]
    BY <1>3, <1>5
  <1>7. ASSUME ~overrun, NEW p \in Procs, NEW a \in Agents, InRequest(p, a)
        PROVE  rows'[a][thread[p][a].batch] = rows[a][thread[p][a].batch]
    <2> DEFINE b == thread[p][a].batch
    <2>1. b \in Batches /\ b \in LiveRunning(a)
      BY <1>7 DEF BatchInv, RequestInv, FlightInv, InRequest
    <2> HIDE DEF b
    <2>2. a \notin restarted /\ b \notin selected(a)
      BY <1>3, <2>1
    <2>3. rows'[a][b] = rows[a][b]
      BY <1>3, <2>1, <2>2
    <2> QED BY <2>3 DEF b
  <1> QED BY <1>1, <1>2, <1>3, <1>5, <1>6, <1>7, ResetKept

-----------------------------------------------------------------------------
(* Every step keeps the invariant.                                         *)

LEMMA ThreadKept ==
    ASSUME BatchInv, NEW p \in Procs, NEW a \in Agents, Thread(p, a)
    PROVE  BatchInv'
  <1>1. CASE Restore(p, a) \/ RefuseMixture(p, a) \/ Answered(p, a)
                \/ Refuse(p, a)
    BY <1>1, EndsKept
  <1>2. CASE Plan(p, a)
    BY <1>2, PlanKept
  <1>3. CASE Ensure(p, a)
    BY <1>3, EnsureKept
  <1>4. CASE ClaimBatch(p, a)
    BY <1>4, ClaimBatchKept
  <1>5. CASE Complete(p, a)
    BY <1>5, CompleteKept
  <1>6. CASE Checkpoint(p, a)
    BY <1>6, CheckpointKept
  <1>7. CASE \E kind \in {"retryable", "fatal"} :
                FailBatch(p, a, kind) \/ FailUnsaved(p, a, kind)
    BY <1>7, FailBatchKept, EndsKept
  <1>8. CASE Lose(p, a)
    BY <1>8, LoseKept
  <1> QED BY <1>1, <1>2, <1>3, <1>4, <1>5, <1>6, <1>7, <1>8 DEF Thread

LEMMA OperatorKept ==
    ASSUME BatchInv, Operator
    PROVE  BatchInv'
  <1>1. CASE (\E c \in Confs : Configure(c)) \/ Pause \/ Resume
    BY <1>1, TasksKept
  <1>2. CASE Retry \/ RetryStage
    BY <1>2, RetriesKept
  <1>3. CASE RetryAll
    BY <1>3, RetryFailedNodeKept DEF RetryAll
  <1>4. ASSUME NEW a \in Agents, RetryAgent(a)
        PROVE  BatchInv'
    BY <1>4, RetryFailedNodeKept DEF RetryAgent
  <1>5. ASSUME NEW a \in Agents, NEW b \in Batches, RetryBatch(a, b)
        PROVE  BatchInv'
    BY <1>5, RetryFailedNodeKept DEF RetryBatch
  <1> QED BY <1>1, <1>2, <1>3, <1>4, <1>5 DEF Operator

LEMMA NextKept == BatchInv /\ [Next]_vars => BatchInv'
  <1> SUFFICES ASSUME BatchInv, [Next]_vars PROVE BatchInv'
    OBVIOUS
  <1>1. CASE UNCHANGED vars
    BY <1>1
       DEF vars, BatchInv, TypeOK, LeaseInv, JobInv, SavedInv, SavedRow,
           ThreadInv, DoneInv, RequestInv, FlightInv, Owns, Known, Whole,
           Unfinished, Succeeded, InStatus, InFlight, LiveRunning
  <1>2. ASSUME NEW p \in Procs,
               \/ ClaimTask(p) \/ Finish(p) \/ Crash(p) \/ MissRenewal(p)
               \/ \E a \in Agents : Thread(p, a)
        PROVE  BatchInv'
    BY <1>2, ClaimTaskKept, FinishJobKept, LeftKept, TasksKept, ThreadKept
       DEF Finish
  <1>3. CASE Recover \/ BecomeDue
    BY <1>3, TasksKept
  <1>4. CASE \E a \in Agents, b \in Batches :
                BatchDue(a, b) \/ ExpireBatch(a, b) \/ OverrunBatch(a, b)
    BY <1>4, ClocksKept
  <1>5. CASE Operator
    BY <1>5, OperatorKept
  <1> QED BY <1>1, <1>2, <1>3, <1>4, <1>5 DEF Next

\* In every reachable state the invariant holds: the lease of the task orders
\* all writes to its batches.
THEOREM BatchInvariant == Spec => []BatchInv
  BY InitBatch, NextKept, PTL DEF Spec

-----------------------------------------------------------------------------
(* What it means for the review.                                           *)

\* The review's scheduling state, its batches, jobs and threads keep their
\* types, whatever the numbers of agents, batches and processes.
THEOREM TypesHold == Spec => []TypeOK
  <1>1. BatchInv => TypeOK
    BY DEF BatchInv
  <1> QED BY <1>1, BatchInvariant, PTL

\* A finished review has the answer of every batch of every agent, each agent's
\* from one configuration, and what is stored of an unfinished one is of the
\* configuration it was planned with: however often operators change the
\* configuration and retry, and however often processes crash or lose the task.
THEOREM AnswersOfOneConfiguration == Spec => []AnswersBelong
  <1>1. BatchInv => AnswersBelong
    <2> SUFFICES ASSUME BatchInv PROVE WholeReview /\ SavedMatchesPlanned
      BY DEF AnswersBelong
    <2>1. SavedMatchesPlanned
      BY DEF SavedMatchesPlanned, BatchInv, SavedInv, SavedRow
    <2>2. ASSUME task.status = "done", NEW a \in Agents
          PROVE  /\ Whole(a)
                 /\ \A b, c \in Known(a) : rows[a][b].saved = rows[a][c].saved
      <3>1. Whole(a)
        BY <2>2 DEF BatchInv, DoneInv
      <3>2. ASSUME NEW b \in Known(a)
            PROVE  rows[a][b].saved = planned[a]
        <4>1. b \in Batches /\ rows[a][b].status = "succeeded"
          BY <3>1 DEF Whole, Unfinished, Known, Succeeded, InStatus
        <4> QED BY <4>1 DEF BatchInv, SavedInv, SavedRow
      <3> QED BY <3>1, <3>2
    <2> QED BY <2>1, <2>2 DEF WholeReview
  <1> QED BY <1>1, BatchInvariant, PTL

\* Unless a batch's lease ran out under its request or a retry deleted it,
\* claim_model_batch never lets two processes ask for the same batch.
THEOREM RequestedOnce == Spec => []OneRequest
  <1>1. BatchInv => OneRequest
    <2> SUFFICES ASSUME BatchInv, ~overrun, NEW a \in Agents,
                        NEW b \in Batches, NEW p \in InFlight(a, b),
                        NEW q \in InFlight(a, b)
                 PROVE  p = q
      BY DEF OneRequest
    <2>1. /\ p \in Procs /\ thread[p][a].pc = "request"
          /\ thread[p][a].batch = b
      BY DEF InFlight
    <2> QED BY <2>1 DEF BatchInv, FlightInv
  <1> QED BY <1>1, BatchInvariant, PTL

\* How a step changes one batch.
RowStep(a, b) ==
    LET old == rows[a][b].status
        new == rows'[a][b].status
    IN
    \/ rows'[a][b] = rows[a][b]
    \/ ops' > ops /\ new # "succeeded"
    \/ old # "succeeded" /\ new # "succeeded"
    \/ /\ old # "succeeded"
       /\ \E p \in Procs : /\ Owns(p) /\ thread[p][a].pc = "request"
                           /\ thread[p][a].batch = b
                           /\ thread'[p][a].pc # "request"

\* A write to one batch, as the others see it.
LEMMA WriteStep ==
    ASSUME TypeOK, NEW c \in Agents, NEW d \in Batches, NEW r,
           Write(c, d, r), NEW a \in Agents, NEW b \in Batches,
           a = c /\ b = d => /\ rows[a][b].status # "succeeded"
                             /\ r.status # "succeeded"
    PROVE  RowStep(a, b)
  <1>1. CASE a = c /\ b = d
    <2>1. rows'[a][b] = r
      BY <1>1 DEF TypeOK, Write
    <2> QED BY <1>1, <2>1 DEF RowStep
  <1>2. CASE ~(a = c /\ b = d)
    <2>1. rows'[a][b] = rows[a][b]
      BY <1>2 DEF TypeOK, Write
    <2> QED BY <2>1 DEF RowStep
  <1> QED BY <1>1, <1>2

LEMMA ThreadWrites ==
    ASSUME BatchInv, NEW p \in Procs, NEW c \in Agents, Thread(p, c),
           NEW a \in Agents, NEW b \in Batches
    PROVE  RowStep(a, b)
  <1>1. TypeOK /\ rows \in [Agents -> [Batches -> RowType]]
    BY DEF BatchInv, TypeOK
  <1>2. CASE UNCHANGED rows
    BY <1>2 DEF RowStep
  <1>3. CASE Ensure(p, c)
    <2>1. CASE a = c /\ rows' # rows
      <3>1. /\ rows' = [rows EXCEPT ![c] = Defined(job[p].total)]
            /\ Succeeded(c) = {}
        BY <1>3, <2>1 DEF Ensure
      <3>2. rows'[a][b] = Defined(job[p].total)[b]
        BY <1>1, <2>1, <3>1
      <3>3. rows'[a][b].status # "succeeded"
        BY <3>2 DEF Defined, Pending, NoRow
      <3>4. rows[a][b].status # "succeeded"
        BY <2>1, <3>1 DEF Succeeded, InStatus
      <3> QED BY <3>3, <3>4 DEF RowStep
    <2>2. CASE a # c
      <3>1. rows'[a] = rows[a]
        BY <1>1, <1>3, <2>2 DEF Ensure
      <3> QED BY <3>1 DEF RowStep
    <2> QED BY <1>2, <2>1, <2>2
  <1>4. CASE ClaimBatch(p, c)
    <2> DEFINE d == First(Unfinished(c))
               r == [rows[c][d] EXCEPT !.status = "running", !.live = TRUE,
                                       !.attempts = @ + 1]
    <2>1. Write(c, d, r) /\ Unfinished(c) # {}
      BY <1>4 DEF ClaimBatch
    <2>2. d \in Batches /\ rows[c][d].status # "succeeded"
      BY <2>1, NextBatch
    <2> HIDE DEF d
    <2>3. r.status # "succeeded"
      <3>1. rows[c][d] \in RowType
        BY <1>1, <2>2
      <3> QED BY <3>1, RowClaimed
    <2> HIDE DEF r
    <2> QED BY <1>1, <2>1, <2>2, <2>3, WriteStep
  <1>5. CASE Complete(p, c)
    <2> DEFINE d == thread[p][c].batch
               r == [rows[c][d] EXCEPT !.status = "succeeded", !.live = FALSE,
                                       !.saved = job[p].conf]
    <2>1. /\ Write(c, d, r) /\ Works(p, c, "request") /\ StillClaimed(p, c)
          /\ Step(p, c, At(p, c, "scan"))
      BY <1>5 DEF Complete
    <2>2. /\ d \in Batches /\ Owns(p) /\ thread[p][c].pc = "request"
          /\ rows[c][d].status # "succeeded"
      BY <2>1, WorksFacts DEF StillClaimed
    <2>3. thread'[p][c].pc # "request"
      <3>1. At(p, c, "scan") \in ThreadType /\ At(p, c, "scan").pc = "scan"
        BY <1>1, Threads DEF Points
      <3> QED BY <1>1, <2>1, <3>1, BatchStepped
    <2>4. CASE a = c /\ b = d
      BY <2>2, <2>3, <2>4 DEF RowStep
    <2> HIDE DEF d, r
    <2>5. CASE ~(a = c /\ b = d)
      <3>1. rows'[a][b] = rows[a][b]
        BY <1>1, <2>1, <2>5 DEF Write
      <3> QED BY <3>1 DEF RowStep
    <2> QED BY <2>4, <2>5
  <1>6. CASE Checkpoint(p, c)
    <2> DEFINE d == thread[p][c].batch
               r == [rows[c][d] EXCEPT !.saved = job[p].conf]
    <2>1. Write(c, d, r) /\ Works(p, c, "request") /\ StillClaimed(p, c)
      BY <1>6 DEF Checkpoint
    <2>2. d \in Batches /\ rows[c][d].status = "running"
      BY <2>1, WorksFacts DEF StillClaimed
    <2> HIDE DEF d
    <2>3. r.status # "succeeded"
      BY <1>1, <2>2 DEF RowType
    <2> HIDE DEF r
    <2> QED BY <1>1, <2>1, <2>2, <2>3, WriteStep
  <1>7. ASSUME NEW kind, FailBatch(p, c, kind)
        PROVE  RowStep(a, b)
    <2> DEFINE d == thread[p][c].batch
               r == [rows[c][d] EXCEPT !.status = "failed", !.live = FALSE,
                                       !.due = FALSE]
    <2>1. Write(c, d, r) /\ Works(p, c, "request") /\ StillClaimed(p, c)
      BY <1>7 DEF FailBatch
    <2>2. d \in Batches /\ rows[c][d].status # "succeeded"
      BY <2>1, WorksFacts DEF StillClaimed
    <2> HIDE DEF d
    <2>3. r.status # "succeeded"
      BY <1>1, <2>2 DEF RowType
    <2> HIDE DEF r
    <2> QED BY <1>1, <2>1, <2>2, <2>3, WriteStep
  <1>8. ASSUME NEW kind, FailUnsaved(p, c, kind)
        PROVE  UNCHANGED rows
    BY <1>8 DEF FailUnsaved
  <1>9. Restore(p, c) \/ RefuseMixture(p, c) \/ Plan(p, c) \/ Answered(p, c)
            \/ Refuse(p, c) \/ Lose(p, c) => UNCHANGED rows
    BY DEF Restore, RefuseMixture, Plan, Answered, Refuse, Lose
  <1> QED BY <1>2, <1>3, <1>4, <1>5, <1>6, <1>7, <1>8, <1>9 DEF Thread

LEMMA OperatorWrites ==
    ASSUME BatchInv, Operator, NEW a \in Agents, NEW b \in Batches
    PROVE  RowStep(a, b)
  <1>1. ops \in Nat /\ ops + 1 > ops
    BY DEF BatchInv, TypeOK
  <1>2. ASSUME UNCHANGED rows PROVE RowStep(a, b)
    BY <1>2 DEF RowStep
  <1>3. CASE Retry \/ RetryStage
    <2>1. rows'[a][b] = NoRow /\ ops' > ops
      BY <1>1, <1>3 DEF Retry, RetryStage, DeleteBatches, Operate
    <2> QED BY <2>1 DEF RowStep, NoRow
  <1>4. ASSUME NEW S, NEW B, RetryFailedNode(S, B)
        PROVE  RowStep(a, b)
    <2>1. ops' > ops
      BY <1>1, <1>4 DEF RetryFailedNode, Operate
    <2>2. \/ rows'[a][b] = NoRow
          \/ rows'[a][b] = rows[a][b]
          \/ rows'[a][b] = [Pending EXCEPT !.saved = rows[a][b].saved]
      <3> DEFINE selected(c) ==
                     IF c \in S THEN Unfinished(c) \intersect B ELSE {}
                 targets == IF S = Agents THEN {c \in S : selected(c) # {}}
                            ELSE S
                 restarted == {c \in targets : Restarts(c)}
      <3>1. rows' = [c \in Agents |-> [d \in Batches |->
                      IF c \in restarted THEN NoRow
                      ELSE IF d \in selected(c)
                      THEN [Pending EXCEPT !.saved = rows[c][d].saved]
                      ELSE rows[c][d]]]
        BY <1>4 DEF RetryFailedNode
      <3> HIDE DEF selected, restarted
      <3> QED BY <3>1
    <2>3. /\ NoRow.status # "succeeded"
          /\ [Pending EXCEPT !.saved = rows[a][b].saved].status # "succeeded"
      BY DEF NoRow, Pending
    <2>4. rows'[a][b] = rows[a][b] \/ rows'[a][b].status # "succeeded"
      BY <2>2, <2>3
    <2> QED BY <2>1, <2>4 DEF RowStep
  <1>5. (\E c \in Confs : Configure(c)) \/ Pause \/ Resume => UNCHANGED rows
    BY DEF Configure, Pause, Resume
  <1> QED BY <1>2, <1>3, <1>4, <1>5
          DEF Operator, RetryAll, RetryAgent, RetryBatch

LEMMA RowSteps ==
    ASSUME BatchInv, [Next]_vars, NEW a \in Agents, NEW b \in Batches
    PROVE  RowStep(a, b)
  <1>1. ASSUME UNCHANGED rows PROVE RowStep(a, b)
    BY <1>1 DEF RowStep
  <1>2. ASSUME NEW p \in Procs, ClaimTask(p) \/ Finish(p) \/ Crash(p)
                                    \/ MissRenewal(p)
        PROVE  UNCHANGED rows
    BY <1>2 DEF ClaimTask, Finish, FinishJob, LeaveLost, Crash, MissRenewal
  <1>3. UNCHANGED vars \/ Recover \/ BecomeDue => UNCHANGED rows
    BY DEF vars, Recover, BecomeDue
  <1>4. ASSUME NEW c \in Agents, NEW d \in Batches,
               BatchDue(c, d) \/ ExpireBatch(c, d) \/ OverrunBatch(c, d)
        PROVE  RowStep(a, b)
    <2>1. TypeOK /\ rows[c][d] \in RowType
      BY Types DEF BatchInv
    <2> DEFINE due == [rows[c][d] EXCEPT !.due = TRUE]
               over == [rows[c][d] EXCEPT !.live = FALSE]
    <2>2. /\ Write(c, d, due) \/ Write(c, d, over)
          /\ rows[c][d].status # "succeeded"
      BY <1>4 DEF BatchDue, ExpireBatch, OverrunBatch, BatchExpired,
                  LiveRunning, InStatus
    <2>3. due.status # "succeeded" /\ over.status # "succeeded"
      BY <2>1, <2>2 DEF RowType
    <2> HIDE DEF due, over
    <2> QED BY <2>1, <2>2, <2>3, WriteStep
  <1> QED BY <1>1, <1>2, <1>3, <1>4, ThreadWrites, OperatorWrites DEF Next

\* No retry, take-over or new plan of a worker loses what a model has answered,
\* and a late answer of an earlier claim is dropped: complete_model_batch
\* stores the answer to the batch's latest claim only.
THEOREM StoredAnswersStay == Spec => AnswersKept
  <1> DEFINE Kept == \A a \in Agents : \A b \in Succeeded(a) :
                         rows'[a][b] # rows[a][b] => ops' > ops
             Latest == \A a \in Agents, b \in Batches :
                 rows[a][b].status # "succeeded"
                     /\ rows'[a][b].status = "succeeded"
                 => \E p \in InFlight(a, b) :
                       /\ thread[p][a].claim = claims[a][b]
                       /\ thread'[p][a].pc # "request"
  <1>1. BatchInv /\ [Next]_vars => Kept
    <2> SUFFICES ASSUME BatchInv, [Next]_vars, NEW a \in Agents,
                        NEW b \in Succeeded(a), rows'[a][b] # rows[a][b]
                 PROVE  ops' > ops
      OBVIOUS
    <2>1. b \in Batches /\ rows[a][b].status = "succeeded"
      BY DEF Succeeded, InStatus
    <2>2. RowStep(a, b)
      BY <2>1, RowSteps
    <2> QED BY <2>1, <2>2 DEF RowStep
  <1>2. BatchInv /\ [Next]_vars => Latest
    <2> SUFFICES ASSUME BatchInv, [Next]_vars, NEW a \in Agents,
                        NEW b \in Batches, rows[a][b].status # "succeeded",
                        rows'[a][b].status = "succeeded"
                 PROVE  \E p \in InFlight(a, b) :
                           /\ thread[p][a].claim = claims[a][b]
                           /\ thread'[p][a].pc # "request"
      OBVIOUS
    <2>1. RowStep(a, b)
      BY RowSteps
    <2>2. PICK p \in Procs : /\ Owns(p) /\ thread[p][a].pc = "request"
                             /\ thread[p][a].batch = b
                             /\ thread'[p][a].pc # "request"
      BY <2>1 DEF RowStep
    <2>3. p \in InFlight(a, b)
      BY <2>2 DEF InFlight
    <2>4. thread[p][a].claim = claims[a][b]
      BY <2>2 DEF BatchInv, ThreadInv
    <2> QED BY <2>2, <2>3, <2>4
  <1>3. Kept => [Kept]_vars
    OBVIOUS
  <1> QED BY <1>1, <1>2, BatchInvariant, PTL
          DEF Spec, AnswersKept, ResultsKept, AnswerOfLatestClaim

\* RETRY_FAILED_NODE leaves no unfinished agent with an answer or checkpoint of
\* another configuration: what retry_impacts promises the operator.
THEOREM RetriesCure == Spec => RetryCures
  <1> DEFINE Cured == RetryAll => \A a \in Agents : ~Whole(a)' =>
                          \A b \in Batches : rows'[a][b].saved \in {0, conf}
  <1>1. BatchInv /\ [Next]_vars => Cured
    <2> SUFFICES ASSUME BatchInv, RetryAll, NEW a \in Agents, ~Whole(a)',
                        NEW b \in Batches
                 PROVE  rows'[a][b].saved \in {0, conf}
      OBVIOUS
    <2> DEFINE restarted == a \in Agents /\ Unfinished(a) # {} /\ Restarts(a)
    <2>1. SavedRow(rows[a][b], planned[a])
      BY DEF BatchInv, SavedInv
    <2>2. \A d \in Batches : rows'[a][d] =
              IF restarted THEN NoRow
              ELSE IF d \in Unfinished(a)
              THEN [Pending EXCEPT !.saved = rows[a][d].saved]
              ELSE rows[a][d]
      <3>1. \A c \in Agents : (IF c \in Agents
                               THEN Unfinished(c) \intersect Batches
                               ELSE {}) = Unfinished(c)
        BY DEF Unfinished, Known
      <3> QED BY <3>1 DEF RetryAll, RetryFailedNode
    <2>3. CASE restarted
      BY <2>2, <2>3 DEF NoRow
    <2>4. CASE ~restarted /\ Unfinished(a) # {}
      <3>1. planned[a] \in {0, conf}
        BY <2>4 DEF Restarts
      <3>2. rows'[a][b].saved = rows[a][b].saved
        BY <2>2, <2>4 DEF Pending, NoRow
      <3> QED BY <2>1, <3>1, <3>2 DEF SavedRow
    <2>5. CASE Unfinished(a) = {}
      <3>1. \A d \in Batches : rows'[a][d] = rows[a][d]
        BY <2>2, <2>5
      <3>2. ~Whole(a)
        <4>1. Whole(a) => Whole(a)'
          BY <3>1 DEF Whole, Known, Unfinished, Succeeded, InStatus
        <4> QED BY <4>1
      <3>3. rows[a][b].status = "absent"
        BY <2>5, <3>2 DEF Whole, Known
      <3> QED BY <2>1, <3>1, <3>3 DEF SavedRow
    <2> QED BY <2>3, <2>4, <2>5
  <1> QED BY <1>1, BatchInvariant, PTL DEF Spec, RetryCures

-----------------------------------------------------------------------------
(* The heartbeat: one process, seen alone.                                 *)

WorkerPoints ==
    {"new", "start", "insert", "loop", "idle", "claim", "busy", "work", "stopping_beat", "index",
     "indexing", "joining", "rest", "shutdown", "closing", "dead"}

WorkerRow ==
    [pc : WorkerPoints, role : Roles, task : Claimed \cup {None}, stop : BOOLEAN, lost : BOOLEAN,
     lingering : SUBSET Nat, hung : BOOLEAN]

BeatRow ==
    [kind : {"task", "index"}, task : Claimed \cup {None}, pc : {"wait", "write", "renew", "dead"},
     stop : BOOLEAN]

Early == {"new", "start", "insert"}
Beating == {"work", "indexing", "stopping_beat", "joining"}

\* The row r is process p's.
IsOf(r, p) == r # None /\ r.instance_id = p

LiveBeats(bs) == {i \in DOMAIN bs : bs[i].pc # "dead"}

\* A thread that is not forgotten is the one of the work under way, or the
\* one whose end was not waited for, unless the worker gave up on it.
Watched(w, bs) ==
    /\ w.pc \in Early => bs = <<>>
    /\ w.pc \notin {"loop", "shutdown", "closing", "dead"} => w.lingering = {}
    /\ \A i, j \in w.lingering : i = j
    /\ \A i \in LiveBeats(bs) :
         w.hung \/ i \in w.lingering \/ (w.pc \in Beating /\ i = Len(bs))

\* The main program's last word was busy with the task of each running thread.
Telling(p, w, bs, s, r) ==
    \/ w.hung
    \/ /\ IsOf(r, p) => r = s
       /\ \A i \in LiveBeats(bs) : s = Heart!Content(p, "busy", bs[i].task)

\* A process that claimed after it was replaced never passes a heartbeat again.
Replaced(p, w, n, r) ==
    /\ n \in {0, 1}
    /\ n = 1 => /\ ~IsOf(r, p)
                /\ w.pc \notin Early \cup Beating \cup {"claim"}

Sound(p, w, bs, s, n, r) ==
    /\ w \in WorkerRow
    /\ bs \in Seq(BeatRow)
    /\ Watched(w, bs)
    /\ Telling(p, w, bs, s, r)
    /\ Replaced(p, w, n, r)

\* The inductive invariant of a worker id.
HeartInv ==
    /\ worker = [p \in Starts |-> worker[p]]
    /\ beats = [p \in Starts |-> beats[p]]
    /\ said = [p \in Starts |-> said[p]]
    /\ late = [p \in Starts |-> late[p]]
    /\ \A p \in Starts : Sound(p, worker[p], beats[p], said[p], late[p], heartbeat)
    /\ heartbeat # None => heartbeat.instance_id \in Starts

-----------------------------------------------------------------------------
(* The index: rows, links, vectors, and who holds what.                    *)

IndexRow ==
    [status : {"queued", "building", "ready", "failed"}, owner : Builders \cup {None}, left : Nat,
     lexical : BOOLEAN, vstatus : {"pending", "ready", "paused", "limited", "failed"},
     count : Nat, include : BOOLEAN, op : Nat, failures : Nat, prep : Nat]

\* The next chunk of a set, the first one of all of them.
Nexts == {Index!Least(S) : S \in (SUBSET (1..Chunks)) \ {{}}}

Vectored == {"pending", "ready", "paused", "limited", "failed"}

BuilderPoints ==
    {"idle", "begin", "load", "reset", "store", "link", "embed", "miss", "acquired", "asking",
     "link one", "close"}

BuilderRow ==
    [pc : BuilderPoints, index : Configs \cup {None}, include : BOOLEAN, op : Nat, failures : Nat,
     paused : BOOLEAN, chunk : Nexts \cup {0}, count : Nat, vstatus : Vectored \cup {None},
     again : BOOLEAN, delay : Nat]

ReviewerPoints == {"idle", "prepare", "save", "done", "refused"}
ReviewerRow == [pc : ReviewerPoints, index : Configs \cup {None}, full : BOOLEAN, next : Nat]

LaneRow == [owner : Builders \cup {None}, left : Nat, failures : Nat, blocked : Nat]
Links == [1..Chunks -> {"none", "bare", "vector"}]

IndexTyped ==
    /\ settings \in [config : Configs, mode : Index!Modes]
    /\ indexes \in [Configs -> IndexRow \cup {None}]
    /\ links \in [Configs -> Links]
    /\ lane \in LaneRow
    /\ builder \in [Builders -> BuilderRow]
    /\ \A b \in Builders : builder[b].pc = "close" => builder[b].vstatus \in Vectored

\* The chunks of an index in one state.
Chunked(link, state) == {k \in 1..Chunks : link[k] = state}

\* What a row says of its links; an index without a row has none.
RowTrue(c, row, link, stock) ==
    /\ \A k \in Chunked(link, "vector") : <<c, k>> \in stock
    /\ row = None => link = Index!NoLinks
    /\ row # None =>
         /\ row.lexical => Chunked(link, "none") = {}
         /\ ~row.lexical => Chunked(link, "vector") = {}
         /\ row.vstatus = "ready" => Chunked(link, "vector") = 1..Chunks
         /\ row.count = Cardinality(Chunked(link, "vector"))

\* The builder h holds the lease of the row.
Holds(b, row) == row # None /\ row.owner = b /\ row.status = "building" /\ row.left > 0

Filling == {"load", "reset", "store"}
Counting == {"embed", "miss", "acquired", "asking", "link one", "close"}

\* What a builder that holds its index knows of it.
Knows(h, row, link) ==
    /\ h.pc \in Filling => ~row.lexical
    /\ h.pc \in Counting \cup {"link"} => row.lexical
    /\ h.pc \in Counting => h.count = Cardinality(Chunked(link, "vector"))

\* The vectors are complete when a round says so.
Closing(h) == h.pc = "close" /\ h.vstatus = "ready" => h.count = Chunks

RowsTrue == \A c \in Configs : RowTrue(c, indexes[c], links[c], vectors)

BuildersKnow ==
    \A b \in Builders :
        /\ Closing(builder[b])
        /\ \A c \in Configs :
              builder[b].index = c /\ Holds(b, indexes[c]) => Knows(builder[b], indexes[c], links[c])

\* A request is under way only in the lane, for a vector that is not stored.
LaneHeld ==
    /\ \A b \in Builders :
         /\ builder[b].pc \in {"acquired", "asking"} => lane.owner = b /\ lane.left > 0
         /\ builder[b].pc = "asking" => <<builder[b].index, builder[b].chunk>> \notin vectors
    /\ twice = {}

\* The rows, their links, and what the builders know of them.
CellsInv == IndexTyped /\ RowsTrue /\ BuildersKnow

\* Requests are counted up to the limit of their operation.
UsedInv ==
    /\ used \in [Configs -> [Index!Ops -> Nat]]
    /\ \A c \in Configs, o \in Index!Ops : used[c][o] <= RequestLimit

\* Contexts are saved in the agents' order, each with its predecessors' index.
ContextInv ==
    /\ settings \in [config : Configs, mode : Index!Modes]
    /\ traces \in [1..Readers -> Configs \cup {None}]
    /\ reviewer \in [Reviewers -> ReviewerRow]
    /\ \A a \in 1..Readers : traces[a] # None => \A d \in 1..a : traces[d] = traces[a]
    /\ \A r \in Reviewers : reviewer[r].pc \in {"prepare", "save"} =>
         /\ reviewer[r].index \in Configs
         /\ reviewer[r].next \in 1..Readers
         /\ reviewer[r].pc = "prepare" => reviewer[r].next = 1
         /\ \A d \in 1..(reviewer[r].next - 1) : traces[d] = reviewer[r].index

-----------------------------------------------------------------------------
(* The report.                                                             *)

Covered(a) == \A u \in Workflow!Mine(a) : batches[a][u] # None

BatchesTyped ==
    batches \in [Workflow!Agents -> [DOMAIN Domains -> {None} \cup SUBSET Candidates]]

\* While a turn runs, the agents that are through have covered their units,
\* unless they failed or had no model; what the workflow returned says which.
RunningOk ==
    /\ \A a \in Workflow!Agents : agent[a] = "done" =>
          \/ execution[a].status \in {"failed", "disabled"}
          \/ Covered(a)
    /\ outcome # None => /\ \A a \in Workflow!Agents : agent[a] = "done"
                         /\ outcome.partial => outcome.short
                         /\ ~outcome.short => \A a \in Workflow!Agents : Covered(a)

AllCovered == \A a \in Workflow!Agents : Covered(a)

\* The inductive invariant of the report.
ReportInv ==
    /\ BatchesTyped
    /\ execution = [a \in Workflow!Agents |-> execution[a]]
    /\ outcome # None => DOMAIN outcome = {"findings", "partial", "short", "settled"}
    /\ turn.status = "running" => RunningOk
    /\ completed => AllCovered

\* Whether the list fs names the problem c as surely, and a row holds each of
\* the list.
Names(fs, c) == \E d \in fs : Workflow!Identity(d) = Workflow!Identity(c) /\ d.confidence >= c.confidence
Full(fs) == Cardinality(fs) >= MaxModelFindings
ListKept(fs) == \A a \in Workflow!Agents : \A c \in Workflow!Findings(a) : Names(fs, c) \/ Full(fs)
RowsKept(fs) == \A d \in fs : \E r \in stored : Workflow!Represents(r, d)
OnePerIdentity(fs) == \A d, e \in fs : Workflow!Identity(d) = Workflow!Identity(e) => d = e

\* What the agents that are through answered is in their results.
ReportedAll ==
    \A a \in Workflow!Agents : agent[a] = "done" =>
        \/ execution[a].status \in {"failed", "disabled"}
        \/ Workflow!Findings(a) \subseteq Workflow!Reported(a)

\* The inductive invariant of the findings on their way to the report: an
\* outcome that misses no agent names all they answered, or is full, and a
\* complete review has a row of each.
StoredInv ==
    /\ \A a \in Workflow!Agents : execution[a].result \in {None} \cup SUBSET Candidates
    /\ outcome # None => /\ outcome.findings \in SUBSET (Candidates \cup SummaryCandidates)
                         /\ OnePerIdentity(outcome.findings)
    /\ turn.status = "running" => /\ ReportedAll
                                  /\ outcome # None /\ ~outcome.short => ListKept(outcome.findings)
    /\ completed => /\ turn.status # "running" /\ outcome # None
                    /\ ListKept(outcome.findings) /\ RowsKept(outcome.findings)

-----------------------------------------------------------------------------
(* The contexts of a review.                                               *)

\* Only a review's own steps touch contexts, and only an operator the settings.
LEMMA OtherIndexSteps ==
  ASSUME Index!Next
  PROVE  \/ UNCHANGED <<settings, traces, reviewer>>
         \/ /\ UNCHANGED <<traces, reviewer>>
            /\ \E config \in Configs, mode \in Index!Modes :
                  settings' = [settings EXCEPT !.config = config, !.mode = mode]
         \/ \E r \in Reviewers : Index!Review(r) \/ Index!RetryReview(r)
<1>1. ASSUME NEW b \in Builders, Index!Build(b)
      PROVE  UNCHANGED <<settings, traces, reviewer>>
  BY <1>1, Zenon DEF Index!Build, Index!Claim, Index!Begin, Index!Load, Index!Reset, Index!Store,
     Index!Link, Index!Settled, Index!OutOfTime, Index!Embed, Index!Acquire, Index!Ask,
     Index!Answer, Index!AskFails, Index!LinkOne, Index!Complete, Index!LoseLease,
     Index!FailBuild, Index!Crash
<1>2. ASSUME NEW c \in Configs, Index!RetryIndex(c) \/ Index!Cleanup(c)
      PROVE  UNCHANGED <<settings, traces, reviewer>>
  BY <1>2, Zenon DEF Index!RetryIndex, Index!Cleanup
<1>3. ASSUME Index!CreateIndex \/ Index!Tick
      PROVE  UNCHANGED <<settings, traces, reviewer>>
  BY <1>3, Zenon DEF Index!CreateIndex, Index!Tick
<1>4. ASSUME Index!ChangeSettings
      PROVE  /\ UNCHANGED <<traces, reviewer>>
             /\ \E config \in Configs, mode \in Index!Modes :
                   settings' = [settings EXCEPT !.config = config, !.mode = mode]
  BY <1>4, Zenon DEF Index!ChangeSettings
<1> QED BY <1>1, <1>2, <1>3, <1>4, Zenon DEF Index!Next

\* A review that does not go on holds nothing.
LEMMA NoReviewerTyped ==
  ASSUME NEW pc \in ReviewerPoints
  PROVE  /\ [Index!NoReviewer EXCEPT !.pc = pc] \in ReviewerRow
         /\ [Index!NoReviewer EXCEPT !.pc = pc].pc = pc
BY DEF Index!NoReviewer, ReviewerRow, ReviewerPoints

LEMMA BecomesKeeps ==
  ASSUME ContextInv, NEW r \in Reviewers, NEW pc \in ReviewerPoints, pc \notin {"prepare", "save"},
         Index!Becomes(r, pc),
         traces' \in [1..Readers -> Configs \cup {None}],
         \A d \in 1..Readers : traces[d] # None => traces'[d] = traces[d],
         \A a \in 1..Readers : traces'[a] # None => \A d \in 1..a : traces'[d] = traces'[a],
         settings' = settings
  PROVE  ContextInv'
<1> DEFINE new == [Index!NoReviewer EXCEPT !.pc = pc]
<1>1. new \in ReviewerRow /\ new.pc = pc
  BY NoReviewerTyped
<1>2. reviewer' = [reviewer EXCEPT ![r] = new]
  BY DEF Index!Becomes
<1> HIDE DEF new
<1>3. reviewer' \in [Reviewers -> ReviewerRow]
  BY <1>1, <1>2 DEF ContextInv
<1>4. ASSUME NEW q \in Reviewers, reviewer'[q].pc \in {"prepare", "save"}
      PROVE  /\ reviewer'[q].index \in Configs
             /\ reviewer'[q].next \in 1..Readers
             /\ reviewer'[q].pc = "prepare" => reviewer'[q].next = 1
             /\ \A d \in 1..(reviewer'[q].next - 1) : traces'[d] = reviewer'[q].index
  <2>1. q # r
    BY <1>1, <1>2, <1>4 DEF ContextInv
  <2>2. reviewer'[q] = reviewer[q]
    BY <1>2, <2>1 DEF ContextInv
  <2>3. /\ reviewer[q].index \in Configs
        /\ reviewer[q].next \in 1..Readers
        /\ reviewer[q].pc = "prepare" => reviewer[q].next = 1
        /\ \A d \in 1..(reviewer[q].next - 1) : traces[d] = reviewer[q].index
    BY <1>4, <2>2 DEF ContextInv
  <2>4. ASSUME NEW d \in 1..(reviewer[q].next - 1)
        PROVE  traces'[d] = reviewer[q].index
    <3>1. d \in 1..Readers /\ traces[d] = reviewer[q].index
      BY <2>3, WorkersAssumption
    <3> QED BY <3>1, <2>3, WorkersAssumption
  <2> QED BY <2>2, <2>3, <2>4
<1> QED BY <1>3, <1>4 DEF ContextInv

LEMMA ConsultKeeps ==
  ASSUME ContextInv, NEW r \in Reviewers, Index!Consult(r)
  PROVE  ContextInv'
<1>1. UNCHANGED <<settings, traces>>
  BY DEF Index!Consult
<1>2. ASSUME NEW pc \in {"done", "refused"}, Index!Becomes(r, pc)
      PROVE  ContextInv'
  <2>1. pc \in ReviewerPoints /\ pc \notin {"prepare", "save"}
    BY <1>2 DEF ReviewerPoints
  <2>2. /\ traces' \in [1..Readers -> Configs \cup {None}]
        /\ \A a \in 1..Readers : traces'[a] # None => \A d \in 1..a : traces'[d] = traces'[a]
    BY <1>1 DEF ContextInv
  <2> QED BY <1>1, <1>2, <2>1, <2>2, BecomesKeeps
<1>3. ASSUME reviewer' = [reviewer EXCEPT ![r] =
                 [Index!NoReviewer EXCEPT !.pc = "prepare", !.index = settings.config,
                                          !.full = settings.mode = "full"]]
      PROVE  ContextInv'
  <2> DEFINE full == settings.mode = "full"
             new == [Index!NoReviewer EXCEPT !.pc = "prepare", !.index = settings.config, !.full = full]
  <2>1. settings.config \in Configs
    BY DEF ContextInv
  <2>2. full \in BOOLEAN
    OBVIOUS
  <2> HIDE DEF full
  <2>3. new \in ReviewerRow
    BY <2>1, <2>2 DEF Index!NoReviewer, ReviewerRow, ReviewerPoints
  <2>4. new.index = settings.config /\ new.next = 1
    BY DEF Index!NoReviewer
  <2>5. reviewer' = [reviewer EXCEPT ![r] = new]
    BY <1>3 DEF full
  <2> HIDE DEF new
  <2>6. reviewer' \in [Reviewers -> ReviewerRow]
    BY <2>3, <2>5 DEF ContextInv
  <2>7. ASSUME NEW q \in Reviewers, reviewer'[q].pc \in {"prepare", "save"}
        PROVE  /\ reviewer'[q].index \in Configs
               /\ reviewer'[q].next \in 1..Readers
               /\ reviewer'[q].pc = "prepare" => reviewer'[q].next = 1
               /\ \A d \in 1..(reviewer'[q].next - 1) : traces[d] = reviewer'[q].index
    <3>1. CASE q = r
      BY <3>1, <2>1, <2>4, <2>5, WorkersAssumption DEF ContextInv
    <3>2. CASE q # r
      BY <3>2, <2>5, <2>7 DEF ContextInv
    <3> QED BY <3>1, <3>2
  <2> QED BY <1>1, <2>6, <2>7 DEF ContextInv
<1> QED BY <1>2, <1>3, Zenon DEF Index!Consult

LEMMA PrepareKeeps ==
  ASSUME ContextInv, NEW r \in Reviewers, Index!Prepare(r)
  PROVE  ContextInv'
<1>1. UNCHANGED <<settings, traces>> /\ reviewer[r].pc = "prepare"
  BY DEF Index!Prepare
<1>2. ASSUME NEW pc \in {"idle", "refused"}, Index!Becomes(r, pc)
      PROVE  ContextInv'
  <2>1. pc \in ReviewerPoints /\ pc \notin {"prepare", "save"}
    BY <1>2 DEF ReviewerPoints
  <2>2. /\ traces' \in [1..Readers -> Configs \cup {None}]
        /\ \A a \in 1..Readers : traces'[a] # None => \A d \in 1..a : traces'[d] = traces'[a]
    BY <1>1 DEF ContextInv
  <2> QED BY <1>1, <1>2, <2>1, <2>2, BecomesKeeps
<1>3. ASSUME reviewer' = [reviewer EXCEPT ![r].pc = "save", ![r].full = FALSE]
      PROVE  ContextInv'
  <2> DEFINE new == [reviewer[r] EXCEPT !.pc = "save", !.full = FALSE]
  <2>1. reviewer[r] \in ReviewerRow
    BY DEF ContextInv
  <2>2. new \in ReviewerRow
    BY <2>1 DEF ReviewerRow, ReviewerPoints
  <2>3. new.index = reviewer[r].index /\ new.next = reviewer[r].next /\ new.pc = "save"
    BY <2>1 DEF ReviewerRow
  <2>4. reviewer' = [reviewer EXCEPT ![r] = new]
    BY <1>3 DEF ContextInv
  <2> HIDE DEF new
  <2>5. reviewer' \in [Reviewers -> ReviewerRow]
    BY <2>2, <2>4 DEF ContextInv
  <2>6. ASSUME NEW q \in Reviewers, reviewer'[q].pc \in {"prepare", "save"}
        PROVE  /\ reviewer'[q].index \in Configs
               /\ reviewer'[q].next \in 1..Readers
               /\ reviewer'[q].pc = "prepare" => reviewer'[q].next = 1
               /\ \A d \in 1..(reviewer'[q].next - 1) : traces[d] = reviewer'[q].index
    <3>1. CASE q = r
      BY <3>1, <1>1, <2>3, <2>4 DEF ContextInv
    <3>2. CASE q # r
      BY <3>2, <2>4, <2>6 DEF ContextInv
    <3> QED BY <3>1, <3>2
  <2> QED BY <1>1, <2>5, <2>6 DEF ContextInv
<1> QED BY <1>2, <1>3, Zenon DEF Index!Prepare

LEMMA SaveKeeps ==
  ASSUME ContextInv, NEW r \in Reviewers, Index!Save(r)
  PROVE  ContextInv'
<1> DEFINE a == reviewer[r].next
           c == reviewer[r].index
<1>1. /\ a \in 1..Readers /\ c \in Configs /\ c # None
      /\ \A d \in 1..(a - 1) : traces[d] = c
      /\ settings' = settings
  BY WorkersAssumption DEF Index!Save, ContextInv
<1>2. traces' = IF traces[a] = None /\ Index!Exists(c) THEN [traces EXCEPT ![a] = c] ELSE traces
  BY DEF Index!Save
<1>3. IF traces'[a] # c THEN Index!Becomes(r, "refused")
      ELSE IF a = Readers THEN Index!Becomes(r, "done")
      ELSE reviewer' = [reviewer EXCEPT ![r].next = a + 1]
  BY DEF Index!Save
<1> DEFINE Ordered(t) == \A e \in 1..Readers : t[e] # None => \A d \in 1..e : t[d] = t[e]
<1>4. /\ traces' \in [1..Readers -> Configs \cup {None}]
      /\ \A d \in 1..Readers : traces[d] # None => traces'[d] = traces[d]
      /\ \A d \in 1..(a - 1) : traces'[d] = c
      /\ Ordered(traces')
  <2>1. CASE traces[a] = None /\ Index!Exists(c)
    <3>1. traces' = [traces EXCEPT ![a] = c]
      BY <1>2, <2>1
    <3>2. traces' \in [1..Readers -> Configs \cup {None}]
      BY <1>1, <3>1 DEF ContextInv
    <3>3. \A d \in 1..Readers : traces'[d] = IF d = a THEN c ELSE traces[d]
      BY <1>1, <3>1 DEF ContextInv
    <3>4. \A d \in 1..(a - 1) : traces'[d] = c
      BY <1>1, <3>3, WorkersAssumption
    <3>5. ASSUME NEW e \in 1..Readers, traces'[e] # None, NEW d \in 1..e
          PROVE  traces'[d] = traces'[e]
      <4>1. d \in 1..Readers
        BY WorkersAssumption
      <4>2. CASE e = a
        BY <4>2, <1>1, <3>3, <3>4, <4>1, WorkersAssumption
      <4>3. CASE e # a
        <5>1. traces[e] # None /\ \A f \in 1..e : traces[f] = traces[e]
          BY <4>3, <3>3, <3>5 DEF ContextInv
        <5>2. ~(a \in 1..e)
          BY <5>1, <2>1
        <5> QED BY <4>1, <4>3, <5>1, <5>2, <3>3
      <4> QED BY <4>2, <4>3
    <3> QED BY <2>1, <3>2, <3>3, <3>4, <3>5
  <2>2. CASE ~(traces[a] = None /\ Index!Exists(c))
    BY <1>1, <1>2, <2>2 DEF ContextInv
  <2> QED BY <2>1, <2>2
<1>5. CASE Index!Becomes(r, "refused") \/ Index!Becomes(r, "done")
  <2>1. /\ "refused" \in ReviewerPoints /\ "refused" \notin {"prepare", "save"}
        /\ "done" \in ReviewerPoints /\ "done" \notin {"prepare", "save"}
    BY DEF ReviewerPoints
  <2>2. \A e \in 1..Readers : traces'[e] # None => \A d \in 1..e : traces'[d] = traces'[e]
    BY <1>4
  <2>3. traces' \in [1..Readers -> Configs \cup {None}]
    BY <1>4
  <2>4. \A d \in 1..Readers : traces[d] # None => traces'[d] = traces[d]
    BY <1>4
  <2> QED BY <1>1, <1>5, <2>1, <2>2, <2>3, <2>4, BecomesKeeps
<1>6. CASE traces'[a] = c /\ a # Readers /\ reviewer' = [reviewer EXCEPT ![r].next = a + 1]
  <2> DEFINE new == [reviewer[r] EXCEPT !.next = a + 1]
  <2>1. reviewer[r] \in ReviewerRow /\ reviewer[r].pc = "save"
    BY DEF ContextInv, Index!Save
  <2>2. new \in ReviewerRow
    BY <1>1, <2>1, WorkersAssumption DEF ReviewerRow
  <2>3. new.index = c /\ new.next = a + 1 /\ new.pc = "save"
    BY <2>1 DEF ReviewerRow
  <2>4. reviewer' = [reviewer EXCEPT ![r] = new]
    BY <1>6 DEF ContextInv
  <2> HIDE DEF new
  <2>5. reviewer' \in [Reviewers -> ReviewerRow]
    BY <2>2, <2>4 DEF ContextInv
  <2>6. ASSUME NEW q \in Reviewers, reviewer'[q].pc \in {"prepare", "save"}
        PROVE  /\ reviewer'[q].index \in Configs
               /\ reviewer'[q].next \in 1..Readers
               /\ reviewer'[q].pc = "prepare" => reviewer'[q].next = 1
               /\ \A d \in 1..(reviewer'[q].next - 1) : traces'[d] = reviewer'[q].index
    <3>1. CASE q = r
      <4>1. reviewer'[q] = new
        BY <3>1, <2>4 DEF ContextInv
      <4>2. a + 1 \in 1..Readers
        BY <1>1, <1>6, WorkersAssumption
      <4>3. ASSUME NEW d \in 1..a
            PROVE  traces'[d] = c
        BY <1>1, <1>4, <1>6, WorkersAssumption
      <4> QED BY <1>1, <2>3, <4>1, <4>2, <4>3, WorkersAssumption
    <3>2. CASE q # r
      <4>1. reviewer'[q] = reviewer[q]
        BY <3>2, <2>4 DEF ContextInv
      <4>2. /\ reviewer[q].index \in Configs
            /\ reviewer[q].next \in 1..Readers
            /\ reviewer[q].pc = "prepare" => reviewer[q].next = 1
            /\ \A d \in 1..(reviewer[q].next - 1) : traces[d] = reviewer[q].index
        BY <4>1, <2>6 DEF ContextInv
      <4>3. ASSUME NEW d \in 1..(reviewer[q].next - 1)
            PROVE  traces'[d] = reviewer[q].index
        <5>1. d \in 1..Readers /\ traces[d] = reviewer[q].index
          BY <4>2, WorkersAssumption
        <5> QED BY <5>1, <4>2, <1>4, WorkersAssumption
      <4> QED BY <4>1, <4>2, <4>3
    <3> QED BY <3>1, <3>2
  <2>7. settings' \in [config : Configs, mode : Index!Modes]
    BY <1>1 DEF ContextInv
  <2> QED BY <1>4, <2>5, <2>6, <2>7 DEF ContextInv
<1> QED BY <1>3, <1>5, <1>6

LEMMA ContextKept ==
  ASSUME ContextInv, Index!Next
  PROVE  ContextInv'
<1>1. CASE UNCHANGED <<settings, traces, reviewer>>
  BY <1>1 DEF ContextInv
<1>2. ASSUME UNCHANGED <<traces, reviewer>>, NEW config \in Configs, NEW mode \in Index!Modes,
             settings' = [settings EXCEPT !.config = config, !.mode = mode]
      PROVE  ContextInv'
  <2>1. settings' \in [config : Configs, mode : Index!Modes]
    BY <1>2 DEF ContextInv
  <2> QED BY <1>2, <2>1 DEF ContextInv
<1>3. ASSUME NEW r \in Reviewers, Index!RetryReview(r)
      PROVE  ContextInv'
  <2>1. Index!Becomes(r, "idle") /\ UNCHANGED <<settings, traces>>
    BY <1>3 DEF Index!RetryReview
  <2>2. "idle" \in ReviewerPoints /\ "idle" \notin {"prepare", "save"}
    BY DEF ReviewerPoints
  <2>3. /\ traces' \in [1..Readers -> Configs \cup {None}]
        /\ \A a \in 1..Readers : traces'[a] # None => \A d \in 1..a : traces'[d] = traces'[a]
    BY <2>1 DEF ContextInv
  <2> QED BY <2>1, <2>2, <2>3, BecomesKeeps
<1> QED BY <1>1, <1>2, <1>3, ConsultKeeps, PrepareKeeps, SaveKeeps, OtherIndexSteps, Zenon
     DEF Index!Review

LEMMA ContextInit ==
  ASSUME Index!Init
  PROVE  ContextInv
<1>1. Index!NoReviewer \in ReviewerRow /\ Index!NoReviewer.pc = "idle"
  BY DEF Index!NoReviewer, ReviewerRow, ReviewerPoints
<1>2. /\ settings \in [config : Configs, mode : Index!Modes]
      /\ traces = [a \in 1..Readers |-> None]
      /\ reviewer = [r \in Reviewers |-> Index!NoReviewer]
  BY DEF Index!Init
<1> HIDE DEF Index!NoReviewer
<1> QED BY <1>1, <1>2 DEF ContextInv

(* All contexts of a review come from one index (Index!OneIndexPerReview),  *)
(* for any number of agents, reviewing processes and configurations.        *)
LEMMA ContextInvImplies ==
  ASSUME ContextInv
  PROVE  OneIndexPerReview
<1>1. ASSUME NEW a \in 1..Readers, NEW d \in 1..Readers, traces[a] # None, traces[d] # None
      PROVE  traces[a] = traces[d]
  <2>1. a \in 1..d \/ d \in 1..a
    BY WorkersAssumption
  <2> QED BY <1>1, <2>1 DEF ContextInv
<1>2. ASSUME NEW r \in Reviewers, reviewer[r].pc = "save", NEW d \in 1..(reviewer[r].next - 1)
      PROVE  traces[d] = reviewer[r].index
  BY <1>2 DEF ContextInv
<1> QED BY <1>1, <1>2 DEF OneIndexPerReview, Index!OneIndexPerReview

-----------------------------------------------------------------------------
(* The report of the agents.                                               *)

\* Without a change of the answers, what was covered is.
LEMMA SameAnswers ==
  ASSUME batches' = batches
  PROVE  /\ BatchesTyped' <=> BatchesTyped
         /\ AllCovered' <=> AllCovered
         /\ \A a \in Workflow!Agents : Covered(a)' <=> Covered(a)
BY DEF BatchesTyped, AllCovered, Covered, Workflow!Mine, Workflow!ReviewUnits

LEMMA QuietReportStep ==
  ASSUME ReportInv,
         UNCHANGED <<batches, agent, execution, outcome, completed>>,
         turn'.status = "running" => turn.status = "running"
  PROVE  ReportInv'
<1>1. RunningOk => RunningOk'
  BY SameAnswers DEF RunningOk
<1> QED BY <1>1, SameAnswers DEF ReportInv

LEMMA AgentCompletes ==
  ASSUME ReportInv, NEW a \in Workflow!Agents, Workflow!CompleteAgent(a)
  PROVE  ReportInv'
<1>1. /\ UNCHANGED <<batches, outcome, completed, turn>>
      /\ turn.status = "running" /\ outcome = None
      /\ agent' = [agent EXCEPT ![a] = "done"]
  BY DEF Workflow!CompleteAgent, Workflow!InPool
<1>2. \E e : /\ execution' = [execution EXCEPT ![a] = e]
             /\ e.status \in {"failed", "disabled"} \/ Covered(a)
  <2>1. CASE Workflow!Skipped(a)
    <3>1. CASE /\ Workflow!Mine(a) = {}
               /\ execution' = [execution EXCEPT ![a] = Workflow!Execution("not_applicable", None)]
      BY <3>1 DEF Covered
    <3>2. CASE execution' = [execution EXCEPT ![a] = Workflow!Execution("disabled", None)]
      <4>1. Workflow!Execution("disabled", None).status = "disabled"
        BY DEF Workflow!Execution, Workflow!NoExecution
      <4> QED BY <3>2, <4>1
    <3> QED BY <2>1, <3>1, <3>2, Zenon DEF Workflow!Skipped
  <2>2. CASE Workflow!Succeeded(a)
    BY <2>2 DEF Workflow!Succeeded, Workflow!Done, Covered
  <2>3. CASE Workflow!Failed(a)
    <3>1. PICK refused \in BOOLEAN :
             execution' = [execution EXCEPT ![a] =
                 [status |-> "failed", refused |-> refused,
                  result |-> IF Workflow!Done(a) = {} THEN None ELSE Workflow!Findings(a)]]
      BY <2>3 DEF Workflow!Failed
    <3> DEFINE e == [status |-> "failed", refused |-> refused,
                     result |-> IF Workflow!Done(a) = {} THEN None ELSE Workflow!Findings(a)]
    <3>2. e.status = "failed" /\ execution' = [execution EXCEPT ![a] = e]
      BY <3>1
    <3> HIDE DEF e
    <3> QED BY <3>2
  <2> QED BY <2>1, <2>2, <2>3, Zenon DEF Workflow!CompleteAgent
<1>3. PICK e : /\ execution' = [execution EXCEPT ![a] = e]
               /\ e.status \in {"failed", "disabled"} \/ Covered(a)
  BY <1>2
<1>4. execution = [b \in Workflow!Agents |-> execution[b]] /\ RunningOk
  BY <1>1 DEF ReportInv
<1>5. /\ execution' = [b \in Workflow!Agents |-> execution'[b]]
      /\ execution'[a] = e
      /\ \A b \in Workflow!Agents \ {a} : execution'[b] = execution[b]
  BY <1>3, <1>4
<1>6. \A b \in Workflow!Agents \ {a} : agent'[b] = "done" => agent[b] = "done"
  BY <1>1
<1>7. RunningOk'
  BY <1>1, <1>3, <1>4, <1>5, <1>6, SameAnswers DEF RunningOk
<1> QED BY <1>1, <1>5, <1>7, SameAnswers DEF ReportInv

LEMMA BatchAnswered ==
  ASSUME ReportInv, NEW a \in Workflow!Agents, NEW u \in Workflow!ReviewUnits, Workflow!AnswerBatch(a, u)
  PROVE  ReportInv'
<1>1. /\ UNCHANGED <<turn, agent, execution, outcome, completed>>
      /\ outcome = None
      /\ \E s \in SUBSET {c \in Candidates : c.unit = u} : batches' = [batches EXCEPT ![a][u] = s]
  BY DEF Workflow!AnswerBatch, Workflow!InPool
<1>2. PICK s \in SUBSET Candidates : batches' = [batches EXCEPT ![a][u] = s]
  BY <1>1
<1>3. s # None
  BY <1>2, WorkersAssumption
<1>4. BatchesTyped
  BY DEF ReportInv
<1>5. batches' = [batches EXCEPT ![a] = [batches[a] EXCEPT ![u] = s]]
  BY <1>2, <1>4 DEF BatchesTyped
<1>6. batches[a] \in [DOMAIN Domains -> {None} \cup SUBSET Candidates]
  BY <1>4 DEF BatchesTyped
<1>7. BatchesTyped'
  BY <1>2, <1>4, <1>5, <1>6 DEF BatchesTyped, Workflow!ReviewUnits
<1>8. \A b \in Workflow!Agents, v \in DOMAIN Domains : batches[b][v] # None => batches'[b][v] # None
  BY <1>3, <1>4, <1>5, <1>6 DEF BatchesTyped, Workflow!ReviewUnits
<1>9. \A b \in Workflow!Agents : Covered(b) => Covered(b)'
  BY <1>8 DEF Covered, Workflow!Mine, Workflow!ReviewUnits
<1>10. RunningOk => RunningOk'
  BY <1>1, <1>9 DEF RunningOk
<1> QED BY <1>1, <1>7, <1>9, <1>10 DEF ReportInv, AllCovered

LEMMA LossNoticed ==
  ASSUME ReportInv, NEW a \in Workflow!Agents, Workflow!NoticeLoss(a)
  PROVE  ReportInv'
<1>1. /\ UNCHANGED <<turn, batches, execution, outcome, completed>>
      /\ outcome = None
      /\ agent' = [b \in Workflow!Agents |->
                     IF b = a \/ agent[b] = "queued" THEN "stopped" ELSE agent[b]]
  BY DEF Workflow!NoticeLoss, Workflow!InPool
<1>2. \A b \in Workflow!Agents : agent'[b] = "done" => agent[b] = "done"
  BY <1>1
<1>3. RunningOk => RunningOk'
  BY <1>1, <1>2, SameAnswers DEF RunningOk
<1> QED BY <1>1, <1>3, SameAnswers DEF ReportInv

LEMMA AgentStarted ==
  ASSUME ReportInv, NEW a \in Workflow!Agents, Workflow!StartAgent(a)
  PROVE  ReportInv'
<1>1. /\ UNCHANGED <<turn, batches, execution, outcome, completed>>
      /\ outcome = None
      /\ agent' = [agent EXCEPT ![a] = "started"]
  BY DEF Workflow!StartAgent, Workflow!InPool
<1>2. \A b \in Workflow!Agents : agent'[b] = "done" => agent[b] = "done"
  BY <1>1
<1>3. RunningOk => RunningOk'
  BY <1>1, <1>2, SameAnswers DEF RunningOk
<1> QED BY <1>1, <1>3, SameAnswers DEF ReportInv

\* A new turn has neither results nor an outcome.
LEMMA TurnClaimed ==
  ASSUME ReportInv, Workflow!Claim
  PROVE  ReportInv'
<1>1. /\ UNCHANGED <<batches, completed>>
      /\ ~completed
      /\ outcome' = None
      /\ agent' = [a \in Workflow!Agents |-> "queued"]
      /\ execution' = [a \in Workflow!Agents |-> Workflow!NoExecution]
  BY DEF Workflow!Claim, Workflow!Queued, Workflow!Blank
<1>2. RunningOk'
  BY <1>1 DEF RunningOk
<1>3. execution' = [a \in Workflow!Agents |-> execution'[a]]
  BY <1>1
<1> QED BY <1>1, <1>2, <1>3, SameAnswers DEF ReportInv

\* The workflow returns when every agent is through, and says what is missing.
LEMMA Aggregated ==
  ASSUME ReportInv, Workflow!Aggregate
  PROVE  ReportInv'
<1>1. /\ UNCHANGED <<batches, agent, execution, completed>>
      /\ \A a \in Workflow!Agents : agent[a] = "done"
      /\ turn.status = "running"
      /\ outcome' = [findings |-> Workflow!MergeFindings, partial |-> Workflow!Partial,
                     short |-> Workflow!Short, settled |-> FALSE]
  BY DEF Workflow!Aggregate, Workflow!InPool, Workflow!AllDone, Workflow!Merged
<1>2. /\ DOMAIN outcome' = {"findings", "partial", "short", "settled"}
      /\ outcome'.partial = Workflow!Partial
      /\ outcome'.short = Workflow!Short
  BY <1>1
<1>3. Workflow!Partial => Workflow!Short
  BY DEF Workflow!Partial
<1>4. ASSUME ~Workflow!Short
      PROVE  \A a \in Workflow!Agents : Covered(a)
  BY <1>1, <1>4 DEF Workflow!Short, Workflow!Failure, Workflow!Disabled, ReportInv, RunningOk
<1>5. RunningOk
  BY <1>1 DEF ReportInv
<1>6. RunningOk'
  BY <1>1, <1>2, <1>3, <1>4, <1>5, SameAnswers DEF RunningOk
<1> QED BY <1>1, <1>2, <1>6, SameAnswers DEF ReportInv

\* A step that changes the findings of an outcome, or settles it.
LEMMA OutcomeRewritten ==
  ASSUME ReportInv, outcome # None,
         UNCHANGED <<batches, agent, execution, completed, turn>>,
         DOMAIN outcome' = DOMAIN outcome,
         outcome'.partial = outcome.partial, outcome'.short = outcome.short
  PROVE  ReportInv'
<1>1. RunningOk => RunningOk'
  BY SameAnswers DEF RunningOk
<1> QED BY <1>1, SameAnswers DEF ReportInv

LEMMA SummaryStep ==
  ASSUME ReportInv, Workflow!SummaryAnswers \/ Workflow!RecordSummary
  PROVE  ReportInv'
<1>1. /\ UNCHANGED <<batches, agent, execution, completed, turn>>
      /\ outcome # None
  BY DEF Workflow!SummaryAnswers, Workflow!RecordSummary, Workflow!SummaryDue, Workflow!Settling
<1>2. DOMAIN outcome = {"findings", "partial", "short", "settled"}
  BY <1>1 DEF ReportInv
<1>3. \/ \E x : outcome' = [outcome EXCEPT !.findings = x]
      \/ outcome' = [outcome EXCEPT !.settled = TRUE]
  BY Zenon DEF Workflow!SummaryAnswers, Workflow!RecordSummary
<1>4. /\ DOMAIN outcome' = DOMAIN outcome
      /\ outcome'.partial = outcome.partial /\ outcome'.short = outcome.short
  BY <1>2, <1>3
<1> QED BY <1>1, <1>4, OutcomeRewritten

\* A review is stored as complete only when the outcome misses nothing.
LEMMA ReviewStored ==
  ASSUME ReportInv, Workflow!StoreReview
  PROVE  ReportInv'
<1>1. /\ UNCHANGED <<batches, agent, execution, outcome>>
      /\ turn.status = "running" /\ outcome # None
      /\ outcome.partial \/ ~outcome.short
      /\ completed' = ~outcome.partial
      /\ turn' = IF outcome.partial
                 THEN [turn EXCEPT !.status = "failed", !.stage = "agents"]
                 ELSE [turn EXCEPT !.status = "completed", !.stage = "awaiting_approval"]
  BY Zenon DEF Workflow!StoreReview, Workflow!Storable, Workflow!Settling
<1>2. completed' => AllCovered
  BY <1>1 DEF ReportInv, RunningOk, AllCovered
<1>3. turn'.status # "running" \/ turn' = turn
  BY <1>1
<1>4. RunningOk => RunningOk'
  BY <1>1, SameAnswers DEF RunningOk
<1> QED BY <1>1, <1>2, <1>4, SameAnswers DEF ReportInv

TurnTyped == DOMAIN turn = {"status", "stage", "rounds", "reviewers"}

LEMMA TurnStaysTyped ==
  ASSUME TurnTyped, Workflow!WorkflowNext
  PROVE  TurnTyped'
<1>1. ASSUME NEW a \in Workflow!Agents,
             \/ Workflow!StartAgent(a) \/ Workflow!CompleteAgent(a) \/ Workflow!NoticeLoss(a)
             \/ \E u \in Workflow!ReviewUnits : Workflow!AnswerBatch(a, u)
      PROVE  turn' = turn
  BY <1>1, Zenon DEF Workflow!StartAgent, Workflow!CompleteAgent, Workflow!NoticeLoss,
     Workflow!AnswerBatch
<1>2. ASSUME \/ Workflow!LoseLease \/ Workflow!SummaryAnswers \/ Workflow!SummaryFails
             \/ Workflow!RecordSummary
      PROVE  turn' = turn
  BY <1>2, Zenon DEF Workflow!LoseLease, Workflow!SummaryAnswers, Workflow!SummaryFails,
     Workflow!RecordSummary
<1>3. CASE Workflow!Claim
  BY <1>3 DEF Workflow!Claim, TurnTyped
<1>4. CASE Workflow!Abandon
  BY <1>4 DEF Workflow!Abandon, TurnTyped
<1>5. CASE Workflow!Aggregate
  BY <1>5 DEF Workflow!Aggregate, TurnTyped
<1>6. CASE Workflow!RaiseError
  BY <1>6 DEF Workflow!RaiseError, TurnTyped
<1>7. CASE Workflow!StoreReview
  <2>1. turn' = IF outcome.partial
                THEN [turn EXCEPT !.status = "failed", !.stage = "agents"]
                ELSE [turn EXCEPT !.status = "completed", !.stage = "awaiting_approval"]
    BY <1>7, Zenon DEF Workflow!StoreReview
  <2> QED BY <2>1 DEF TurnTyped
<1>8. ASSUME NEW changed \in SUBSET Workflow!Agents, Workflow!RetryNode(changed)
      PROVE  TurnTyped'
  <2>1. turn' = [turn EXCEPT !.status = "ready", !.stage = "agents"]
    BY <1>8, Zenon DEF Workflow!RetryNode
  <2> QED BY <2>1 DEF TurnTyped
<1>9. ASSUME NEW stage \in {"agents", "aggregating"}, Workflow!RetryStage(stage)
      PROVE  TurnTyped'
  <2>1. turn' = [turn EXCEPT !.status = "ready", !.stage = stage]
    BY <1>9, Zenon DEF Workflow!RetryStage
  <2> QED BY <2>1 DEF TurnTyped
<1>10. turn' = turn => TurnTyped'
  BY DEF TurnTyped
<1> QED BY <1>1, <1>2, <1>3, <1>4, <1>5, <1>6, <1>7, <1>8, <1>9, <1>10, Zenon DEF Workflow!WorkflowNext

\* A repeated node or stage is not complete any more, and not running yet.
LEMMA ReportRetried ==
  ASSUME ReportInv, TurnTyped,
         \/ \E changed \in SUBSET Workflow!Agents : Workflow!RetryNode(changed)
         \/ \E stage \in {"agents", "aggregating"} : Workflow!RetryStage(stage)
  PROVE  ReportInv'
<1>1. /\ completed' = FALSE
      /\ UNCHANGED <<agent, execution, outcome>>
  BY Zenon DEF Workflow!RetryNode, Workflow!RetryStage
<1>2. turn'.status = "ready"
  BY DEF Workflow!RetryNode, Workflow!RetryStage, TurnTyped
<1>3. batches' = batches \/ \E agents \in SUBSET Workflow!Agents : batches' = Workflow!Cleared(agents)
  <2>1. Workflow!Agents \in SUBSET Workflow!Agents
    OBVIOUS
  <2> QED BY <2>1, Zenon DEF Workflow!RetryNode, Workflow!RetryStage
<1>4. ASSUME NEW agents, batches' = Workflow!Cleared(agents)
      PROVE  BatchesTyped'
  BY <1>4 DEF Workflow!Cleared, Workflow!NoSaved, Workflow!ReviewUnits, BatchesTyped, ReportInv
<1>5. BatchesTyped'
  BY <1>3, <1>4, SameAnswers DEF ReportInv
<1> QED BY <1>1, <1>2, <1>5 DEF ReportInv

LEMMA ReportKept ==
  ASSUME ReportInv, TurnTyped, Workflow!WorkflowNext
  PROVE  ReportInv'
<1>1. CASE Workflow!LoseLease \/ Workflow!SummaryFails
  BY <1>1, QuietReportStep DEF Workflow!LoseLease, Workflow!SummaryFails
<1>2. CASE Workflow!Abandon \/ Workflow!RaiseError
  <2>1. /\ UNCHANGED <<batches, agent, execution, outcome, completed>>
        /\ \E status \in {"ready", "failed"} : turn' = [turn EXCEPT !.status = status]
    BY <1>2, Zenon DEF Workflow!Abandon, Workflow!RaiseError
  <2>2. turn'.status # "running"
    BY <2>1 DEF TurnTyped
  <2> QED BY <2>1, <2>2, QuietReportStep
<1>3. ASSUME NEW a \in Workflow!Agents,
             \/ Workflow!StartAgent(a) \/ Workflow!CompleteAgent(a) \/ Workflow!NoticeLoss(a)
             \/ \E u \in Workflow!ReviewUnits : Workflow!AnswerBatch(a, u)
      PROVE  ReportInv'
  BY <1>3, LossNoticed, AgentStarted, AgentCompletes, BatchAnswered, Zenon
<1>4. CASE \/ \E changed \in SUBSET Workflow!Agents : Workflow!RetryNode(changed)
           \/ \E stage \in {"agents", "aggregating"} : Workflow!RetryStage(stage)
  BY <1>4, ReportRetried, Zenon
<1>5. CASE Workflow!Claim \/ Workflow!Aggregate \/ Workflow!StoreReview
  BY <1>5, TurnClaimed, Aggregated, ReviewStored, Zenon
<1>6. CASE Workflow!SummaryAnswers \/ Workflow!RecordSummary
  BY <1>6, SummaryStep, Zenon
<1> QED BY <1>1, <1>2, <1>3, <1>4, <1>5, <1>6 DEF Workflow!WorkflowNext

LEMMA ReportInit ==
  ASSUME Workflow!WorkflowInit
  PROVE  ReportInv /\ TurnTyped
<1>1. /\ batches = [a \in Workflow!Agents |-> [u \in Workflow!ReviewUnits |-> None]]
      /\ execution = [a \in Workflow!Agents |-> Workflow!NoExecution]
      /\ outcome = None /\ completed = FALSE
      /\ turn = [status |-> "ready", stage |-> "agents", rounds |-> 0, reviewers |-> {}]
  BY DEF Workflow!WorkflowInit, Workflow!NoSaved, Workflow!Blank
<1> HIDE DEF Workflow!NoExecution
<1>2. BatchesTyped
  BY <1>1 DEF BatchesTyped, Workflow!ReviewUnits
<1>3. execution = [a \in Workflow!Agents |-> execution[a]]
  BY <1>1
<1>4. turn.status = "ready" /\ TurnTyped
  BY <1>1 DEF TurnTyped
<1> QED BY <1>1, <1>2, <1>3, <1>4 DEF ReportInv

LEMMA ReportInvImplies ==
  ASSUME ReportInv
  PROVE  CompleteCovered
BY DEF ReportInv, AllCovered, Covered, CompleteCovered, Workflow!CompleteCovered

-----------------------------------------------------------------------------
(* The heartbeat row.                                                      *)

\* A step of one process.
StepOf(p, w, bs, s, n) ==
    /\ worker' = [worker EXCEPT ![p] = w]
    /\ beats' = [beats EXCEPT ![p] = bs]
    /\ said' = [said EXCEPT ![p] = s]
    /\ late' = [late EXCEPT ![p] = n]
    /\ heartbeat' = heartbeat \/ IsOf(heartbeat', p) \/ heartbeat' = None

\* It leaves the others as they are.
LEMMA HeartFrame ==
  ASSUME HeartInv, NEW p \in Starts, NEW w, NEW bs, NEW s, NEW n,
         StepOf(p, w, bs, s, n),
         Sound(p, w, bs, s, n, heartbeat')
  PROVE  HeartInv'
<1>1. /\ worker' = [q \in Starts |-> worker'[q]]
      /\ beats' = [q \in Starts |-> beats'[q]]
      /\ said' = [q \in Starts |-> said'[q]]
      /\ late' = [q \in Starts |-> late'[q]]
  BY DEF HeartInv, StepOf
<1>2. worker'[p] = w /\ beats'[p] = bs /\ said'[p] = s /\ late'[p] = n
  BY DEF HeartInv, StepOf
<1>3. ASSUME NEW q \in Starts, q # p
      PROVE  Sound(q, worker'[q], beats'[q], said'[q], late'[q], heartbeat')
  <2>1. /\ worker'[q] = worker[q] /\ beats'[q] = beats[q]
        /\ said'[q] = said[q] /\ late'[q] = late[q]
    BY <1>3 DEF HeartInv, StepOf
  <2>2. Sound(q, worker[q], beats[q], said[q], late[q], heartbeat)
    BY DEF HeartInv
  <2>3. heartbeat' = heartbeat \/ ~IsOf(heartbeat', q)
    BY <1>3 DEF IsOf, StepOf
  <2>4. Sound(q, worker[q], beats[q], said[q], late[q], heartbeat')
    BY <2>2, <2>3 DEF Sound, Telling, Replaced
  <2> QED BY <2>1, <2>4
<1>4. heartbeat' # None => heartbeat'.instance_id \in Starts
  BY DEF HeartInv, IsOf, StepOf
<1> QED BY <1>1, <1>2, <1>3, <1>4 DEF HeartInv

\* What is left alone.
LEMMA Unmoved ==
  ASSUME HeartInv, NEW p \in Starts
  PROVE  /\ worker = [worker EXCEPT ![p] = worker[p]]
         /\ beats = [beats EXCEPT ![p] = beats[p]]
         /\ said = [said EXCEPT ![p] = said[p]]
         /\ late = [late EXCEPT ![p] = late[p]]
         /\ Sound(p, worker[p], beats[p], said[p], late[p], heartbeat)
BY DEF HeartInv

\* Only the main program moves, and only from one place to another.
LEMMA MainMoves ==
  ASSUME HeartInv, NEW p \in Starts, NEW w \in WorkerRow,
         worker' = [worker EXCEPT ![p] = w],
         UNCHANGED <<heartbeat, beats, said, late>>,
         worker[p].hung => w.hung,
         Watched(w, beats[p]), Replaced(p, w, late[p], heartbeat)
  PROVE  HeartInv'
<1>1. Telling(p, w, beats[p], said[p], heartbeat)
  BY Unmoved DEF Sound, Telling
<1>2. beats[p] \in Seq(BeatRow)
  BY Unmoved DEF Sound
<1>3. Sound(p, w, beats[p], said[p], late[p], heartbeat')
  BY <1>1, <1>2 DEF Sound
<1>4. /\ beats' = [beats EXCEPT ![p] = beats[p]]
      /\ said' = [said EXCEPT ![p] = said[p]]
      /\ late' = [late EXCEPT ![p] = late[p]]
  BY Unmoved
<1>5. StepOf(p, w, beats[p], said[p], late[p])
  BY <1>4 DEF StepOf
<1> QED BY <1>3, <1>5, HeartFrame, Zenon

\* The worker of a process that was found replaced.
Gone(w) == [w EXCEPT !.lost = TRUE, !.stop = TRUE, !.task = None,
                     !.pc = IF @ = "closing" THEN @ ELSE "loop"]

LEMMA GoneTyped ==
  ASSUME NEW w \in WorkerRow
  PROVE  /\ Gone(w) \in WorkerRow
         /\ Gone(w).lingering = w.lingering
         /\ Gone(w).hung = w.hung
         /\ Gone(w).pc \in {"loop", "closing"}
<1> DEFINE pc == IF w.pc = "closing" THEN w.pc ELSE "loop"
           new == [w EXCEPT !.lost = TRUE, !.stop = TRUE, !.task = None, !.pc = pc]
<1>1. pc \in {"loop", "closing"} /\ pc \in WorkerPoints
  BY DEF WorkerPoints
<1>2. Gone(w) = new
  BY DEF Gone
<1> HIDE DEF pc
<1>3. new \in WorkerRow
  BY <1>1 DEF WorkerRow
<1>4. new.lingering = w.lingering /\ new.hung = w.hung /\ new.pc = pc
  BY DEF WorkerRow
<1> QED BY <1>1, <1>2, <1>3, <1>4

\* No thread of the process is running that the main program still counts on.
Still(p) == \A i \in LiveBeats(beats[p]) : worker[p].hung

\* A heartbeat of the main program, written or not, when no thread is running.
LEMMA RecordKeeps ==
  ASSUME HeartInv, NEW p \in Starts, NEW status, NEW claimed,
         NEW written \in WorkerRow, NEW refused \in WorkerRow,
         Heart!Record(p, status, claimed, written, refused),
         UNCHANGED <<beats, late>>,
         Still(p),
         written.hung = worker[p].hung, refused.hung = worker[p].hung,
         \A i, j \in refused.lingering : i = j,
         Watched(written, beats[p]), Watched(refused, beats[p]),
         Replaced(p, refused, late[p], heartbeat)
  PROVE  HeartInv'
<1>1. Sound(p, worker[p], beats[p], said[p], late[p], heartbeat)
  BY Unmoved
<1>2. CASE /\ Heart!Owns(p)
           /\ Heart!Say(p, status, claimed)
           /\ worker' = [worker EXCEPT ![p] = written]
  <2> DEFINE word == Heart!Content(p, status, claimed)
  <2>1. heartbeat' = word /\ said' = [said EXCEPT ![p] = word]
    BY <1>2 DEF Heart!Say
  <2>2. IsOf(heartbeat, p)
    BY <1>2 DEF Heart!Owns, IsOf
  <2>3. late[p] = 0
    BY <1>1, <2>2 DEF Sound, Replaced
  <2>4. Telling(p, written, beats[p], word, word)
    BY DEF Telling, Still
  <2>5. Sound(p, written, beats[p], word, late[p], heartbeat')
    BY <1>1, <2>1, <2>3, <2>4 DEF Sound, Replaced
  <2>6. heartbeat' = heartbeat \/ IsOf(heartbeat', p) \/ heartbeat' = None
    BY <2>1 DEF IsOf, Heart!Content
  <2>7. /\ beats' = [beats EXCEPT ![p] = beats[p]]
        /\ late' = [late EXCEPT ![p] = late[p]]
    BY Unmoved
  <2> HIDE DEF word
  <2>8. StepOf(p, written, beats[p], word, late[p])
    BY <1>2, <2>1, <2>6, <2>7 DEF StepOf
  <2> QED BY <2>5, <2>8, HeartFrame, Zenon
<1>3. CASE UNCHANGED <<heartbeat, said>> /\ worker' = [worker EXCEPT ![p] = Gone(refused)]
  <2>1. /\ Gone(refused) \in WorkerRow
        /\ Gone(refused).lingering = refused.lingering
        /\ Gone(refused).hung = refused.hung
        /\ Gone(refused).pc \in {"loop", "closing"}
    BY GoneTyped
  <2>2. Watched(Gone(refused), beats[p])
    BY <2>1 DEF Watched, Still, Early
  <2>3. Replaced(p, Gone(refused), late[p], heartbeat)
    BY <2>1 DEF Replaced, Early, Beating
  <2> QED BY <1>3, <2>1, <2>2, <2>3, MainMoves
<1>4. CASE UNCHANGED <<heartbeat, said>> /\ worker' = [worker EXCEPT ![p] = refused]
  BY <1>4, MainMoves
<1> QED BY <1>2, <1>3, <1>4, Zenon DEF Heart!Record, Gone

LEMMA AtTyped ==
  ASSUME NEW w \in WorkerRow, NEW pc \in WorkerPoints
  PROVE  /\ [w EXCEPT !.pc = pc] \in WorkerRow
         /\ [w EXCEPT !.pc = pc].pc = pc
         /\ [w EXCEPT !.pc = pc].lingering = w.lingering
         /\ [w EXCEPT !.pc = pc].hung = w.hung
BY DEF WorkerRow

\* Nobody is claimed for after a heartbeat that found the process replaced.
Apart == {"loop", "busy", "idle", "index", "rest", "shutdown", "closing", "dead"}

\* The main program goes to another place: the threads are no more its own
\* than they were.
LEMMA GotoKeeps ==
  ASSUME HeartInv, NEW p \in Starts, NEW pc \in WorkerPoints,
         Heart!Goto(p, pc),
         UNCHANGED <<heartbeat, beats, said, late>>,
         \/ worker[p].pc \in Early /\ (pc \in Early \/ pc = "shutdown")
         \/ worker[p].pc \notin Early \cup Beating /\ pc \in {"index", "loop"} /\ worker[p].lingering = {}
         \/ pc = "closing" /\ worker[p].pc = "shutdown"
  PROVE  HeartInv'
<1> DEFINE w == [worker[p] EXCEPT !.pc = pc]
<1>1. Sound(p, worker[p], beats[p], said[p], late[p], heartbeat)
  BY Unmoved
<1>2. worker' = [worker EXCEPT ![p] = w]
  BY DEF Heart!Goto, HeartInv
<1>3. /\ w \in WorkerRow /\ w.pc = pc
      /\ w.lingering = worker[p].lingering /\ w.hung = worker[p].hung
  BY <1>1, AtTyped DEF Sound
<1> HIDE DEF w
<1>4. Watched(w, beats[p])
  <2>1. CASE worker[p].pc \in Early /\ (pc \in Early \/ pc = "shutdown")
    <3>1. beats[p] = <<>> /\ worker[p].lingering = {}
      BY <2>1, <1>1 DEF Sound, Watched, Early
    <3>2. LiveBeats(beats[p]) = {}
      BY <3>1 DEF LiveBeats
    <3> QED BY <3>1, <3>2, <1>3 DEF Watched
  <2>2. CASE worker[p].pc \notin Early \cup Beating /\ pc \in {"index", "loop"} /\ worker[p].lingering = {}
    BY <2>2, <1>1, <1>3 DEF Sound, Watched, Early
  <2>3. CASE pc = "closing" /\ worker[p].pc = "shutdown"
    BY <2>3, <1>1, <1>3 DEF Sound, Watched, Early, Beating
  <2> QED BY <2>1, <2>2, <2>3
<1>5. Replaced(p, w, late[p], heartbeat)
  BY <1>1, <1>3 DEF Sound, Replaced, Early, Beating
<1> QED BY <1>2, <1>3, <1>4, <1>5, MainMoves

\* A process that takes the row over has no thread yet.
LEMMA TakeOver ==
  ASSUME HeartInv, NEW p \in Starts, worker[p].pc \in Early,
         Heart!Say(p, "starting", None), Heart!Goto(p, "loop"),
         UNCHANGED <<beats, late>>
  PROVE  HeartInv'
<1> DEFINE w == [worker[p] EXCEPT !.pc = "loop"]
           word == Heart!Content(p, "starting", None)
<1>1. Sound(p, worker[p], beats[p], said[p], late[p], heartbeat)
  BY Unmoved
<1>2. /\ worker' = [worker EXCEPT ![p] = w]
      /\ heartbeat' = word /\ said' = [said EXCEPT ![p] = word]
  BY DEF Heart!Goto, Heart!Say, HeartInv
<1>3. "loop" \in WorkerPoints
  BY DEF WorkerPoints
<1>4. /\ w \in WorkerRow /\ w.pc = "loop"
      /\ w.lingering = worker[p].lingering /\ w.hung = worker[p].hung
  BY <1>1, <1>3, AtTyped DEF Sound
<1>5. beats[p] = <<>> /\ worker[p].lingering = {} /\ late[p] = 0
  BY <1>1 DEF Sound, Watched, Replaced, Early
<1>6. LiveBeats(beats[p]) = {}
  BY <1>5 DEF LiveBeats
<1>7. IsOf(word, p) \/ word = None
  BY DEF IsOf, Heart!Content
<1> HIDE DEF w, word
<1>8. Watched(w, beats[p]) /\ Telling(p, w, beats[p], word, word) /\ Replaced(p, w, late[p], word)
  BY <1>4, <1>5, <1>6 DEF Watched, Telling, Replaced, Early
<1>9. Sound(p, w, beats[p], word, late[p], heartbeat')
  BY <1>1, <1>2, <1>4, <1>8 DEF Sound
<1>10. StepOf(p, w, beats[p], word, late[p])
  BY <1>2, <1>7, Unmoved DEF StepOf
<1> QED BY <1>9, <1>10, HeartFrame, Zenon

LEMMA StartKeeps ==
  ASSUME HeartInv, NEW p \in Starts,
         Heart!Launch(p) \/ Heart!Start(p) \/ Heart!Insert(p) \/ Heart!StartFails(p)
  PROVE  HeartInv'
<1>0. /\ "start" \in WorkerPoints /\ "insert" \in WorkerPoints /\ "shutdown" \in WorkerPoints
      /\ {"new", "start", "insert"} = Early
  BY DEF WorkerPoints, Early
<1>1. CASE Heart!Launch(p)
  BY <1>0, <1>1, GotoKeeps DEF Heart!Launch, Early
<1>2. CASE Heart!Start(p) /\ heartbeat = None
  <2>1. /\ Heart!Goto(p, "insert") /\ UNCHANGED <<heartbeat, beats, said, late>>
        /\ worker[p].pc \in Early /\ "insert" \in Early
    BY <1>2 DEF Heart!Start, Early
  <2> QED BY <1>0, <2>1, GotoKeeps
<1>3. CASE Heart!Start(p) /\ heartbeat # None
  BY <1>3, TakeOver DEF Heart!Start, Early
<1>4. CASE Heart!Insert(p)
  BY <1>4, TakeOver DEF Heart!Insert, Early
<1>5. CASE Heart!StartFails(p)
  BY <1>0, <1>5, GotoKeeps DEF Heart!StartFails, Early
<1> QED BY <1>1, <1>2, <1>3, <1>4, <1>5

\* The threads of earlier turns end together.
LEMMA PendingFacts ==
  ASSUME HeartInv, NEW p \in Starts
  PROVE  /\ Heart!Pending(p) \subseteq worker[p].lingering
         /\ Heart!Pending(p) = {} \/ Heart!Pending(p) = worker[p].lingering
         /\ worker[p].pc \in Apart /\ Heart!Pending(p) = {} => Still(p)
<1>1. Watched(worker[p], beats[p])
  BY Unmoved DEF Sound
<1>2. Heart!Pending(p) = {i \in worker[p].lingering : beats[p][i].pc # "dead"}
  BY DEF Heart!Pending, Heart!Alive
<1>3. \A i, j \in worker[p].lingering : i = j
  BY <1>1 DEF Watched
<1>4. ASSUME worker[p].pc \in Apart, Heart!Pending(p) = {}, NEW i \in LiveBeats(beats[p])
      PROVE  worker[p].hung
  BY <1>1, <1>2, <1>4 DEF Watched, Apart, Beating, LiveBeats
<1> QED BY <1>2, <1>3, <1>4 DEF Still

LEMMA DrainedTyped ==
  ASSUME NEW w \in WorkerRow, NEW S \in SUBSET w.lingering
  PROVE  /\ [w EXCEPT !.lingering = S] \in WorkerRow
         /\ [w EXCEPT !.lingering = S].lingering = S
         /\ [w EXCEPT !.lingering = S].hung = w.hung
         /\ [w EXCEPT !.lingering = S].pc = w.pc
BY DEF WorkerRow

LEMMA TurnKeeps ==
  ASSUME HeartInv, NEW p \in Starts, Heart!Turn(p)
  PROVE  HeartInv'
<1> DEFINE w == worker[p]
           P == Heart!Pending(p)
           d == [w EXCEPT !.lingering = P]
           pc == IF w.role = "index" THEN "index" ELSE "idle"
           n == [d EXCEPT !.pc = pc]
           e == [w EXCEPT !.pc = "shutdown"]
           next == IF w.stop THEN e ELSE IF P # {} THEN d ELSE n
<1>1. Sound(p, w, beats[p], said[p], late[p], heartbeat) /\ w.pc = "loop"
  BY Unmoved DEF Heart!Turn
<1>2. UNCHANGED <<beats, late>>
  BY DEF Heart!Turn
<1>3. IF w.stop \/ P = w.lingering
      THEN worker' = [worker EXCEPT ![p] = next] /\ UNCHANGED <<heartbeat, said, writes>>
      ELSE Heart!Record(p, "idle", None, next, next)
  BY DEF Heart!Turn
<1>4. P \subseteq w.lingering /\ (P = {} \/ P = w.lingering) /\ (P = {} => Still(p))
  BY <1>1, PendingFacts DEF Apart
<1>5. pc \in {"index", "idle"} /\ pc \in WorkerPoints /\ "shutdown" \in WorkerPoints
  BY DEF WorkerPoints
<1> HIDE DEF P, pc
<1>6. d \in WorkerRow /\ d.lingering = P /\ d.hung = w.hung /\ d.pc = "loop"
  BY <1>1, <1>4, DrainedTyped DEF Sound
<1> HIDE DEF d
<1>7. n \in WorkerRow /\ n.lingering = P /\ n.hung = w.hung /\ n.pc = pc
  BY <1>5, <1>6, AtTyped
<1>8. e \in WorkerRow /\ e.lingering = w.lingering /\ e.hung = w.hung /\ e.pc = "shutdown"
  BY <1>1, <1>5, AtTyped DEF Sound
<1> HIDE DEF n, e
<1>9. CASE w.stop
  <2>1. worker' = [worker EXCEPT ![p] = e] /\ UNCHANGED <<heartbeat, said>>
    BY <1>3, <1>9
  <2>2. Watched(e, beats[p]) /\ Replaced(p, e, late[p], heartbeat)
    BY <1>1, <1>8 DEF Sound, Watched, Replaced, Early, Beating
  <2> QED BY <1>2, <1>8, <2>1, <2>2, MainMoves
<1>10. CASE ~w.stop /\ P # {}
  <2>1. worker' = [worker EXCEPT ![p] = d] /\ UNCHANGED <<heartbeat, said>>
    BY <1>3, <1>4, <1>10
  <2>2. Watched(d, beats[p]) /\ Replaced(p, d, late[p], heartbeat)
    BY <1>1, <1>4, <1>6, <1>10 DEF Sound, Watched, Replaced, Early, Beating
  <2> QED BY <1>2, <1>6, <2>1, <2>2, MainMoves
<1>11. CASE ~w.stop /\ P = {}
  <2>1. Watched(n, beats[p])
    BY <1>4, <1>5, <1>7, <1>11 DEF Watched, Still, Early
  <2>2. Replaced(p, n, late[p], heartbeat)
    BY <1>1, <1>5, <1>7 DEF Sound, Replaced, Early, Beating
  <2>3. CASE P = w.lingering
    <3>1. worker' = [worker EXCEPT ![p] = n] /\ UNCHANGED <<heartbeat, said>>
      BY <1>3, <1>11, <2>3
    <3> QED BY <1>2, <1>7, <2>1, <2>2, <3>1, MainMoves
  <2>4. CASE P # w.lingering
    <3>1. Heart!Record(p, "idle", None, n, n)
      BY <1>3, <1>11, <2>4
    <3>2. \A i, j \in n.lingering : i = j
      BY <1>7, <1>11
    <3> QED BY <1>2, <1>4, <1>7, <1>11, <2>1, <2>2, <3>1, <3>2, RecordKeeps
  <2> QED BY <2>3, <2>4
<1> QED BY <1>9, <1>10, <1>11

\* Where no thread of an earlier turn is waited for, a heartbeat may be written.
LEMMA IdleKeeps ==
  ASSUME HeartInv, NEW p \in Starts, Heart!Idle(p)
  PROVE  HeartInv'
<1> DEFINE written == [worker[p] EXCEPT !.pc = "claim"]
           refused == [worker[p] EXCEPT !.pc = "loop"]
<1>1. Sound(p, worker[p], beats[p], said[p], late[p], heartbeat) /\ worker[p].pc = "idle"
  BY Unmoved DEF Heart!Idle
<1>2. Heart!Record(p, "idle", None, written, refused) /\ UNCHANGED <<beats, late>>
  BY DEF Heart!Idle, Heart!At
<1>3. "claim" \in WorkerPoints /\ "loop" \in WorkerPoints
  BY DEF WorkerPoints
<1>4. /\ written \in WorkerRow /\ written.lingering = worker[p].lingering
      /\ written.hung = worker[p].hung /\ written.pc = "claim"
      /\ refused \in WorkerRow /\ refused.lingering = worker[p].lingering
      /\ refused.hung = worker[p].hung /\ refused.pc = "loop"
  BY <1>1, <1>3, AtTyped DEF Sound
<1>5. worker[p].lingering = {} /\ Still(p)
  BY <1>1 DEF Sound, Watched, Still, Beating
<1> HIDE DEF written, refused
<1>6. Watched(written, beats[p]) /\ Watched(refused, beats[p])
  BY <1>4, <1>5 DEF Watched, Still, Early
<1>7. Replaced(p, refused, late[p], heartbeat)
  BY <1>1, <1>4 DEF Sound, Replaced, Early, Beating
<1>8. \A i, j \in refused.lingering : i = j
  BY <1>4, <1>5
<1> QED BY <1>2, <1>4, <1>5, <1>6, <1>7, <1>8, RecordKeeps

\* A process claims late once: from then on its heartbeats are refused.
LEMMA ClaimKeeps ==
  ASSUME HeartInv, NEW p \in Starts, Heart!Claim(p)
  PROVE  HeartInv'
<1>1. Sound(p, worker[p], beats[p], said[p], late[p], heartbeat) /\ worker[p].pc = "claim"
  BY Unmoved DEF Heart!Claim
<1>2. late[p] = 0 /\ worker[p].lingering = {} /\ Still(p)
  BY <1>1 DEF Sound, Watched, Replaced, Still, Beating
<1>3. ASSUME NEW t \in Claimed,
             worker' = [worker EXCEPT ![p].pc = "busy", ![p].task = t],
             late' = IF Heart!Owns(p) THEN late ELSE [late EXCEPT ![p] = @ + 1],
             UNCHANGED <<heartbeat, beats, said>>
      PROVE  HeartInv'
  <2> DEFINE w == [worker[p] EXCEPT !.pc = "busy", !.task = t]
             k == IF Heart!Owns(p) THEN 0 ELSE 1
  <2>1. worker[p] \in WorkerRow
    BY <1>1 DEF Sound
  <2>2. w \in WorkerRow
    BY <2>1 DEF WorkerRow, WorkerPoints
  <2>3. w.pc = "busy" /\ w.lingering = {} /\ w.hung = worker[p].hung
    BY <2>1, <1>2 DEF WorkerRow
  <2>4. worker' = [worker EXCEPT ![p] = w]
    BY <1>3 DEF HeartInv
  <2>5. late' = [late EXCEPT ![p] = k]
    <3>1. CASE Heart!Owns(p)
      BY <1>2, <1>3, <3>1, Unmoved
    <3>2. CASE ~Heart!Owns(p)
      <4>1. late' = [late EXCEPT ![p] = late[p] + 1] /\ k = 1
        BY <1>3, <3>2
      <4>2. late[p] + 1 = k
        BY <1>2, <4>1
      <4> QED BY <4>1, <4>2
    <3> QED BY <3>1, <3>2
  <2>6. /\ k \in {0, 1}
        /\ k = 1 => ~IsOf(heartbeat, p)
    BY DEF Heart!Owns, IsOf
  <2> HIDE DEF w, k
  <2>7. Watched(w, beats[p])
    BY <1>2, <2>3 DEF Watched, Still, Early
  <2>8. Telling(p, w, beats[p], said[p], heartbeat)
    BY <1>1, <2>3 DEF Sound, Telling
  <2>9. Replaced(p, w, k, heartbeat)
    BY <2>3, <2>6 DEF Replaced, Early, Beating
  <2>10. Sound(p, w, beats[p], said[p], k, heartbeat')
    BY <1>1, <1>3, <2>2, <2>7, <2>8, <2>9 DEF Sound
  <2>11. StepOf(p, w, beats[p], said[p], k)
    BY <1>3, <2>4, <2>5, Unmoved DEF StepOf
  <2> QED BY <2>10, <2>11, HeartFrame, Zenon
<1>4. ASSUME NEW pc \in {"index", "loop"}, Heart!Goto(p, pc),
             UNCHANGED <<heartbeat, beats, said, late>>
      PROVE  HeartInv'
  <2>1. pc \in WorkerPoints
    BY DEF WorkerPoints
  <2>2. worker[p].pc \notin Early \cup Beating
    BY <1>1 DEF Early, Beating
  <2> QED BY <1>2, <1>4, <2>1, <2>2, GotoKeeps
<1> QED BY <1>3, <1>4 DEF Heart!Claim

\* Work begins with a heartbeat that says so, and with a thread that repeats it.
LEMMA WorkBegins ==
  ASSUME HeartInv, NEW p \in Starts, worker[p].pc \in {"busy", "index"},
         NEW kind \in {"task", "index"}, NEW claimed \in Claimed \cup {None},
         NEW pc \in {"work", "indexing"},
         Heart!Owns(p), Heart!Say(p, "busy", claimed),
         worker' = [worker EXCEPT ![p] = Heart!At(p, pc)],
         beats' = [beats EXCEPT ![p] = Append(@, Heart!NewBeat(kind, claimed))],
         late' = late
  PROVE  HeartInv'
<1> DEFINE w == [worker[p] EXCEPT !.pc = pc]
           b == Heart!NewBeat(kind, claimed)
           bs == Append(beats[p], b)
           word == Heart!Content(p, "busy", claimed)
<1>1. Sound(p, worker[p], beats[p], said[p], late[p], heartbeat)
  BY Unmoved
<1>2. worker[p].lingering = {} /\ Still(p)
  BY <1>1 DEF Sound, Watched, Still, Beating
<1>3. late[p] = 0
  BY <1>1 DEF Sound, Replaced, Heart!Owns, IsOf
<1>4. pc \in WorkerPoints /\ pc \in Beating /\ pc \notin Early
  BY DEF WorkerPoints, Beating, Early
<1>5. /\ w \in WorkerRow /\ w.pc = pc
      /\ w.lingering = {} /\ w.hung = worker[p].hung
  BY <1>1, <1>2, <1>4, AtTyped DEF Sound
<1>6. b \in BeatRow /\ b.task = claimed
  BY DEF Heart!NewBeat, BeatRow
<1>7. worker' = [worker EXCEPT ![p] = w]
  BY DEF Heart!At
<1>8. beats[p] \in Seq(BeatRow)
  BY <1>1 DEF Sound
<1>9. beats' = [beats EXCEPT ![p] = bs]
  BY DEF HeartInv
<1>10. heartbeat' = word /\ said' = [said EXCEPT ![p] = word] /\ (IsOf(word, p) \/ word = None)
  BY DEF Heart!Say, IsOf, Heart!Content
<1> HIDE DEF w, b
<1>11. /\ bs \in Seq(BeatRow) /\ Len(bs) = Len(beats[p]) + 1
       /\ \A i \in DOMAIN bs : i \in DOMAIN beats[p] \/ i = Len(bs)
       /\ \A i \in DOMAIN beats[p] : bs[i] = beats[p][i]
       /\ bs[Len(bs)] = b
  BY <1>6, <1>8
<1> HIDE DEF bs
<1>12. \A i \in LiveBeats(bs) : worker[p].hung \/ i = Len(bs)
  BY <1>2, <1>11 DEF LiveBeats, Still
<1>13. Watched(w, bs)
  BY <1>4, <1>5, <1>12 DEF Watched
<1>14. \A i \in LiveBeats(bs) : worker[p].hung \/ word = Heart!Content(p, "busy", bs[i].task)
  BY <1>6, <1>11, <1>12
<1> HIDE DEF word
<1>15. Telling(p, w, bs, word, word)
  BY <1>5, <1>14 DEF Telling
<1>16. Replaced(p, w, late[p], word)
  BY <1>3 DEF Replaced
<1>17. Sound(p, w, bs, word, late[p], heartbeat')
  BY <1>5, <1>10, <1>11, <1>13, <1>15, <1>16 DEF Sound
<1>18. StepOf(p, w, bs, word, late[p])
  BY <1>7, <1>9, <1>10, Unmoved DEF StepOf
<1> QED BY <1>17, <1>18, HeartFrame, Zenon

\* A heartbeat that was not written keeps the process where no thread runs.
LEMMA RefusedKeeps ==
  ASSUME HeartInv, NEW p \in Starts, NEW w \in WorkerRow,
         worker[p].pc \in Apart, worker[p].lingering = {},
         w.pc \in Apart, w.lingering = {}, w.hung = worker[p].hung,
         worker' = [worker EXCEPT ![p] = w] \/ worker' = [worker EXCEPT ![p] = Gone(w)],
         UNCHANGED <<heartbeat, said, beats, late>>
  PROVE  HeartInv'
<1>1. Sound(p, worker[p], beats[p], said[p], late[p], heartbeat)
  BY Unmoved
<1>2. Still(p)
  BY <1>1 DEF Sound, Watched, Still, Beating, Apart
<1>3. /\ Gone(w) \in WorkerRow /\ Gone(w).lingering = w.lingering /\ Gone(w).hung = w.hung
      /\ Gone(w).pc \in Apart
  BY GoneTyped DEF Apart
<1>4. ASSUME NEW v \in WorkerRow, v.pc \in Apart, v.lingering = {}, v.hung = worker[p].hung,
             worker' = [worker EXCEPT ![p] = v]
      PROVE  HeartInv'
  <2>1. Watched(v, beats[p])
    BY <1>2, <1>4 DEF Watched, Still, Early, Apart
  <2>2. Replaced(p, v, late[p], heartbeat)
    BY <1>1, <1>4 DEF Sound, Replaced, Early, Beating, Apart
  <2> QED BY <1>4, <2>1, <2>2, MainMoves
<1> QED BY <1>3, <1>4

LEMMA BusyKeeps ==
  ASSUME HeartInv, NEW p \in Starts, Heart!Busy(p)
  PROVE  HeartInv'
<1> DEFINE t == worker[p].task
           written == Heart!At(p, "work")
           refused == [Heart!At(p, "loop") EXCEPT !.task = None]
<1>1. Sound(p, worker[p], beats[p], said[p], late[p], heartbeat) /\ worker[p].pc = "busy"
  BY Unmoved DEF Heart!Busy
<1>2. worker[p] \in WorkerRow /\ worker[p].lingering = {} /\ t \in Claimed \cup {None}
  BY <1>1 DEF Sound, Watched, WorkerRow
<1>3. /\ written \in WorkerRow /\ written.pc = "work"
  <2>1. "work" \in WorkerPoints
    BY DEF WorkerPoints
  <2> QED BY <1>2, <2>1, AtTyped DEF Heart!At
<1>4. /\ refused \in WorkerRow /\ refused.pc = "loop" /\ refused.lingering = {}
      /\ refused.hung = worker[p].hung
  BY <1>2 DEF Heart!At, WorkerRow, WorkerPoints
<1>5. /\ Heart!Record(p, "busy", t, written, refused)
      /\ beats' = IF worker'[p].pc = "work"
                  THEN [beats EXCEPT ![p] = Append(@, Heart!NewBeat("task", t))] ELSE beats
      /\ late' = late
  BY DEF Heart!Busy
<1> HIDE DEF written, refused
<1>6. CASE Heart!Owns(p) /\ Heart!Say(p, "busy", t) /\ worker' = [worker EXCEPT ![p] = written]
  <2>1. worker'[p].pc = "work"
    BY <1>3, <1>6 DEF HeartInv
  <2>2. beats' = [beats EXCEPT ![p] = Append(@, Heart!NewBeat("task", t))]
    BY <1>5, <2>1
  <2> QED BY <1>1, <1>2, <1>5, <1>6, <2>2, WorkBegins DEF written
<1>7. CASE UNCHANGED <<heartbeat, said>> /\ worker' = [worker EXCEPT ![p] = Gone(refused)]
  <2>1. Gone(refused).pc # "work"
    BY <1>4, GoneTyped
  <2>2. beats' = beats
    BY <1>5, <1>7, <2>1 DEF HeartInv
  <2> QED BY <1>1, <1>2, <1>4, <1>5, <1>7, <2>2, RefusedKeeps DEF Apart
<1>8. CASE UNCHANGED <<heartbeat, said>> /\ worker' = [worker EXCEPT ![p] = refused]
  <2>1. beats' = beats
    BY <1>4, <1>5, <1>8 DEF HeartInv
  <2> QED BY <1>1, <1>2, <1>4, <1>5, <1>8, <2>1, RefusedKeeps DEF Apart
<1> QED BY <1>5, <1>6, <1>7, <1>8, Zenon DEF Heart!Record, Gone

LEMMA IndexKeeps ==
  ASSUME HeartInv, NEW p \in Starts, Heart!Index(p)
  PROVE  HeartInv'
<1> DEFINE written == Heart!At(p, "indexing")
           refused == Heart!At(p, "rest")
<1>1. Sound(p, worker[p], beats[p], said[p], late[p], heartbeat) /\ worker[p].pc = "index"
  BY Unmoved DEF Heart!Index
<1>2. worker[p] \in WorkerRow /\ worker[p].lingering = {}
  BY <1>1 DEF Sound, Watched
<1>3. written \in WorkerRow /\ written.pc = "indexing"
  <2>1. "indexing" \in WorkerPoints
    BY DEF WorkerPoints
  <2> QED BY <1>2, <2>1, AtTyped DEF Heart!At
<1>4. /\ refused \in WorkerRow /\ refused.pc = "rest" /\ refused.lingering = {}
      /\ refused.hung = worker[p].hung
  <2>1. "rest" \in WorkerPoints
    BY DEF WorkerPoints
  <2> QED BY <1>2, <2>1, AtTyped DEF Heart!At
<1>5. late' = late
  BY DEF Heart!Index
<1> HIDE DEF written, refused
<1>6. ASSUME Heart!Record(p, "busy", None, written, refused),
             beats' = IF worker'[p].pc = "indexing"
                      THEN [beats EXCEPT ![p] = Append(@, Heart!NewBeat("index", None))] ELSE beats
      PROVE  HeartInv'
  <2>1. CASE Heart!Owns(p) /\ Heart!Say(p, "busy", None) /\ worker' = [worker EXCEPT ![p] = written]
    <3>1. worker'[p].pc = "indexing"
      BY <1>3, <2>1 DEF HeartInv
    <3>2. beats' = [beats EXCEPT ![p] = Append(@, Heart!NewBeat("index", None))]
      BY <1>6, <3>1
    <3> QED BY <1>1, <1>2, <1>5, <2>1, <3>2, WorkBegins DEF written
  <2>2. CASE UNCHANGED <<heartbeat, said>> /\ worker' = [worker EXCEPT ![p] = Gone(refused)]
    <3>1. Gone(refused).pc # "indexing"
      BY <1>4, GoneTyped
    <3>2. beats' = beats
      BY <1>6, <2>2, <3>1 DEF HeartInv
    <3> QED BY <1>1, <1>2, <1>4, <1>5, <2>2, <3>2, RefusedKeeps DEF Apart
  <2>3. CASE UNCHANGED <<heartbeat, said>> /\ worker' = [worker EXCEPT ![p] = refused]
    <3>1. beats' = beats
      BY <1>4, <1>6, <2>3 DEF HeartInv
    <3> QED BY <1>1, <1>2, <1>4, <1>5, <2>3, <3>1, RefusedKeeps DEF Apart
  <2> QED BY <1>6, <2>1, <2>2, <2>3, Zenon DEF Heart!Record, Gone
<1>7. ASSUME Heart!Goto(p, "rest"), UNCHANGED <<heartbeat, said, writes, beats>>
      PROVE  HeartInv'
  <2>1. worker' = [worker EXCEPT ![p] = refused]
    BY <1>7 DEF Heart!Goto, Heart!At, refused, HeartInv
  <2> QED BY <1>1, <1>2, <1>4, <1>5, <1>7, <2>1, RefusedKeeps DEF Apart
<1> QED BY <1>6, <1>7, Zenon DEF Heart!Index, written, refused

LEMMA RestKeeps ==
  ASSUME HeartInv, NEW p \in Starts, Heart!Rest(p)
  PROVE  HeartInv'
<1> DEFINE rested == [Heart!At(p, "loop") EXCEPT !.task = None]
<1>1. Sound(p, worker[p], beats[p], said[p], late[p], heartbeat) /\ worker[p].pc = "rest"
  BY Unmoved DEF Heart!Rest
<1>2. worker[p] \in WorkerRow /\ worker[p].lingering = {} /\ Still(p)
  BY <1>1 DEF Sound, Watched, Still, Beating
<1>3. /\ rested \in WorkerRow /\ rested.pc = "loop" /\ rested.lingering = {}
      /\ rested.hung = worker[p].hung
  BY <1>2 DEF Heart!At, WorkerRow, WorkerPoints
<1>4. /\ IF worker[p].lost
         THEN worker' = [worker EXCEPT ![p] = rested] /\ UNCHANGED <<heartbeat, said, writes>>
         ELSE Heart!Record(p, "idle", None, rested, rested)
      /\ UNCHANGED <<beats, late>>
  BY DEF Heart!Rest
<1> HIDE DEF rested
<1>5. Watched(rested, beats[p])
  BY <1>2, <1>3 DEF Watched, Still, Early
<1>6. Replaced(p, rested, late[p], heartbeat)
  BY <1>1, <1>3 DEF Sound, Replaced, Early, Beating
<1>7. \A i, j \in rested.lingering : i = j
  BY <1>3
<1>8. CASE worker[p].lost
  BY <1>1, <1>2, <1>3, <1>4, <1>8, RefusedKeeps DEF Apart
<1>9. CASE ~worker[p].lost
  BY <1>2, <1>3, <1>4, <1>5, <1>6, <1>7, <1>9, RecordKeeps
<1> QED BY <1>8, <1>9

LEMMA ShutdownKeeps ==
  ASSUME HeartInv, NEW p \in Starts, Heart!Shutdown(p)
  PROVE  HeartInv'
<1> DEFINE closing == Heart!At(p, "closing")
<1>1. Sound(p, worker[p], beats[p], said[p], late[p], heartbeat) /\ worker[p].pc = "shutdown"
  BY Unmoved DEF Heart!Shutdown
<1>2. "closing" \in WorkerPoints
  BY DEF WorkerPoints
<1>3. /\ closing \in WorkerRow /\ closing.pc = "closing"
      /\ closing.lingering = worker[p].lingering /\ closing.hung = worker[p].hung
  BY <1>1, <1>2, AtTyped DEF Sound, Heart!At
<1>4. /\ IF worker[p].lost \/ Heart!Pending(p) # {}
         THEN Heart!Goto(p, "closing") /\ UNCHANGED <<heartbeat, said, writes>>
         ELSE Heart!Record(p, "stopping", None, closing, closing)
      /\ UNCHANGED <<beats, late>>
  BY DEF Heart!Shutdown
<1>5. CASE worker[p].lost \/ Heart!Pending(p) # {}
  BY <1>1, <1>2, <1>4, <1>5, GotoKeeps
<1> HIDE DEF closing
<1>6. CASE ~(worker[p].lost \/ Heart!Pending(p) # {})
  <2>1. Still(p)
    BY <1>1, <1>6, PendingFacts DEF Apart
  <2>2. Watched(closing, beats[p]) /\ \A i, j \in closing.lingering : i = j
    BY <1>1, <1>3, <2>1 DEF Sound, Watched, Still, Early
  <2>3. Replaced(p, closing, late[p], heartbeat)
    BY <1>1, <1>3 DEF Sound, Replaced, Early, Beating
  <2> QED BY <1>3, <1>4, <1>6, <2>1, <2>2, <2>3, RecordKeeps
<1> QED BY <1>5, <1>6

LEMMA StopKeeps ==
  ASSUME HeartInv, NEW p \in Starts, Heart!Stop(p)
  PROVE  HeartInv'
<1> DEFINE w == [worker[p] EXCEPT !.stop = TRUE]
<1>1. Sound(p, worker[p], beats[p], said[p], late[p], heartbeat)
  BY Unmoved
<1>2. /\ w \in WorkerRow /\ w.pc = worker[p].pc
      /\ w.lingering = worker[p].lingering /\ w.hung = worker[p].hung
  BY <1>1 DEF Sound, WorkerRow
<1>3. worker' = [worker EXCEPT ![p] = w] /\ UNCHANGED <<heartbeat, beats, said, late>>
  BY DEF Heart!Stop, HeartInv
<1> HIDE DEF w
<1>4. Watched(w, beats[p]) /\ Replaced(p, w, late[p], heartbeat)
  BY <1>1, <1>2 DEF Sound, Watched, Replaced
<1> QED BY <1>2, <1>3, <1>4, MainMoves

\* The wait for a thread ends: with the thread, or with the worker's patience.
LEMMA StopBeatKeeps ==
  ASSUME HeartInv, NEW p \in Starts, Heart!StopBeat(p)
  PROVE  HeartInv'
<1> DEFINE k == Len(beats[p])
           ended == [worker[p] EXCEPT !.pc = "rest"]
           left == [[worker[p] EXCEPT !.pc = "loop"] EXCEPT !.task = None,
                                                           !.lingering = worker[p].lingering \cup {k}]
<1>1. Sound(p, worker[p], beats[p], said[p], late[p], heartbeat) /\ worker[p].pc = "stopping_beat"
  BY Unmoved DEF Heart!StopBeat
<1>2. /\ worker[p] \in WorkerRow /\ worker[p].lingering = {} /\ k \in Nat
      /\ \A i \in LiveBeats(beats[p]) : worker[p].hung \/ i = k
  BY <1>1 DEF Sound, Watched
<1>3. "rest" \in WorkerPoints
  BY DEF WorkerPoints
<1>4. /\ ended \in WorkerRow /\ ended.pc = "rest" /\ ended.lingering = {}
      /\ ended.hung = worker[p].hung
  BY <1>2, <1>3, AtTyped
<1>5. /\ left \in WorkerRow /\ left.pc = "loop" /\ left.lingering = {k}
      /\ left.hung = worker[p].hung
  BY <1>2 DEF WorkerRow, WorkerPoints
<1>6. /\ worker' = [worker EXCEPT ![p] = IF Heart!Stopped(p) /\ ~worker[p].lost THEN ended ELSE left]
      /\ UNCHANGED <<heartbeat, beats, said, late>>
  BY DEF Heart!StopBeat, Heart!At, HeartInv
<1> HIDE DEF ended, left
<1>7. CASE Heart!Stopped(p) /\ ~worker[p].lost
  <2>1. beats[p][k].pc = "dead"
    BY <1>7 DEF Heart!Stopped, Heart!Alive
  <2>2. Watched(ended, beats[p])
    BY <1>2, <1>4, <2>1 DEF Watched, LiveBeats, Early
  <2>3. Replaced(p, ended, late[p], heartbeat)
    BY <1>1, <1>4 DEF Sound, Replaced, Early, Beating
  <2>4. worker' = [worker EXCEPT ![p] = ended]
    BY <1>6, <1>7
  <2> QED BY <1>4, <1>6, <2>2, <2>3, <2>4, MainMoves
<1>8. CASE ~(Heart!Stopped(p) /\ ~worker[p].lost)
  <2>1. Watched(left, beats[p])
    BY <1>2, <1>5 DEF Watched, Early
  <2>2. Replaced(p, left, late[p], heartbeat)
    BY <1>1, <1>5 DEF Sound, Replaced, Early, Beating
  <2>3. worker' = [worker EXCEPT ![p] = left]
    BY <1>6, <1>8
  <2> QED BY <1>5, <1>6, <2>1, <2>2, <2>3, MainMoves
<1> QED BY <1>7, <1>8

LEMMA JoinBeatKeeps ==
  ASSUME HeartInv, NEW p \in Starts, Heart!JoinBeat(p)
  PROVE  HeartInv'
<1> DEFINE k == Len(beats[p])
           ended == [worker[p] EXCEPT !.pc = "rest"]
           given == [worker[p] EXCEPT !.pc = "loop", !.stop = TRUE, !.hung = TRUE]
<1>1. Sound(p, worker[p], beats[p], said[p], late[p], heartbeat) /\ worker[p].pc = "joining"
  BY Unmoved DEF Heart!JoinBeat
<1>2. /\ worker[p] \in WorkerRow /\ worker[p].lingering = {} /\ k \in Nat
      /\ \A i \in LiveBeats(beats[p]) : worker[p].hung \/ i = k
  BY <1>1 DEF Sound, Watched
<1>3. "rest" \in WorkerPoints
  BY DEF WorkerPoints
<1>4. /\ ended \in WorkerRow /\ ended.pc = "rest" /\ ended.lingering = {}
      /\ ended.hung = worker[p].hung
  BY <1>2, <1>3, AtTyped
<1>5. given \in WorkerRow /\ given.pc = "loop" /\ given.lingering = {} /\ given.hung
  BY <1>2 DEF WorkerRow, WorkerPoints
<1>6. /\ worker' = [worker EXCEPT ![p] = IF Heart!Alive(p, k) THEN given ELSE ended]
      /\ UNCHANGED <<heartbeat, beats, said, late>>
  BY DEF Heart!JoinBeat, HeartInv
<1> HIDE DEF ended, given
<1>7. CASE ~Heart!Alive(p, k)
  <2>1. Watched(ended, beats[p])
    BY <1>2, <1>4, <1>7 DEF Watched, LiveBeats, Early, Heart!Alive
  <2>2. Replaced(p, ended, late[p], heartbeat)
    BY <1>1, <1>4 DEF Sound, Replaced, Early, Beating
  <2>3. worker' = [worker EXCEPT ![p] = ended]
    BY <1>6, <1>7
  <2> QED BY <1>4, <1>6, <2>1, <2>2, <2>3, MainMoves
<1>8. CASE Heart!Alive(p, k)
  <2>1. Watched(given, beats[p])
    BY <1>5 DEF Watched, Early
  <2>2. Replaced(p, given, late[p], heartbeat)
    BY <1>1, <1>5 DEF Sound, Replaced, Early, Beating
  <2>3. worker' = [worker EXCEPT ![p] = given]
    BY <1>6, <1>8
  <2> QED BY <1>5, <1>6, <2>1, <2>2, <2>3, MainMoves
<1> QED BY <1>7, <1>8

\* Threads move, and write at most what the main program wrote last.
LEMMA ThreadsMove ==
  ASSUME HeartInv, NEW p \in Starts, NEW w \in WorkerRow, NEW bs \in Seq(BeatRow),
         worker' = [worker EXCEPT ![p] = w], beats' = [beats EXCEPT ![p] = bs],
         UNCHANGED <<said, late>>,
         w.hung = worker[p].hung,
         Watched(w, bs), Replaced(p, w, late[p], heartbeat),
         \A i \in LiveBeats(bs) : i \in LiveBeats(beats[p]) /\ bs[i].task = beats[p][i].task,
         \/ heartbeat' = heartbeat
         \/ /\ IsOf(heartbeat, p)
            /\ IsOf(heartbeat', p) \/ heartbeat' = None
            /\ worker[p].hung \/ heartbeat' = said[p]
  PROVE  HeartInv'
<1>1. Telling(p, worker[p], beats[p], said[p], heartbeat)
  BY Unmoved DEF Sound
<1>2. Telling(p, w, bs, said[p], heartbeat')
  BY <1>1 DEF Telling
<1>3. Replaced(p, w, late[p], heartbeat')
  BY DEF Replaced
<1>4. Sound(p, w, bs, said[p], late[p], heartbeat')
  BY <1>2, <1>3 DEF Sound
<1>5. /\ said' = [said EXCEPT ![p] = said[p]]
      /\ late' = [late EXCEPT ![p] = late[p]]
  BY Unmoved
<1>6. StepOf(p, w, bs, said[p], late[p])
  BY <1>5 DEF StepOf
<1> QED BY <1>4, <1>6, HeartFrame, Zenon

\* One thread of a process goes on.
Stepped(bs, i, pc) == [bs EXCEPT ![i] = [bs[i] EXCEPT !.pc = pc]]

LEMMA SteppedFacts ==
  ASSUME NEW bs \in Seq(BeatRow), NEW i \in LiveBeats(bs), NEW pc \in {"wait", "write", "renew", "dead"}
  PROVE  /\ Stepped(bs, i, pc) \in Seq(BeatRow)
         /\ Len(Stepped(bs, i, pc)) = Len(bs)
         /\ \A j \in LiveBeats(Stepped(bs, i, pc)) :
              j \in LiveBeats(bs) /\ Stepped(bs, i, pc)[j].task = bs[j].task
<1>1. i \in DOMAIN bs /\ bs[i] \in BeatRow
  BY DEF LiveBeats
<1> DEFINE b == [bs[i] EXCEPT !.pc = pc]
<1>2. b \in BeatRow /\ b.task = bs[i].task
  BY <1>1 DEF BeatRow
<1>3. Stepped(bs, i, pc) = [bs EXCEPT ![i] = b]
  BY DEF Stepped
<1> HIDE DEF b
<1>4. /\ Stepped(bs, i, pc) \in Seq(BeatRow) /\ Len(Stepped(bs, i, pc)) = Len(bs)
      /\ DOMAIN Stepped(bs, i, pc) = DOMAIN bs
      /\ \A j \in DOMAIN bs : Stepped(bs, i, pc)[j] = IF j = i THEN b ELSE bs[j]
  BY <1>1, <1>2, <1>3
<1> QED BY <1>1, <1>2, <1>4 DEF LiveBeats

\* A thread of a process goes on by itself.
LEMMA ThreadSteps ==
  ASSUME HeartInv, NEW p \in Starts, NEW i \in LiveBeats(beats[p]),
         NEW pc \in {"wait", "write", "renew", "dead"}, NEW w \in WorkerRow,
         beats' = [beats EXCEPT ![p] = Stepped(beats[p], i, pc)],
         worker' = [worker EXCEPT ![p] = w],
         UNCHANGED <<said, late>>,
         w.hung = worker[p].hung, w.pc = worker[p].pc, w.lingering = worker[p].lingering,
         \/ heartbeat' = heartbeat
         \/ /\ IsOf(heartbeat, p)
            /\ IsOf(heartbeat', p) \/ heartbeat' = None
            /\ worker[p].hung \/ heartbeat' = said[p]
  PROVE  HeartInv'
<1> DEFINE bs == Stepped(beats[p], i, pc)
<1>1. Sound(p, worker[p], beats[p], said[p], late[p], heartbeat)
  BY Unmoved
<1>2. beats[p] \in Seq(BeatRow)
  BY <1>1 DEF Sound
<1>3. /\ bs \in Seq(BeatRow) /\ Len(bs) = Len(beats[p])
      /\ \A j \in LiveBeats(bs) : j \in LiveBeats(beats[p]) /\ bs[j].task = beats[p][j].task
  BY <1>2, SteppedFacts
<1> HIDE DEF bs
<1>4. worker[p].pc \notin Early
  <2>1. beats[p] # <<>>
    BY DEF LiveBeats
  <2> QED BY <1>1, <2>1 DEF Sound, Watched
<1>5. Watched(w, bs)
  BY <1>1, <1>3, <1>4 DEF Sound, Watched
<1>6. Replaced(p, w, late[p], heartbeat)
  BY <1>1 DEF Sound, Replaced
<1>7. beats' = [beats EXCEPT ![p] = bs]
  BY DEF bs
<1> QED BY <1>3, <1>5, <1>6, <1>7, ThreadsMove

LEMMA WakeKeeps ==
  ASSUME HeartInv, NEW p \in Starts, NEW i \in DOMAIN beats[p],
         Heart!Wake(p, i) \/ Heart!Renew(p, i)
  PROVE  HeartInv'
<1>1. i \in LiveBeats(beats[p])
  BY DEF Heart!Wake, Heart!Renew, LiveBeats
<1>2. \E pc \in {"wait", "write", "renew", "dead"} : beats' = [beats EXCEPT ![p] = Stepped(beats[p], i, pc)]
  <2>1. beats[p] = [j \in DOMAIN beats[p] |-> beats[p][j]]
    BY Unmoved DEF Sound
  <2>2. CASE Heart!Wake(p, i)
    <3> DEFINE pc == IF beats[p][i].stop THEN "dead" ELSE "write"
    <3>1. beats' = [beats EXCEPT ![p] = Stepped(beats[p], i, pc)]
      BY <2>2 DEF Heart!Wake, Stepped, HeartInv
    <3> QED BY <3>1
  <2>3. CASE Heart!Renew(p, i)
    <3>1. PICK lost \in BOOLEAN : beats' = [beats EXCEPT ![p][i].pc = IF lost THEN "dead" ELSE "wait"]
      BY <2>3 DEF Heart!Renew
    <3> DEFINE pc == IF lost THEN "dead" ELSE "wait"
    <3>2. beats' = [beats EXCEPT ![p] = Stepped(beats[p], i, pc)]
      BY <3>1 DEF Stepped, HeartInv
    <3> QED BY <3>2
  <2> QED BY <2>2, <2>3
<1>3. PICK pc \in {"wait", "write", "renew", "dead"} : beats' = [beats EXCEPT ![p] = Stepped(beats[p], i, pc)]
  BY <1>2
<1>4. worker' = [worker EXCEPT ![p] = worker[p]] /\ worker[p] \in WorkerRow
  BY Unmoved DEF Sound, Heart!Wake, Heart!Renew
<1>5. UNCHANGED <<heartbeat, said, late>>
  BY DEF Heart!Wake, Heart!Renew
<1> QED BY <1>1, <1>3, <1>4, <1>5, ThreadSteps

\* A thread's write, however late, repeats the main program's last word.
LEMMA RefreshKeeps ==
  ASSUME HeartInv, NEW p \in Starts, NEW i \in DOMAIN beats[p], Heart!Refresh(p, i)
  PROVE  HeartInv'
<1> DEFINE beat == beats[p][i]
<1>1. i \in LiveBeats(beats[p]) /\ UNCHANGED <<said, late>>
  BY DEF Heart!Refresh, LiveBeats
<1>2. Sound(p, worker[p], beats[p], said[p], late[p], heartbeat)
  BY Unmoved
<1>3. worker[p] \in WorkerRow /\ worker = [worker EXCEPT ![p] = worker[p]]
  BY <1>2, Unmoved DEF Sound
<1>4. CASE /\ Heart!Owns(p)
           /\ heartbeat' = Heart!Content(p, "busy", beat.task)
           /\ beats' = [beats EXCEPT ![p][i].pc = IF beat.kind = "task" THEN "renew" ELSE "wait"]
           /\ UNCHANGED worker
  <2> DEFINE pc == IF beat.kind = "task" THEN "renew" ELSE "wait"
  <2>1. beats' = [beats EXCEPT ![p] = Stepped(beats[p], i, pc)]
    BY <1>4 DEF Stepped, HeartInv
  <2>2. IsOf(heartbeat, p)
    BY <1>4 DEF Heart!Owns, IsOf
  <2>3. IsOf(heartbeat', p) \/ heartbeat' = None
    BY <1>4 DEF IsOf, Heart!Content
  <2>4. worker[p].hung \/ said[p] = Heart!Content(p, "busy", beats[p][i].task)
    BY <1>1, <1>2 DEF Sound, Telling
  <2>5. worker[p].hung \/ heartbeat' = said[p]
    BY <1>4, <2>4
  <2>7. pc \in {"wait", "write", "renew", "dead"} /\ worker' = [worker EXCEPT ![p] = worker[p]]
    BY <1>3, <1>4
  <2> QED BY <1>1, <1>3, <2>1, <2>2, <2>3, <2>5, <2>7, ThreadSteps
<1>5. CASE /\ worker' = [worker EXCEPT ![p].lost = TRUE, ![p].stop = TRUE]
           /\ beats' = [beats EXCEPT ![p][i].pc = IF beat.kind = "task" THEN "dead" ELSE "wait"]
           /\ UNCHANGED heartbeat
  <2> DEFINE pc == IF beat.kind = "task" THEN "dead" ELSE "wait"
             w == [worker[p] EXCEPT !.lost = TRUE, !.stop = TRUE]
  <2>1. beats' = [beats EXCEPT ![p] = Stepped(beats[p], i, pc)]
    BY <1>5 DEF Stepped, HeartInv
  <2>2. worker' = [worker EXCEPT ![p] = w]
    BY <1>5 DEF HeartInv
  <2>3. /\ w \in WorkerRow /\ w.pc = worker[p].pc
        /\ w.lingering = worker[p].lingering /\ w.hung = worker[p].hung
    BY <1>3 DEF WorkerRow
  <2>4. pc \in {"wait", "write", "renew", "dead"}
    OBVIOUS
  <2> HIDE DEF w
  <2> QED BY <1>1, <1>5, <2>1, <2>2, <2>3, <2>4, ThreadSteps, ZenonT(30)
<1>6. CASE beats' = [beats EXCEPT ![p][i].pc = "wait"] /\ UNCHANGED <<heartbeat, worker>>
  <2>1. beats' = [beats EXCEPT ![p] = Stepped(beats[p], i, "wait")]
    BY <1>6 DEF Stepped, HeartInv
  <2> QED BY <1>1, <1>3, <1>6, <2>1, ThreadSteps
<1> QED BY <1>4, <1>5, <1>6 DEF Heart!Refresh

\* The work ends: its thread runs on until it sees that it was asked to stop.
LEMMA EndWorkKeeps ==
  ASSUME HeartInv, NEW p \in Starts, Heart!EndWork(p)
  PROVE  HeartInv'
<1> DEFINE k == Len(beats[p])
           pc == IF worker[p].pc = "work" THEN "stopping_beat" ELSE "joining"
           w == [worker[p] EXCEPT !.pc = pc]
           b == [beats[p][k] EXCEPT !.stop = TRUE]
           bs == [beats[p] EXCEPT ![k] = b]
<1>1. Sound(p, worker[p], beats[p], said[p], late[p], heartbeat) /\ worker[p].pc \in {"work", "indexing"}
  BY Unmoved DEF Heart!EndWork
<1>2. beats[p] \in Seq(BeatRow) /\ worker[p] \in WorkerRow
  BY <1>1 DEF Sound
<1>3. worker' = [worker EXCEPT ![p] = w]
  BY DEF Heart!EndWork, Heart!Goto, HeartInv
<1>4. beats' = [beats EXCEPT ![p] = bs] /\ UNCHANGED <<heartbeat, said, late>>
  BY DEF Heart!EndWork, HeartInv
<1>5. /\ bs \in Seq(BeatRow) /\ Len(bs) = Len(beats[p]) /\ DOMAIN bs = DOMAIN beats[p]
      /\ \A i \in DOMAIN bs : bs[i].pc = beats[p][i].pc /\ bs[i].task = beats[p][i].task
  <2>1. CASE k \in DOMAIN beats[p]
    <3>1. beats[p][k] \in BeatRow
      BY <1>2, <2>1
    <3>2. b \in BeatRow /\ b.pc = beats[p][k].pc /\ b.task = beats[p][k].task
      BY <3>1 DEF BeatRow
    <3> HIDE DEF b
    <3> QED BY <1>2, <2>1, <3>2
  <2>2. CASE k \notin DOMAIN beats[p]
    <3>1. bs = [i \in DOMAIN beats[p] |-> beats[p][i]]
      BY <2>2
    <3>2. bs = beats[p]
      BY <1>2, <3>1
    <3> QED BY <1>2, <3>2
  <2> QED BY <2>1, <2>2
<1>6. \A i \in LiveBeats(bs) : i \in LiveBeats(beats[p]) /\ bs[i].task = beats[p][i].task
  BY <1>5 DEF LiveBeats
<1>7. pc \in {"stopping_beat", "joining"} /\ pc \in WorkerPoints
  BY <1>1 DEF WorkerPoints
<1> HIDE DEF bs, pc
<1>8. /\ w \in WorkerRow /\ w.pc = pc
      /\ w.lingering = worker[p].lingering /\ w.hung = worker[p].hung
  BY <1>2, <1>7, AtTyped
<1> HIDE DEF w
<1>9. Watched(w, bs)
  BY <1>1, <1>5, <1>6, <1>7, <1>8 DEF Sound, Watched, Early, Beating
<1>10. Replaced(p, w, late[p], heartbeat)
  BY <1>1 DEF Sound, Replaced, Beating
<1> QED BY <1>3, <1>4, <1>5, <1>6, <1>8, <1>9, <1>10, ThreadsMove

\* The process ends, its threads with it.
LEMMA ExitKeeps ==
  ASSUME HeartInv, NEW p \in Starts, Heart!Exit(p)
  PROVE  HeartInv'
<1> DEFINE w == [worker[p] EXCEPT !.pc = "dead"]
           bs == [i \in DOMAIN beats[p] |-> [beats[p][i] EXCEPT !.pc = "dead"]]
<1>1. Sound(p, worker[p], beats[p], said[p], late[p], heartbeat) /\ worker[p].pc # "new"
  BY Unmoved DEF Heart!Exit
<1>2. beats[p] \in Seq(BeatRow) /\ worker[p] \in WorkerRow
  BY <1>1 DEF Sound
<1>3. worker' = [worker EXCEPT ![p] = w]
  BY DEF Heart!Exit, Heart!Goto, HeartInv
<1>4. beats' = [beats EXCEPT ![p] = bs] /\ UNCHANGED <<heartbeat, said, late>>
  BY DEF Heart!Exit, HeartInv
<1>5. bs \in Seq(BeatRow)
  <2> DEFINE n == Len(beats[p])
             b(i) == [beats[p][i] EXCEPT !.pc = "dead"]
  <2>1. DOMAIN beats[p] = 1..n /\ n \in Nat /\ \A i \in 1..n : beats[p][i] \in BeatRow
    BY <1>2
  <2>2. \A i \in 1..n : b(i) \in BeatRow
    BY <2>1 DEF BeatRow
  <2>3. bs = [i \in 1..n |-> b(i)]
    BY <2>1
  <2> HIDE DEF n, b
  <2>4. [i \in 1..n |-> b(i)] \in Seq(BeatRow)
    BY <2>1, <2>2
  <2> QED BY <2>3, <2>4
<1>6. LiveBeats(bs) = {}
  <2>1. \A i \in DOMAIN beats[p] : beats[p][i] \in BeatRow
    BY <1>2
  <2>2. \A i \in DOMAIN beats[p] : [beats[p][i] EXCEPT !.pc = "dead"].pc = "dead"
    BY <2>1 DEF BeatRow
  <2> QED BY <2>2 DEF LiveBeats
<1>7. /\ w \in WorkerRow /\ w.pc = "dead"
      /\ w.lingering = worker[p].lingering /\ w.hung = worker[p].hung
  <2>1. "dead" \in WorkerPoints
    BY DEF WorkerPoints
  <2> QED BY <1>2, <2>1, AtTyped
<1> HIDE DEF w, bs
<1>8. Watched(w, bs)
  BY <1>1, <1>6, <1>7 DEF Sound, Watched, Early
<1>9. Replaced(p, w, late[p], heartbeat)
  BY <1>1, <1>7 DEF Sound, Replaced, Early, Beating
<1> QED BY <1>3, <1>4, <1>5, <1>6, <1>7, <1>8, <1>9, ThreadsMove

LEMMA HeartKept ==
  ASSUME HeartInv, Heart!HeartbeatNext
  PROVE  HeartInv'
<1>1. PICK p \in Starts :
        \/ Heart!Launch(p) \/ Heart!Main(p) \/ Heart!StartFails(p) \/ Heart!Stop(p) \/ Heart!Exit(p)
        \/ \E i \in DOMAIN beats[p] : Heart!Beat(p, i)
  BY DEF Heart!HeartbeatNext
<1>2. CASE Heart!Launch(p) \/ Heart!StartFails(p)
  BY <1>2, StartKeeps
<1>3. CASE Heart!Main(p)
  <2>1. CASE Heart!Start(p) \/ Heart!Insert(p)
    BY <2>1, StartKeeps
  <2>2. CASE Heart!Turn(p)
    BY <2>2, TurnKeeps
  <2>3. CASE Heart!Idle(p)
    BY <2>3, IdleKeeps
  <2>4. CASE Heart!Claim(p)
    BY <2>4, ClaimKeeps
  <2>5. CASE Heart!Busy(p)
    BY <2>5, BusyKeeps
  <2>6. CASE Heart!Index(p)
    BY <2>6, IndexKeeps
  <2>7. CASE Heart!EndWork(p)
    BY <2>7, EndWorkKeeps
  <2>8. CASE Heart!StopBeat(p)
    BY <2>8, StopBeatKeeps
  <2>9. CASE Heart!JoinBeat(p)
    BY <2>9, JoinBeatKeeps
  <2>10. CASE Heart!Rest(p)
    BY <2>10, RestKeeps
  <2>11. CASE Heart!Shutdown(p)
    BY <2>11, ShutdownKeeps
  <2> QED BY <1>3, <2>1, <2>2, <2>3, <2>4, <2>5, <2>6, <2>7, <2>8, <2>9, <2>10, <2>11 DEF Heart!Main
<1>4. CASE Heart!Stop(p)
  BY <1>4, StopKeeps
<1>5. CASE Heart!Exit(p)
  BY <1>5, ExitKeeps
<1>6. ASSUME NEW i \in DOMAIN beats[p], Heart!Beat(p, i)
      PROVE  HeartInv'
  BY <1>6, WakeKeeps, RefreshKeeps DEF Heart!Beat
<1> QED BY <1>1, <1>2, <1>3, <1>4, <1>5, <1>6

LEMMA HeartInit ==
  ASSUME Heart!HeartbeatInit
  PROVE  HeartInv
<1>1. PICK role \in [Starts -> Roles] : worker = [p \in Starts |-> Heart!NewWorker(role[p])]
  BY DEF Heart!HeartbeatInit
<1>2. ASSUME NEW p \in Starts
      PROVE  Sound(p, worker[p], beats[p], said[p], late[p], heartbeat)
  <2>1. /\ worker[p] = Heart!NewWorker(role[p]) /\ role[p] \in Roles
        /\ beats[p] = <<>> /\ late[p] = 0 /\ heartbeat = None
    BY <1>1 DEF Heart!HeartbeatInit
  <2>2. /\ worker[p] \in WorkerRow /\ worker[p].lingering = {}
    BY <2>1 DEF Heart!NewWorker, WorkerRow, WorkerPoints
  <2>3. beats[p] \in Seq(BeatRow) /\ LiveBeats(beats[p]) = {}
    BY <2>1 DEF LiveBeats
  <2> QED BY <2>1, <2>2, <2>3 DEF Sound, Watched, Telling, Replaced, IsOf
<1>3. /\ worker = [p \in Starts |-> worker[p]]
      /\ beats = [p \in Starts |-> beats[p]]
      /\ said = [p \in Starts |-> said[p]]
      /\ late = [p \in Starts |-> late[p]]
      /\ heartbeat = None
  BY <1>1 DEF Heart!HeartbeatInit
<1> QED BY <1>2, <1>3 DEF HeartInv

LEMMA HeartInvImplies ==
  ASSUME HeartInv
  PROVE  TakeoverSound
<1>1. Heart!LastWordStands
  <2> SUFFICES ASSUME heartbeat # None
               PROVE  heartbeat = said[heartbeat.instance_id] \/ worker[heartbeat.instance_id].hung
    BY DEF Heart!LastWordStands
  <2> DEFINE p == heartbeat.instance_id
  <2>1. p \in Starts /\ IsOf(heartbeat, p)
    BY DEF HeartInv, IsOf
  <2>2. Telling(p, worker[p], beats[p], said[p], heartbeat)
    BY <2>1 DEF HeartInv, Sound
  <2> QED BY <2>1, <2>2 DEF Telling
<1>2. Heart!ReplacedIdle
  <2> SUFFICES ASSUME NEW p \in Starts
               PROVE  late[p] <= 1 /\ (late[p] = 1 => worker[p].pc \notin {"work", "stopping_beat"})
    BY DEF Heart!ReplacedIdle
  <2>1. Replaced(p, worker[p], late[p], heartbeat)
    BY DEF HeartInv, Sound
  <2> QED BY <2>1 DEF Replaced, Beating
<1> QED BY <1>1, <1>2 DEF TakeoverSound, Heart!TakeoverSound

-----------------------------------------------------------------------------
(* The index.                                                              *)

LEMMA NoneApart == None \notin Configs /\ None \notin Builders /\ None \notin IndexRow
BY WorkersAssumption DEF IndexRow

\* A builder writes the row and the links of one index, of which it then holds
\* the lease, or nobody does.
LEMMA CellWritten ==
  ASSUME CellsInv, NEW b \in Builders, NEW c \in Configs,
         NEW row \in IndexRow \cup {None}, NEW link \in Links, NEW h \in BuilderRow,
         indexes' = [indexes EXCEPT ![c] = row], links' = [links EXCEPT ![c] = link],
         builder' = [builder EXCEPT ![b] = h],
         UNCHANGED <<settings, lane, vectors>>,
         h.pc = "close" => h.vstatus \in Vectored, Closing(h),
         h.index \in {c, None},
         RowTrue(c, row, link, vectors),
         h.index = c /\ Holds(b, row) => Knows(h, row, link),
         \A q \in Builders \ {b} : ~Holds(q, row)
  PROVE  CellsInv'
<1>1. IndexTyped'
  <2>1. /\ indexes' \in [Configs -> IndexRow \cup {None}] /\ links' \in [Configs -> Links]
        /\ builder' \in [Builders -> BuilderRow]
    BY DEF CellsInv, IndexTyped
  <2>2. settings' \in [config : Configs, mode : Index!Modes] /\ lane' \in LaneRow
    BY DEF CellsInv, IndexTyped
  <2>3. ASSUME NEW q \in Builders, builder'[q].pc = "close"
        PROVE  builder'[q].vstatus \in Vectored
    BY <2>3 DEF CellsInv, IndexTyped
  <2> QED BY <2>1, <2>2, <2>3 DEF IndexTyped
<1>2. ASSUME NEW d \in Configs
      PROVE  RowTrue(d, indexes'[d], links'[d], vectors')
  <2>1. CASE d = c
    <3>1. indexes'[d] = row /\ links'[d] = link
      BY <2>1 DEF CellsInv, IndexTyped
    <3> QED BY <2>1, <3>1
  <2>2. CASE d # c
    <3>1. indexes'[d] = indexes[d] /\ links'[d] = links[d]
      BY <2>2 DEF CellsInv, IndexTyped
    <3>2. RowTrue(d, indexes[d], links[d], vectors)
      BY DEF CellsInv, RowsTrue
    <3> QED BY <3>1, <3>2
  <2> QED BY <2>1, <2>2
<1>3. ASSUME NEW q \in Builders
      PROVE  Closing(builder'[q])
  <2>1. builder'[q] = IF q = b THEN h ELSE builder[q]
    BY DEF CellsInv, IndexTyped
  <2>2. Closing(builder[q])
    BY DEF CellsInv, BuildersKnow
  <2> QED BY <2>1, <2>2
<1>4. ASSUME NEW q \in Builders, NEW d \in Configs, builder'[q].index = d, Holds(q, indexes'[d])
      PROVE  Knows(builder'[q], indexes'[d], links'[d])
  <2>1. builder'[q] = IF q = b THEN h ELSE builder[q]
    BY DEF CellsInv, IndexTyped
  <2>2. /\ indexes'[d] = IF d = c THEN row ELSE indexes[d]
        /\ links'[d] = IF d = c THEN link ELSE links[d]
    BY DEF CellsInv, IndexTyped
  <2>3. CASE q = b
    <3>1. d = c
      BY <1>4, <2>1, <2>3, NoneApart
    <3> QED BY <1>4, <2>1, <2>2, <2>3, <3>1
  <2>4. CASE q # b
    <3>1. d # c
      BY <1>4, <2>2, <2>4
    <3>2. builder[q].index = d /\ Holds(q, indexes[d])
      BY <1>4, <2>1, <2>2, <2>4, <3>1
    <3>3. Knows(builder[q], indexes[d], links[d])
      BY <3>2 DEF CellsInv, BuildersKnow
    <3> QED BY <2>1, <2>2, <2>4, <3>1, <3>3
  <2> QED BY <2>3, <2>4
<1> QED BY <1>1, <1>2, <1>3, <1>4 DEF CellsInv, RowsTrue, BuildersKnow

\* A builder moves on without a write, or gives up; it knows no less.
LEMMA HandMoves ==
  ASSUME CellsInv, NEW b \in Builders, NEW h \in BuilderRow,
         UNCHANGED <<settings, indexes, links>>, lane' \in LaneRow, vectors \subseteq vectors',
         builder' = [builder EXCEPT ![b] = h],
         h.pc = "close" => h.vstatus \in Vectored, Closing(h),
         \/ h.index = None
         \/ /\ h.index = builder[b].index
            /\ \A c \in Configs : Knows(builder[b], indexes[c], links[c]) => Knows(h, indexes[c], links[c])
  PROVE  CellsInv'
<1>1. IndexTyped'
  <2>1. /\ indexes' \in [Configs -> IndexRow \cup {None}] /\ links' \in [Configs -> Links]
        /\ builder' \in [Builders -> BuilderRow]
        /\ settings' \in [config : Configs, mode : Index!Modes]
    BY DEF CellsInv, IndexTyped
  <2>2. ASSUME NEW q \in Builders, builder'[q].pc = "close"
        PROVE  builder'[q].vstatus \in Vectored
    BY <2>2 DEF CellsInv, IndexTyped
  <2> QED BY <2>1, <2>2 DEF IndexTyped
<1>2. ASSUME NEW d \in Configs
      PROVE  RowTrue(d, indexes'[d], links'[d], vectors')
  <2>1. RowTrue(d, indexes[d], links[d], vectors)
    BY DEF CellsInv, RowsTrue
  <2> QED BY <2>1 DEF RowTrue
<1>3. ASSUME NEW q \in Builders
      PROVE  Closing(builder'[q])
  <2>1. builder'[q] = IF q = b THEN h ELSE builder[q]
    BY DEF CellsInv, IndexTyped
  <2>2. Closing(builder[q])
    BY DEF CellsInv, BuildersKnow
  <2> QED BY <2>1, <2>2
<1>4. ASSUME NEW q \in Builders, NEW d \in Configs, builder'[q].index = d, Holds(q, indexes'[d])
      PROVE  Knows(builder'[q], indexes'[d], links'[d])
  <2>1. builder'[q] = IF q = b THEN h ELSE builder[q]
    BY DEF CellsInv, IndexTyped
  <2>2. builder[q].index = d
    BY <1>4, <2>1, NoneApart
  <2>3. Knows(builder[q], indexes[d], links[d])
    BY <1>4, <2>2 DEF CellsInv, BuildersKnow
  <2>4. CASE q = b
    <3>1. h.index = builder[b].index
      BY <1>4, <2>1, <2>4, NoneApart
    <3>2. Knows(h, indexes[d], links[d])
      BY <1>4, <2>1, <2>3, <2>4, <3>1, NoneApart
    <3> QED BY <2>1, <2>4, <3>2
  <2> QED BY <2>1, <2>3, <2>4
<1> QED BY <1>1, <1>2, <1>3, <1>4 DEF CellsInv, RowsTrue, BuildersKnow

\* What a builder that owns its index has in hand.
LEMMA OwnerKnows ==
  ASSUME CellsInv, NEW b \in Builders, Index!Owns(b)
  PROVE  /\ builder[b].index \in Configs
         /\ indexes[builder[b].index] \in IndexRow /\ links[builder[b].index] \in Links
         /\ builder[b] \in BuilderRow
         /\ indexes[builder[b].index].owner = b
         /\ RowTrue(builder[b].index, indexes[builder[b].index], links[builder[b].index], vectors)
         /\ Knows(builder[b], indexes[builder[b].index], links[builder[b].index])
<1> DEFINE c == builder[b].index
<1>1. builder[b] \in BuilderRow
  BY DEF CellsInv, IndexTyped
<1>2. c \in Configs
  BY <1>1 DEF Index!Owns, BuilderRow
<1>3. indexes[c] \in IndexRow /\ links[c] \in Links /\ indexes[c] # None
  BY <1>2 DEF CellsInv, IndexTyped, Index!Owns, Index!Exists
<1>4. Holds(b, indexes[c])
  BY <1>3 DEF Index!Owns, Holds
<1>5. RowTrue(c, indexes[c], links[c], vectors) /\ Knows(builder[b], indexes[c], links[c])
  BY <1>2, <1>4 DEF CellsInv, RowsTrue, BuildersKnow
<1>6. indexes[c].owner = b
  BY <1>4 DEF Holds
<1> QED BY <1>1, <1>2, <1>3, <1>5, <1>6

\* Its write: the row stays its own, or becomes nobody's.
LEMMA OwnerWrites ==
  ASSUME CellsInv, NEW b \in Builders, NEW c \in Configs,
         NEW row \in IndexRow, NEW link \in Links, NEW h \in BuilderRow,
         row.owner \in {b, None},
         indexes' = [indexes EXCEPT ![c] = row], links' = [links EXCEPT ![c] = link],
         builder' = [builder EXCEPT ![b] = h],
         UNCHANGED <<settings, lane, vectors>>,
         h.pc = "close" => h.vstatus \in Vectored, Closing(h),
         h.index \in {c, None},
         RowTrue(c, row, link, vectors),
         h.index = c /\ Holds(b, row) => Knows(h, row, link)
  PROVE  CellsInv'
<1>1. \A q \in Builders \ {b} : ~Holds(q, row)
  BY NoneApart DEF Holds
<1> QED BY <1>1, CellWritten

\* What a row says depends on three of its fields.
LEMMA SameTrue ==
  ASSUME NEW c, NEW link, NEW stock, NEW old, NEW row, old # None,
         row.lexical = old.lexical, row.vstatus = old.vstatus, row.count = old.count,
         RowTrue(c, old, link, stock)
  PROVE  row # None => RowTrue(c, row, link, stock)
BY DEF RowTrue

LEMMA RenewedRow ==
  ASSUME NEW row \in IndexRow
  PROVE  /\ Index!Renewed(row) \in IndexRow
         /\ Index!Renewed(row).lexical = row.lexical
         /\ Index!Renewed(row).vstatus = row.vstatus
         /\ Index!Renewed(row).count = row.count
         /\ Index!Renewed(row).owner = row.owner
BY WorkersAssumption DEF Index!Renewed, IndexRow

LEMMA FailedRow ==
  ASSUME NEW row \in IndexRow
  PROVE  /\ Index!Failed(row) \in IndexRow
         /\ Index!Failed(row).lexical = row.lexical
         /\ Index!Failed(row).vstatus = row.vstatus
         /\ Index!Failed(row).count = row.count
         /\ Index!Failed(row).owner = None
BY DEF Index!Failed, IndexRow

LEMMA HandAt ==
  ASSUME NEW h \in BuilderRow, NEW pc \in BuilderPoints
  PROVE  /\ [h EXCEPT !.pc = pc] \in BuilderRow
         /\ [h EXCEPT !.pc = pc].pc = pc
         /\ [h EXCEPT !.pc = pc].index = h.index
         /\ [h EXCEPT !.pc = pc].count = h.count
BY DEF BuilderRow

LEMMA EmptyHand ==
  /\ Index!NoBuilder \in BuilderRow
  /\ Index!NoBuilder.pc = "idle" /\ Index!NoBuilder.index = None
BY DEF Index!NoBuilder, BuilderRow, BuilderPoints

\* A builder gives up its round.
LEMMA HandEmptied ==
  ASSUME CellsInv, NEW b \in Builders, Index!Stop(b),
         UNCHANGED <<settings, indexes, links, lane, vectors>>
  PROVE  CellsInv'
<1>1. lane' \in LaneRow
  BY DEF CellsInv, IndexTyped
<1>2. Closing(Index!NoBuilder)
  BY EmptyHand DEF Closing
<1> QED BY <1>1, <1>2, EmptyHand, HandMoves DEF Index!Stop

LEMMA ClaimCell ==
  ASSUME CellsInv, NEW b \in Builders, Index!Claim(b)
  PROVE  CellsInv'
<1>1. PICK c \in Configs :
        /\ Index!ClaimableIndex(c)
        /\ indexes' = [indexes EXCEPT ![c].status = "building", ![c].owner = b, ![c].left = LeaseTime]
        /\ builder' = [builder EXCEPT ![b] =
             [Index!NoBuilder EXCEPT !.pc = "begin", !.index = c, !.include = indexes[c].include,
                                     !.op = indexes[c].op, !.failures = indexes[c].failures]]
  BY DEF Index!Claim
<1> DEFINE old == indexes[c]
           row == [old EXCEPT !.status = "building", !.owner = b, !.left = LeaseTime]
           h == [Index!NoBuilder EXCEPT !.pc = "begin", !.index = c, !.include = indexes[c].include,
                                        !.op = indexes[c].op, !.failures = indexes[c].failures]
<1>2. old \in IndexRow /\ links[c] \in Links
  BY <1>1 DEF CellsInv, IndexTyped, Index!ClaimableIndex, Index!Exists
<1>3. /\ row \in IndexRow /\ row.owner = b
      /\ row.lexical = old.lexical /\ row.vstatus = old.vstatus /\ row.count = old.count
  BY <1>2, WorkersAssumption DEF IndexRow
<1>4. h \in BuilderRow /\ h.pc = "begin" /\ h.index = c
  BY <1>2 DEF IndexRow, BuilderRow, BuilderPoints, Index!NoBuilder
<1>5. indexes' = [indexes EXCEPT ![c] = row] /\ links' = [links EXCEPT ![c] = links[c]]
  BY <1>1 DEF CellsInv, IndexTyped, Index!Claim
<1>6. builder' = [builder EXCEPT ![b] = h] /\ UNCHANGED <<settings, lane, vectors>>
  BY <1>1 DEF Index!Claim, Index!laneVars
<1>7. RowTrue(c, old, links[c], vectors)
  BY DEF CellsInv, RowsTrue
<1> HIDE DEF row, h, old
<1>8. RowTrue(c, row, links[c], vectors)
  BY <1>2, <1>3, <1>7, SameTrue, NoneApart
<1>9. Closing(h) /\ Knows(h, row, links[c])
  BY <1>4 DEF Closing, Knows, Filling, Counting
<1> QED BY <1>2, <1>3, <1>4, <1>5, <1>6, <1>8, <1>9, OwnerWrites

\* A builder goes on, its lease renewed.
LEMMA RowRenewed ==
  ASSUME CellsInv, NEW b \in Builders, Index!Owns(b), NEW h \in BuilderRow,
         indexes' = [indexes EXCEPT ![builder[b].index] = Index!Renewed(@)],
         builder' = [builder EXCEPT ![b] = h],
         UNCHANGED <<settings, links, lane, vectors>>,
         h.pc # "close", h.index = builder[b].index,
         Knows(h, indexes[builder[b].index], links[builder[b].index])
  PROVE  CellsInv'
<1> DEFINE c == builder[b].index
           old == indexes[c]
           row == Index!Renewed(old)
<1>1. /\ c \in Configs /\ old \in IndexRow /\ links[c] \in Links /\ old.owner = b
      /\ RowTrue(c, old, links[c], vectors)
  BY OwnerKnows
<1>2. /\ row \in IndexRow /\ row.owner = b /\ row.lexical = old.lexical
      /\ row.vstatus = old.vstatus /\ row.count = old.count
  BY <1>1, RenewedRow
<1>3. indexes' = [indexes EXCEPT ![c] = row] /\ links' = [links EXCEPT ![c] = links[c]]
  BY <1>1 DEF CellsInv, IndexTyped
<1> HIDE DEF row
<1>4. RowTrue(c, row, links[c], vectors)
  BY <1>1, <1>2, SameTrue, NoneApart
<1>5. Knows(h, row, links[c])
  BY <1>2 DEF Knows
<1>6. Closing(h)
  BY DEF Closing
<1> HIDE DEF old, c
<1> QED BY <1>1, <1>2, <1>3, <1>4, <1>5, <1>6, OwnerWrites DEF c

\* The build of an index fails, and its builder gives up.
LEMMA RowFailed ==
  ASSUME CellsInv, NEW b \in Builders, Index!Owns(b),
         indexes' = [indexes EXCEPT ![builder[b].index] = Index!Failed(@)],
         Index!Stop(b),
         UNCHANGED <<settings, links, lane, vectors>>
  PROVE  CellsInv'
<1> DEFINE c == builder[b].index
           old == indexes[c]
           row == Index!Failed(old)
           h == Index!NoBuilder
<1>1. /\ c \in Configs /\ old \in IndexRow /\ links[c] \in Links
      /\ RowTrue(c, old, links[c], vectors)
  BY OwnerKnows
<1>2. /\ row \in IndexRow /\ row.owner = None /\ row.lexical = old.lexical
      /\ row.vstatus = old.vstatus /\ row.count = old.count
  BY <1>1, FailedRow
<1>3. indexes' = [indexes EXCEPT ![c] = row] /\ links' = [links EXCEPT ![c] = links[c]]
  BY <1>1 DEF CellsInv, IndexTyped
<1>4. h \in BuilderRow /\ h.pc = "idle" /\ h.index = None
  BY EmptyHand
<1>5. builder' = [builder EXCEPT ![b] = h]
  BY DEF Index!Stop
<1> HIDE DEF row, h
<1>6. RowTrue(c, row, links[c], vectors)
  BY <1>1, <1>2, SameTrue, NoneApart
<1>7. Closing(h) /\ h.index # c
  BY <1>1, <1>4, NoneApart DEF Closing
<1> HIDE DEF old, c
<1> QED BY <1>1, <1>2, <1>3, <1>4, <1>5, <1>6, <1>7, OwnerWrites DEF c

LEMMA BeginCell ==
  ASSUME CellsInv, NEW b \in Builders, Index!Begin(b)
  PROVE  CellsInv'
<1> DEFINE c == builder[b].index
           pc == IF indexes[c].lexical THEN "link" ELSE "load"
           h == [builder[b] EXCEPT !.pc = pc, !.paused = settings.mode # "full"]
<1>1. Index!Owns(b) /\ UNCHANGED <<settings, links, lane, vectors>>
  BY DEF Index!Begin, Index!laneVars
<1>2. CASE c # settings.config
  BY <1>1, <1>2, RowFailed DEF Index!Begin
<1>3. CASE c = settings.config
  <2>1. /\ indexes' = [indexes EXCEPT ![c] = Index!Renewed(@)]
        /\ builder' = [builder EXCEPT ![b].pc = pc, ![b].paused = settings.mode # "full"]
    BY <1>3 DEF Index!Begin
  <2>2. builder' = [builder EXCEPT ![b] = h]
    BY <2>1 DEF CellsInv, IndexTyped
  <2>3. builder[b] \in BuilderRow
    BY <1>1, OwnerKnows
  <2>4. pc \in {"link", "load"} /\ pc \in BuilderPoints
    BY DEF BuilderPoints
  <2>5. /\ h \in BuilderRow /\ h.index = c /\ h.pc = pc
    <3> HIDE DEF pc
    <3> QED BY <2>3, <2>4 DEF BuilderRow
  <2>6. Knows(h, indexes[c], links[c])
    BY <2>5 DEF Knows, Filling, Counting
  <2> HIDE DEF h
  <2> QED BY <1>1, <2>1, <2>2, <2>4, <2>5, <2>6, RowRenewed
<1> QED BY <1>2, <1>3

LEMMA LoadCell ==
  ASSUME CellsInv, NEW b \in Builders, Index!Load(b)
  PROVE  CellsInv'
<1> DEFINE c == builder[b].index
           h == [builder[b] EXCEPT !.pc = "reset"]
<1>1. /\ Index!Owns(b) /\ UNCHANGED <<settings, links, lane, vectors>> /\ builder[b].pc = "load"
      /\ indexes' = [indexes EXCEPT ![c] = Index!Renewed(@)]
  BY DEF Index!Load, Index!laneVars, Index!At
<1>2. builder' = [builder EXCEPT ![b] = h]
  BY DEF Index!Load, Index!Goto, CellsInv, IndexTyped
<1>3. builder[b] \in BuilderRow /\ Knows(builder[b], indexes[c], links[c])
  BY <1>1, OwnerKnows
<1>4. "reset" \in BuilderPoints
  BY DEF BuilderPoints
<1>5. h \in BuilderRow /\ h.index = c /\ h.pc = "reset"
  BY <1>3, <1>4, HandAt
<1>6. Knows(h, indexes[c], links[c])
  BY <1>1, <1>3, <1>5 DEF Knows, Filling, Counting
<1> HIDE DEF h
<1> QED BY <1>1, <1>2, <1>5, <1>6, RowRenewed

\* The links an earlier build left are removed.
LEMMA ResetCell ==
  ASSUME CellsInv, NEW b \in Builders, Index!Reset(b)
  PROVE  CellsInv'
<1> DEFINE c == builder[b].index
           old == indexes[c]
           row == Index!Renewed(old)
           h == [builder[b] EXCEPT !.pc = "store"]
<1>1. /\ Index!Owns(b) /\ UNCHANGED <<settings, lane, vectors>> /\ builder[b].pc = "reset"
      /\ indexes' = [indexes EXCEPT ![c] = row]
      /\ links' = [links EXCEPT ![c] = Index!NoLinks]
  BY DEF Index!Reset, Index!laneVars, Index!At
<1>2. /\ c \in Configs /\ old \in IndexRow /\ old.owner = b /\ builder[b] \in BuilderRow
      /\ links[c] \in Links
      /\ RowTrue(c, old, links[c], vectors) /\ Knows(builder[b], old, links[c])
  BY <1>1, OwnerKnows
<1>3. /\ row \in IndexRow /\ row.owner = b /\ row.lexical = old.lexical
      /\ row.vstatus = old.vstatus /\ row.count = old.count
  BY <1>2, RenewedRow
<1>4. builder' = [builder EXCEPT ![b] = h]
  BY DEF Index!Reset, Index!Goto, CellsInv, IndexTyped
<1>5. "store" \in BuilderPoints
  BY DEF BuilderPoints
<1>6. h \in BuilderRow /\ h.index = c /\ h.pc = "store"
  BY <1>2, <1>5, HandAt
<1> HIDE DEF h, row
<1>7. ~old.lexical
  BY <1>1, <1>2 DEF Knows, Filling
<1>8. Index!NoLinks \in Links /\ Chunked(Index!NoLinks, "vector") = {}
  BY DEF Index!NoLinks, Links, Chunked
<1>9. Chunked(links[c], "vector") = {}
  BY <1>2, <1>7, NoneApart DEF RowTrue
<1>10. RowTrue(c, row, Index!NoLinks, vectors)
  BY <1>2, <1>3, <1>7, <1>8, <1>9, NoneApart DEF RowTrue
<1>11. Knows(h, row, Index!NoLinks) /\ Closing(h)
  BY <1>3, <1>6, <1>7 DEF Knows, Filling, Counting, Closing
<1> HIDE DEF old, c
<1> QED BY <1>1, <1>2, <1>3, <1>4, <1>6, <1>8, <1>10, <1>11, OwnerWrites DEF old, c

\* The next batch of chunks is stored, or the last one was and they are published.
LEMMA StoreCell ==
  ASSUME CellsInv, NEW b \in Builders, Index!Store(b)
  PROVE  CellsInv'
<1> DEFINE c == builder[b].index
           old == indexes[c]
           row == Index!Renewed(old)
           rest == Chunked(links[c], "none")
<1>1. Index!Owns(b) /\ UNCHANGED <<settings, lane, vectors>> /\ builder[b].pc = "store"
  BY DEF Index!Store, Index!laneVars, Index!At
<1>2. /\ c \in Configs /\ old \in IndexRow /\ old.owner = b /\ builder[b] \in BuilderRow
      /\ links[c] \in Links
      /\ RowTrue(c, old, links[c], vectors) /\ Knows(builder[b], old, links[c])
  BY <1>1, OwnerKnows
<1>3. /\ row \in IndexRow /\ row.owner = b /\ row.lexical = old.lexical
      /\ row.vstatus = old.vstatus /\ row.count = old.count
  BY <1>2, RenewedRow
<1>4. ~old.lexical
  BY <1>1, <1>2 DEF Knows, Filling
<1>5. Chunked(links[c], "vector") = {}
  BY <1>2, <1>4, NoneApart DEF RowTrue
<1>6. Index!Linked(c, "none") = rest
  BY DEF Index!Linked, Chunked
<1>7. CASE rest # {}
  <2> DEFINE k == Index!Least(rest)
             link == [links[c] EXCEPT ![k] = "bare"]
  <2>1. /\ links' = [links EXCEPT ![c][k] = "bare"] /\ builder' = builder
        /\ indexes' = [indexes EXCEPT ![c] = row]
    BY <1>6, <1>7 DEF Index!Store
  <2>2. links' = [links EXCEPT ![c] = link] /\ builder' = [builder EXCEPT ![b] = builder[b]]
    BY <2>1 DEF CellsInv, IndexTyped
  <2> HIDE DEF k
  <2>3. link \in Links /\ Chunked(link, "vector") = {}
    BY <1>2, <1>5 DEF Links, Chunked
  <2> HIDE DEF link, row
  <2>4. RowTrue(c, row, link, vectors)
    BY <1>2, <1>3, <1>4, <1>5, <2>3, NoneApart DEF RowTrue
  <2>5. Knows(builder[b], row, link) /\ Closing(builder[b])
    BY <1>1, <1>3, <1>4 DEF Knows, Filling, Counting, Closing
  <2> HIDE DEF old
  <2> QED BY <1>1, <1>2, <1>3, <2>1, <2>2, <2>3, <2>4, <2>5, OwnerWrites
<1>8. CASE rest = {}
  <2> DEFINE new == [row EXCEPT !.lexical = TRUE]
             h == [builder[b] EXCEPT !.pc = "link"]
  <2>1. /\ links' = links
        /\ indexes' = [indexes EXCEPT ![c] = new]
        /\ builder' = [builder EXCEPT ![b].pc = "link"]
    BY <1>6, <1>8 DEF Index!Store, Index!Goto
  <2>2. links' = [links EXCEPT ![c] = links[c]] /\ builder' = [builder EXCEPT ![b] = h]
    BY <2>1 DEF CellsInv, IndexTyped
  <2> HIDE DEF row
  <2>3. /\ new \in IndexRow /\ new.owner = b /\ new.lexical
        /\ new.vstatus = old.vstatus /\ new.count = old.count
    BY <1>3 DEF IndexRow
  <2>4. "link" \in BuilderPoints
    BY DEF BuilderPoints
  <2>5. h \in BuilderRow /\ h.index = c /\ h.pc = "link"
    BY <1>2, <2>4, HandAt
  <2> HIDE DEF new, h
  <2>6. RowTrue(c, new, links[c], vectors)
    BY <1>2, <1>8, <2>3, NoneApart DEF RowTrue
  <2>7. Knows(h, new, links[c]) /\ Closing(h)
    BY <2>3, <2>5 DEF Knows, Filling, Counting, Closing
  <2> HIDE DEF old
  <2> QED BY <1>1, <1>2, <2>1, <2>2, <2>3, <2>5, <2>6, <2>7, OwnerWrites
<1> QED BY <1>7, <1>8

LEMMA SameCount == \A S : Index!Cardinality(S) = Cardinality(S)
BY DEF Index!Cardinality, Cardinality

LEMMA ChunksFinite ==
  ASSUME NEW link, NEW state
  PROVE  /\ IsFiniteSet(Chunked(link, state)) /\ Cardinality(Chunked(link, state)) \in Nat
         /\ Cardinality(Chunked(link, state)) = Chunks => Chunked(link, state) = 1..Chunks
<1>1. IsFiniteSet(1..Chunks) /\ Cardinality(1..Chunks) = Chunks
  <2>1. 1 \in Int /\ Chunks \in Int /\ Chunks \in Nat
    BY WorkersAssumption
  <2>2. IsFiniteSet(1..Chunks)
    BY <2>1, FS_Interval
  <2>3. Cardinality(1..Chunks) = IF 1 > Chunks THEN 0 ELSE Chunks - 1 + 1
    BY <2>1, FS_Interval
  <2> QED BY <2>1, <2>2, <2>3
<1> DEFINE S == Chunked(link, state)
<1>2. S \subseteq 1..Chunks
  BY DEF Chunked
<1> HIDE DEF S
<1>3. IsFiniteSet(S)
  BY <1>1, <1>2, FS_Subset
<1>4. Cardinality(S) \in Nat
  BY <1>3, FS_CardinalityType
<1>5. Cardinality(S) = Cardinality(1..Chunks) => S = 1..Chunks
  BY <1>1, <1>2, FS_Subset
<1> QED BY <1>1, <1>3, <1>4, <1>5 DEF S

\* Stored vectors are linked, and the links counted.
LEMMA VectorsLinked ==
  ASSUME CellsInv, NEW b \in Builders, Index!Owns(b), builder[b].pc \in {"link", "link one"}, NEW chunks,
         Index!LinkVectors(builder[b].index, chunks), Index!Counted(b, builder[b].index),
         UNCHANGED <<settings, lane, vectors>>
  PROVE  CellsInv'
<1> DEFINE c == builder[b].index
           old == indexes[c]
           link == [k \in 1..Chunks |->
                      IF k \in chunks /\ links[c][k] = "bare" /\ <<c, k>> \in vectors
                      THEN "vector" ELSE links[c][k]]
           n == Cardinality(Chunked(link, "vector"))
           row == [Index!Renewed(old) EXCEPT !.count = n]
           h == [builder[b] EXCEPT !.pc = "embed", !.count = n]
<1>1. /\ c \in Configs /\ old \in IndexRow /\ old.owner = b /\ builder[b] \in BuilderRow
      /\ links[c] \in Links
      /\ RowTrue(c, old, links[c], vectors) /\ Knows(builder[b], old, links[c])
  BY OwnerKnows
<1>2. old.lexical
  BY <1>1 DEF Knows, Counting
<1>3. links' = [links EXCEPT ![c] = link]
  BY <1>1 DEF Index!LinkVectors, CellsInv, IndexTyped
<1>4. links'[c] = link
  BY <1>1, <1>3 DEF CellsInv, IndexTyped
<1>5. Index!Cardinality({k \in 1..Chunks : links'[c][k] = "vector"}) = n
  BY <1>4, SameCount DEF Chunked
<1>6. /\ indexes' = [indexes EXCEPT ![c] = row]
      /\ builder' = [builder EXCEPT ![b] = h]
  <2> HIDE DEF n
  <2> QED BY <1>1, <1>5 DEF Index!Counted, CellsInv, IndexTyped
<1>7. /\ link \in Links
      /\ Chunked(link, "none") = Chunked(links[c], "none")
      /\ Chunked(links[c], "vector") \subseteq Chunked(link, "vector")
      /\ \A k \in Chunked(link, "vector") : <<c, k>> \in vectors
  <2>1. \A k \in Chunked(links[c], "vector") : <<c, k>> \in vectors
    BY <1>1 DEF RowTrue
  <2>2. \A k \in 1..Chunks : link[k] = "none" <=> links[c][k] = "none"
    OBVIOUS
  <2>3. Chunked(link, "none") = Chunked(links[c], "none")
    BY <2>2 DEF Chunked
  <2>4. link \in Links
    BY <1>1 DEF Links
  <2>5. \A k \in 1..Chunks : links[c][k] = "vector" => link[k] = "vector"
    OBVIOUS
  <2>6. \A k \in 1..Chunks : link[k] = "vector" => links[c][k] = "vector" \/ <<c, k>> \in vectors
    OBVIOUS
  <2> HIDE DEF link
  <2> QED BY <2>1, <2>3, <2>4, <2>5, <2>6 DEF Chunked
<1> HIDE DEF link
<1>8. n \in Nat
  BY ChunksFinite
<1> HIDE DEF n
<1>9. /\ Index!Renewed(old) \in IndexRow /\ Index!Renewed(old).owner = b /\ Index!Renewed(old).lexical
      /\ Index!Renewed(old).vstatus = old.vstatus
  BY <1>1, <1>2, RenewedRow
<1>10. row \in IndexRow /\ row.owner = b /\ row.lexical /\ row.vstatus = old.vstatus /\ row.count = n
  <2> DEFINE new == Index!Renewed(old)
  <2> HIDE DEF new
  <2>1. new \in IndexRow /\ new.owner = b /\ new.lexical /\ new.vstatus = old.vstatus
    BY <1>9 DEF new
  <2>2. row = [new EXCEPT !.count = n]
    BY DEF new
  <2> HIDE DEF row, old
  <2> QED BY <1>8, <2>1, <2>2 DEF IndexRow
<1>11. h \in BuilderRow /\ h.pc = "embed" /\ h.index = c /\ h.count = n
  BY <1>1, <1>8 DEF BuilderRow, BuilderPoints
<1> HIDE DEF row, h
<1>12. RowTrue(c, row, link, vectors)
  <2>1. Chunked(link, "none") = {}
    BY <1>1, <1>2, <1>7, NoneApart DEF RowTrue
  <2>2. row.vstatus = "ready" => Chunked(link, "vector") = 1..Chunks
    <3>1. Chunked(link, "vector") \subseteq 1..Chunks
      BY DEF Chunked
    <3>2. old.vstatus = "ready" => Chunked(links[c], "vector") = 1..Chunks
      BY <1>1, NoneApart DEF RowTrue
    <3> QED BY <1>7, <1>10, <3>1, <3>2
  <2>3. row # None
    BY <1>10, NoneApart
  <2> QED BY <1>7, <1>10, <2>1, <2>2, <2>3 DEF RowTrue, n
<1>13. Knows(h, row, link) /\ Closing(h)
  BY <1>10, <1>11 DEF Knows, Filling, Counting, Closing, n
<1> HIDE DEF old, c
<1> QED BY <1>1, <1>3, <1>6, <1>7, <1>10, <1>11, <1>12, <1>13, OwnerWrites

LEMMA LinkCell ==
  ASSUME CellsInv, NEW b \in Builders, Index!Link(b) \/ Index!LinkOne(b)
  PROVE  CellsInv'
<1>1. /\ Index!Owns(b) /\ Index!Counted(b, builder[b].index) /\ UNCHANGED <<settings, lane, vectors>>
      /\ builder[b].pc \in {"link", "link one"}
  BY DEF Index!Link, Index!LinkOne, Index!laneVars, Index!At
<1>2. \/ Index!LinkVectors(builder[b].index, 1..Chunks)
      \/ Index!LinkVectors(builder[b].index, {builder[b].chunk})
  BY DEF Index!Link, Index!LinkOne
<1> QED BY <1>1, <1>2, VectorsLinked, Zenon

\* A round goes on, or is closed, without a write.
LEMMA RoundGoesOn ==
  ASSUME CellsInv, NEW b \in Builders, builder[b].pc \in Counting,
         NEW pc \in Counting \ {"close"}, Index!Goto(b, pc),
         UNCHANGED <<settings, indexes, links>>, lane' \in LaneRow, vectors \subseteq vectors'
  PROVE  CellsInv'
<1> DEFINE h == [builder[b] EXCEPT !.pc = pc]
<1>1. builder[b] \in BuilderRow
  BY DEF CellsInv, IndexTyped
<1>2. builder' = [builder EXCEPT ![b] = h]
  BY DEF Index!Goto, CellsInv, IndexTyped
<1>3. pc \in BuilderPoints
  BY DEF Counting, BuilderPoints
<1>4. h \in BuilderRow /\ h.pc = pc /\ h.index = builder[b].index /\ h.count = builder[b].count
  BY <1>1, <1>3, HandAt
<1> HIDE DEF h
<1>5. \A c \in Configs : Knows(builder[b], indexes[c], links[c]) => Knows(h, indexes[c], links[c])
  BY <1>4 DEF Knows, Filling, Counting
<1>6. (h.pc = "close" => h.vstatus \in Vectored) /\ Closing(h)
  BY <1>4 DEF Closing
<1> QED BY <1>2, <1>4, <1>5, <1>6, HandMoves

LEMMA RoundClosed ==
  ASSUME CellsInv, NEW b \in Builders, builder[b].pc \in Counting,
         NEW vstatus \in Vectored, NEW again \in BOOLEAN, NEW delay \in Nat, NEW failures \in Nat,
         vstatus = "ready" => builder[b].count = Chunks,
         Index!Close(b, vstatus, again, delay, failures),
         UNCHANGED <<settings, indexes, links>>, lane' \in LaneRow, vectors \subseteq vectors'
  PROVE  CellsInv'
<1> DEFINE h == [builder[b] EXCEPT !.pc = "close", !.vstatus = vstatus, !.again = again,
                                   !.delay = delay, !.failures = failures]
<1>1. builder[b] \in BuilderRow
  BY DEF CellsInv, IndexTyped
<1>2. builder' = [builder EXCEPT ![b] = h]
  BY DEF Index!Close, CellsInv, IndexTyped
<1>3. /\ h \in BuilderRow /\ h.pc = "close" /\ h.index = builder[b].index
      /\ h.count = builder[b].count /\ h.vstatus = vstatus
  BY <1>1 DEF BuilderRow, BuilderPoints
<1> HIDE DEF h
<1>4. \A c \in Configs : Knows(builder[b], indexes[c], links[c]) => Knows(h, indexes[c], links[c])
  BY <1>3 DEF Knows, Filling, Counting
<1>5. (h.pc = "close" => h.vstatus \in Vectored) /\ Closing(h)
  BY <1>3 DEF Closing
<1> QED BY <1>2, <1>3, <1>4, <1>5, HandMoves

\* A round that failed is closed; it says nothing of complete vectors.
LEMMA RoundFailed ==
  ASSUME CellsInv, NEW b \in Builders, builder[b].pc \in Counting,
         NEW retryable \in BOOLEAN, NEW exhausted \in BOOLEAN,
         Index!RoundFails(b, retryable, exhausted),
         UNCHANGED <<settings, indexes, links>>, lane' \in LaneRow, vectors \subseteq vectors'
  PROVE  CellsInv'
<1> DEFINE n == builder[b].failures + 1
           again == retryable /\ n < MaxFailures
           vstatus == IF again THEN "pending" ELSE IF exhausted THEN "limited" ELSE "failed"
           delay == IF again THEN RetryTime ELSE 0
<1>1. builder[b] \in BuilderRow
  BY DEF CellsInv, IndexTyped
<1>2. Index!Close(b, vstatus, again, delay, n)
  BY DEF Index!RoundFails
<1>3. n \in Nat
  BY <1>1 DEF BuilderRow
<1>4. again \in BOOLEAN
  OBVIOUS
<1> HIDE DEF n, again
<1>5. vstatus \in Vectored /\ vstatus # "ready" /\ delay \in Nat
  BY WorkersAssumption DEF Vectored
<1> HIDE DEF vstatus, delay
<1> QED BY <1>2, <1>3, <1>4, <1>5, RoundClosed

LEMMA LaneReleased ==
  ASSUME lane \in LaneRow, NEW b \in Builders, NEW failed \in BOOLEAN, Index!Released(b, failed)
  PROVE  lane' \in LaneRow
<1> DEFINE failures == IF failed THEN (IF lane.failures < MaxFailures THEN lane.failures + 1
                                       ELSE MaxFailures) ELSE 0
           blocked == IF failed /\ lane.failures >= MaxFailures - 1 THEN BlockTime ELSE 0
<1>1. lane' = IF lane.owner # b THEN lane
              ELSE [owner |-> None, left |-> 0, failures |-> failures, blocked |-> blocked]
  BY DEF Index!Released
<1>2. failures \in Nat /\ blocked \in Nat
  BY WorkersAssumption DEF LaneRow
<1> HIDE DEF failures, blocked
<1> QED BY <1>1, <1>2 DEF LaneRow

LEMMA SettledCell ==
  ASSUME CellsInv, NEW b \in Builders, Index!Settled(b) \/ Index!OutOfTime(b)
  PROVE  CellsInv'
<1>1. /\ builder[b].pc = "embed" /\ builder[b] \in BuilderRow
      /\ UNCHANGED <<settings, indexes, links, lane, vectors>>
  BY DEF Index!Settled, Index!OutOfTime, Index!Embedding, Index!At, Index!indexVars, Index!laneVars,
         CellsInv, IndexTyped
<1>2. \E vstatus \in Vectored, again \in BOOLEAN, delay \in Nat, failures \in Nat :
        /\ vstatus = "ready" => builder[b].count = Chunks
        /\ Index!Close(b, vstatus, again, delay, failures)
  <2>1. builder[b].failures \in Nat /\ 0 \in Nat
    BY <1>1 DEF BuilderRow
  <2>2. {"ready", "paused", "pending", "limited"} \subseteq Vectored
    BY DEF Vectored
  <2>3. CASE Index!Settled(b)
    <3> DEFINE kept == IF builder[b].include /\ ~builder[b].paused THEN 0 ELSE builder[b].failures
               vstatus == IF builder[b].paused THEN "paused" ELSE "pending"
    <3>1. \/ builder[b].count = Chunks /\ Index!Close(b, "ready", FALSE, 0, kept)
          \/ Index!Close(b, vstatus, FALSE, 0, builder[b].failures)
      BY <2>3 DEF Index!Settled
    <3>2. kept \in Nat /\ vstatus \in Vectored /\ vstatus # "ready"
      BY <2>1, <2>2
    <3> HIDE DEF kept, vstatus
    <3> QED BY <2>1, <2>2, <3>1, <3>2
  <2>4. CASE Index!OutOfTime(b)
    <3>1. Index!Close(b, "limited", FALSE, 0, 0) \/ Index!Close(b, "pending", TRUE, 0, 0)
      BY <2>4 DEF Index!OutOfTime
    <3> QED BY <2>1, <2>2, <3>1
  <2> QED BY <2>3, <2>4
<1>3. builder[b].pc \in Counting
  BY <1>1 DEF Counting
<1>4. lane' \in LaneRow /\ vectors \subseteq vectors'
  BY <1>1 DEF CellsInv, IndexTyped
<1> QED BY <1>1, <1>2, <1>3, <1>4, RoundClosed

\* A chunk is missing whose vector the round wants next.
LEMMA EmbedCell ==
  ASSUME CellsInv, NEW b \in Builders, Index!Embed(b)
  PROVE  CellsInv'
<1> DEFINE c == builder[b].index
           bare == Chunked(links[c], "bare")
           k == Index!Missing(b)
           pc == IF <<c, k>> \in vectors THEN "link one" ELSE "miss"
           h == [builder[b] EXCEPT !.chunk = k, !.pc = pc]
<1>1. /\ Index!Owns(b) /\ builder[b].pc = "embed" /\ builder[b].count < Chunks
      /\ UNCHANGED <<settings, links, lane, vectors>>
      /\ indexes' = [indexes EXCEPT ![c] = Index!Renewed(@)]
  BY DEF Index!Embed, Index!Embedding, Index!At, Index!laneVars
<1>2. /\ c \in Configs /\ links[c] \in Links /\ indexes[c] \in IndexRow /\ builder[b] \in BuilderRow
      /\ RowTrue(c, indexes[c], links[c], vectors) /\ Knows(builder[b], indexes[c], links[c])
  BY <1>1, OwnerKnows
<1>3. builder' = [builder EXCEPT ![b] = h]
  <2>1. builder' = [builder EXCEPT ![b].chunk = k, ![b].pc = pc]
    BY DEF Index!Embed
  <2> HIDE DEF k, pc
  <2> QED BY <2>1 DEF CellsInv, IndexTyped
<1>4. bare # {}
  <2> SUFFICES ASSUME bare = {} PROVE FALSE
    OBVIOUS
  <2>1. indexes[c].lexical /\ builder[b].count = Cardinality(Chunked(links[c], "vector"))
    BY <1>1, <1>2 DEF Knows, Counting
  <2>2. Chunked(links[c], "none") = {}
    BY <1>2, <2>1, NoneApart DEF RowTrue
  <2>3. \A j \in 1..Chunks : links[c][j] \in {"none", "bare", "vector"}
    BY <1>2 DEF Links
  <2>4. Chunked(links[c], "vector") = 1..Chunks
    BY <2>2, <2>3 DEF Chunked
  <2>5. 1 \in Int /\ Chunks \in Int /\ Chunks \in Nat
    BY WorkersAssumption
  <2>6. Cardinality(1..Chunks) = IF 1 > Chunks THEN 0 ELSE Chunks - 1 + 1
    BY <2>5, FS_Interval
  <2> QED BY <1>1, <2>1, <2>4, <2>5, <2>6
<1>5. k \in Nexts
  <2>1. k = Index!Least(bare)
    BY DEF Index!Missing, Index!Linked, Chunked
  <2>2. bare \in (SUBSET (1..Chunks)) \ {{}}
    BY <1>4 DEF Chunked
  <2> HIDE DEF bare, k
  <2> QED BY <2>1, <2>2 DEF Nexts
<1> HIDE DEF k
<1>6. pc \in {"link one", "miss"} /\ pc \in BuilderPoints
  BY DEF BuilderPoints
<1> HIDE DEF pc
<1>7. h \in BuilderRow /\ h.pc = pc /\ h.index = c /\ h.count = builder[b].count
  BY <1>2, <1>5, <1>6 DEF BuilderRow
<1> HIDE DEF h
<1>8. Knows(h, indexes[c], links[c])
  BY <1>1, <1>2, <1>6, <1>7 DEF Knows, Filling, Counting
<1> QED BY <1>1, <1>3, <1>6, <1>7, <1>8, RowRenewed

\* The lane, the request and its answer.
LEMMA RequestCell ==
  ASSUME CellsInv, NEW b \in Builders,
         Index!Acquire(b) \/ Index!Ask(b) \/ Index!Answer(b) \/ Index!AskFails(b)
  PROVE  CellsInv'
<1>1. UNCHANGED <<settings, indexes, links>> /\ vectors \subseteq vectors'
  BY DEF Index!Acquire, Index!Ask, Index!Answer, Index!AskFails, Index!indexVars
<1>2. lane \in LaneRow
  BY DEF CellsInv, IndexTyped
<1>3. /\ builder[b].pc \in Counting
      /\ "acquired" \in Counting \ {"close"} /\ "asking" \in Counting \ {"close"}
      /\ "link one" \in Counting \ {"close"}
  BY DEF Index!Acquire, Index!Ask, Index!Answer, Index!AskFails, Index!At, Counting
<1>4. CASE Index!Acquire(b)
  <2>1. \/ lane' = [lane EXCEPT !.owner = b, !.left = LaneTime] /\ Index!Goto(b, "acquired")
        \/ lane' = lane /\ Index!RoundFails(b, TRUE, FALSE)
    BY <1>4 DEF Index!Acquire
  <2>2. lane' \in LaneRow
    BY <1>2, <2>1, WorkersAssumption DEF LaneRow
  <2> QED BY <1>1, <1>3, <2>1, <2>2, RoundGoesOn, RoundFailed
<1>5. CASE Index!Ask(b)
  <2>1. \/ Index!Released(b, FALSE) /\ Index!Goto(b, "link one")
        \/ Index!Released(b, TRUE) /\ Index!RoundFails(b, FALSE, TRUE)
        \/ lane' = lane /\ Index!Goto(b, "asking")
    BY <1>5, Zenon DEF Index!Ask, Index!Charged
  <2>2. lane' \in LaneRow
    BY <1>2, <2>1, LaneReleased
  <2> QED BY <1>1, <1>3, <2>1, <2>2, RoundGoesOn, RoundFailed
<1>6. CASE Index!Answer(b)
  <2>1. Index!Released(b, FALSE) /\ Index!Goto(b, "link one")
    BY <1>6 DEF Index!Answer
  <2>2. lane' \in LaneRow
    BY <1>2, <2>1, LaneReleased
  <2> QED BY <1>1, <1>3, <2>1, <2>2, RoundGoesOn
<1>7. CASE Index!AskFails(b)
  <2>1. /\ Index!Released(b, TRUE)
        /\ \E retryable \in BOOLEAN : Index!RoundFails(b, retryable, FALSE)
    BY <1>7 DEF Index!AskFails
  <2>2. lane' \in LaneRow
    BY <1>2, <2>1, LaneReleased
  <2>3. PICK retryable \in BOOLEAN : Index!RoundFails(b, retryable, FALSE)
    BY <2>1
  <2> QED BY <1>1, <1>3, <2>2, <2>3, RoundFailed
<1> QED BY <1>4, <1>5, <1>6, <1>7

\* The round is closed: its row says what the builder counted.
LEMMA CompleteCell ==
  ASSUME CellsInv, NEW b \in Builders, Index!Complete(b)
  PROVE  CellsInv'
<1> DEFINE c == builder[b].index
           old == indexes[c]
           mine == builder[b]
           status == IF mine.again THEN "queued" ELSE "ready"
           row == [old EXCEPT !.status = status, !.owner = None, !.left = mine.delay,
                              !.vstatus = mine.vstatus, !.count = mine.count, !.failures = mine.failures]
           h == Index!NoBuilder
<1>1. /\ Index!Owns(b) /\ mine.pc = "close" /\ UNCHANGED <<settings, links, lane, vectors>>
      /\ indexes' = [indexes EXCEPT ![c] = row]
      /\ builder' = [builder EXCEPT ![b] = h]
  BY DEF Index!Complete, Index!At, Index!Stop, Index!laneVars
<1>2. /\ c \in Configs /\ links[c] \in Links /\ old \in IndexRow /\ mine \in BuilderRow
      /\ RowTrue(c, old, links[c], vectors) /\ Knows(mine, old, links[c])
  BY <1>1, OwnerKnows
<1>3. mine.vstatus \in Vectored /\ Closing(mine)
  BY <1>1 DEF CellsInv, IndexTyped, BuildersKnow
<1>4. h \in BuilderRow /\ h.pc = "idle" /\ h.index = None
  BY EmptyHand
<1>5. links' = [links EXCEPT ![c] = links[c]]
  BY <1>1 DEF CellsInv, IndexTyped
<1>6. old.lexical /\ mine.count = Cardinality(Chunked(links[c], "vector"))
  BY <1>1, <1>2 DEF Knows, Counting
<1> HIDE DEF h
<1>7. status \in {"queued", "ready"}
  OBVIOUS
<1> HIDE DEF status
<1>8. mine.delay \in Nat /\ mine.count \in Nat /\ mine.failures \in Nat
  BY <1>2 DEF BuilderRow
<1> HIDE DEF mine, old
<1>9. /\ row \in IndexRow /\ row.owner = None /\ row.lexical = old.lexical
      /\ row.vstatus = mine.vstatus /\ row.count = mine.count
  BY <1>2, <1>3, <1>7, <1>8 DEF IndexRow, Vectored
<1> HIDE DEF row
<1>10. mine.vstatus = "ready" => Chunked(links[c], "vector") = 1..Chunks
  BY <1>1, <1>3, <1>6, ChunksFinite DEF Closing
<1>11. RowTrue(c, row, links[c], vectors)
  BY <1>2, <1>6, <1>9, <1>10, NoneApart DEF RowTrue
<1>12. Closing(h) /\ h.index # c
  BY <1>2, <1>4, NoneApart DEF Closing
<1> HIDE DEF c
<1> QED BY <1>1, <1>2, <1>4, <1>5, <1>9, <1>11, <1>12, OwnerWrites

\* Every step of a builder.
LEMMA BuildCell ==
  ASSUME CellsInv, NEW b \in Builders, Index!Build(b)
  PROVE  CellsInv'
<1>1. CASE Index!LoseLease(b) \/ Index!Crash(b)
  <2>1. Index!Stop(b) /\ UNCHANGED <<settings, indexes, links, lane, vectors>>
    BY <1>1 DEF Index!LoseLease, Index!Crash, Index!indexVars, Index!laneVars
  <2> QED BY <2>1, HandEmptied
<1>2. CASE Index!FailBuild(b)
  <2>1. /\ Index!Stop(b) /\ UNCHANGED <<settings, links, lane, vectors>>
        /\ indexes' = IF Index!Owns(b) THEN [indexes EXCEPT ![builder[b].index] = Index!Failed(@)]
                      ELSE indexes
    BY <1>2 DEF Index!FailBuild, Index!laneVars
  <2>2. CASE Index!Owns(b)
    BY <2>1, <2>2, RowFailed
  <2>3. CASE ~Index!Owns(b)
    BY <2>1, <2>3, HandEmptied
  <2> QED BY <2>2, <2>3
<1> QED BY <1>1, <1>2, ClaimCell, BeginCell, LoadCell, ResetCell, StoreCell, LinkCell, SettledCell, EmbedCell,
           RequestCell, CompleteCell, Zenon DEF Index!Build

\* A row is written that nobody builds any more, or not yet.
LEMMA CellQueued ==
  ASSUME CellsInv, NEW c \in Configs, NEW row \in IndexRow \cup {None}, NEW link \in Links,
         indexes' = [indexes EXCEPT ![c] = row], links' = [links EXCEPT ![c] = link],
         UNCHANGED <<settings, lane, vectors, builder>>,
         RowTrue(c, row, link, vectors),
         \A q \in Builders : ~Holds(q, row)
  PROVE  CellsInv'
<1>1. IndexTyped'
  BY DEF CellsInv, IndexTyped
<1>2. ASSUME NEW d \in Configs
      PROVE  /\ RowTrue(d, indexes'[d], links'[d], vectors')
             /\ \A q \in Builders : builder'[q].index = d /\ Holds(q, indexes'[d])
                                    => Knows(builder'[q], indexes'[d], links'[d])
  <2>1. /\ indexes'[d] = IF d = c THEN row ELSE indexes[d]
        /\ links'[d] = IF d = c THEN link ELSE links[d]
    BY DEF CellsInv, IndexTyped
  <2>2. CASE d = c
    <3>1. indexes'[d] = row /\ links'[d] = link
      BY <2>1, <2>2
    <3>2. RowTrue(d, row, link, vectors')
      BY <2>2
    <3> QED BY <3>1, <3>2
  <2>3. CASE d # c
    <3>1. RowTrue(d, indexes[d], links[d], vectors)
      BY DEF CellsInv, RowsTrue
    <3>2. \A q \in Builders : builder[q].index = d /\ Holds(q, indexes[d])
                              => Knows(builder[q], indexes[d], links[d])
      BY DEF CellsInv, BuildersKnow
    <3>3. indexes'[d] = indexes[d] /\ links'[d] = links[d] /\ builder' = builder /\ vectors' = vectors
      BY <2>1, <2>3
    <3> QED BY <3>1, <3>2, <3>3
  <2> QED BY <2>2, <2>3
<1>3. \A q \in Builders : Closing(builder'[q])
  BY DEF CellsInv, BuildersKnow
<1> QED BY <1>1, <1>2, <1>3 DEF CellsInv, RowsTrue, BuildersKnow

\* An index is queued for the first time, without a chunk.
LEMMA CellEnqueued ==
  ASSUME CellsInv, NEW c \in Configs, NEW include \in BOOLEAN, Index!Enqueue(c, include),
         UNCHANGED <<settings, links, lane, vectors, builder>>
  PROVE  CellsInv' /\ indexes'[c] \in IndexRow
<1> DEFINE row == Index!NewRow(include)
<1>1. /\ row \in IndexRow /\ row.status = "queued" /\ ~row.lexical /\ row.vstatus = "pending"
      /\ row.count = 0
  BY WorkersAssumption DEF IndexRow, Index!NewRow
<1>2. CASE Index!Exists(c)
  <2>1. indexes' = indexes
    BY <1>2 DEF Index!Enqueue
  <2>2. indexes[c] \in IndexRow
    BY <1>2 DEF CellsInv, IndexTyped, Index!Exists
  <2>3. CellsInv'
    BY <2>1 DEF CellsInv, IndexTyped, RowsTrue, BuildersKnow
  <2> QED BY <2>1, <2>2, <2>3
<1>3. CASE ~Index!Exists(c)
  <2>1. indexes' = [indexes EXCEPT ![c] = row] /\ links' = [links EXCEPT ![c] = links[c]]
    BY <1>3 DEF Index!Enqueue, CellsInv, IndexTyped
  <2> HIDE DEF row
  <2>2. links[c] \in Links /\ links[c] = Index!NoLinks
    BY <1>3 DEF CellsInv, IndexTyped, RowsTrue, RowTrue, Index!Exists
  <2>3. Chunked(links[c], "vector") = {}
    BY <2>2 DEF Index!NoLinks, Chunked
  <2>4. Cardinality(Chunked(links[c], "vector")) = 0
    BY <2>3, FS_EmptySet
  <2>5. RowTrue(c, row, links[c], vectors)
    BY <1>1, <2>2, <2>3, <2>4, NoneApart DEF RowTrue
  <2>6. \A q \in Builders : ~Holds(q, row)
    BY <1>1 DEF Holds
  <2>7. CellsInv'
    BY <1>1, <2>1, <2>2, <2>5, <2>6, CellQueued
  <2>8. indexes'[c] = row
    BY <2>1 DEF CellsInv, IndexTyped
  <2> QED BY <1>1, <2>7, <2>8
<1> QED BY <1>2, <1>3

\* An index is queued again, with what it has.
LEMMA CellRequeued ==
  ASSUME CellsInv, NEW c \in Configs, NEW include \in BOOLEAN, Index!Exists(c), Index!Requeue(c, include),
         UNCHANGED <<settings, links, lane, vectors, builder>>
  PROVE  CellsInv' /\ indexes'[c] \in IndexRow
<1> DEFINE old == indexes[c]
           o == (old.op + 1) % Operations
           vstatus == IF include THEN "pending" ELSE old.vstatus
           row == [old EXCEPT !.status = "queued", !.include = include, !.op = o, !.failures = 0,
                              !.prep = PrepTime, !.vstatus = vstatus]
<1>1. indexes' = [indexes EXCEPT ![c] = row] /\ links' = [links EXCEPT ![c] = links[c]]
  BY DEF Index!Requeue, CellsInv, IndexTyped
<1>2. old \in IndexRow /\ links[c] \in Links
  BY DEF CellsInv, IndexTyped, Index!Exists
<1>3. o \in Nat /\ vstatus \in {"pending", "ready", "paused", "limited", "failed"}
  BY <1>2, WorkersAssumption DEF IndexRow
<1>4. vstatus = "ready" => old.vstatus = "ready"
  OBVIOUS
<1> HIDE DEF o, vstatus
<1>5. /\ row \in IndexRow /\ row.status = "queued" /\ row.lexical = old.lexical
      /\ row.vstatus = vstatus /\ row.count = old.count
  BY <1>2, <1>3, WorkersAssumption DEF IndexRow
<1>6. RowTrue(c, old, links[c], vectors)
  BY DEF CellsInv, RowsTrue
<1>7. indexes'[c] = row
  BY <1>1 DEF CellsInv, IndexTyped
<1> HIDE DEF row, old
<1>8. RowTrue(c, row, links[c], vectors)
  BY <1>2, <1>4, <1>5, <1>6, NoneApart DEF RowTrue
<1>9. \A q \in Builders : ~Holds(q, row)
  BY <1>5 DEF Holds
<1> QED BY <1>1, <1>2, <1>5, <1>7, <1>8, <1>9, CellQueued

\* An index is cleaned away, chunks and all.
LEMMA CleanupCell ==
  ASSUME CellsInv, NEW c \in Configs, Index!Cleanup(c)
  PROVE  CellsInv'
<1>1. /\ indexes' = [indexes EXCEPT ![c] = None] /\ links' = [links EXCEPT ![c] = Index!NoLinks]
      /\ UNCHANGED <<settings, lane, vectors, builder>>
  BY DEF Index!Cleanup, Index!laneVars
<1>2. Index!NoLinks \in Links /\ Chunked(Index!NoLinks, "vector") = {}
  BY DEF Index!NoLinks, Links, Chunked
<1>3. RowTrue(c, None, Index!NoLinks, vectors)
  BY <1>2 DEF RowTrue
<1>4. \A q \in Builders : ~Holds(q, None)
  BY DEF Holds
<1> QED BY <1>1, <1>2, <1>3, <1>4, CellQueued

\* The operator's steps.
LEMMA OperatorCell ==
  ASSUME CellsInv, \/ \E c \in Configs : Index!RetryIndex(c) \/ Index!Cleanup(c)
                   \/ Index!CreateIndex \/ Index!ChangeSettings
  PROVE  CellsInv'
<1>1. ASSUME NEW c \in Configs, Index!RetryIndex(c)
      PROVE  CellsInv'
  <2>1. PICK include \in BOOLEAN : Index!Requeue(c, include)
    BY <1>1 DEF Index!RetryIndex
  <2>2. Index!Exists(c) /\ UNCHANGED <<settings, links, lane, vectors, builder>>
    BY <1>1 DEF Index!RetryIndex
  <2> QED BY <2>1, <2>2, CellRequeued
<1>2. CASE Index!CreateIndex
  <2>1. /\ Index!Enqueue(settings.config, FALSE)
        /\ UNCHANGED <<settings, links, lane, vectors, builder>>
    BY <1>2 DEF Index!CreateIndex, Index!laneVars
  <2>2. settings.config \in Configs
    BY DEF CellsInv, IndexTyped
  <2> QED BY <2>1, <2>2, CellEnqueued
<1>3. CASE Index!ChangeSettings
  <2>1. PICK config \in Configs, mode \in Index!Modes :
          settings' = [settings EXCEPT !.config = config, !.mode = mode]
    BY <1>3 DEF Index!ChangeSettings
  <2>2. settings' \in [config : Configs, mode : Index!Modes]
    BY <2>1 DEF CellsInv, IndexTyped
  <2>3. UNCHANGED <<indexes, links, lane, vectors, builder>>
    BY <1>3 DEF Index!ChangeSettings, Index!indexVars, Index!laneVars
  <2> QED BY <2>2, <2>3 DEF CellsInv, IndexTyped, RowsTrue, BuildersKnow
<1> QED BY <1>1, <1>2, <1>3, CleanupCell

\* The review's steps.
LEMMA ReviewCell ==
  ASSUME CellsInv, ContextInv, NEW r \in Reviewers, Index!Review(r) \/ Index!RetryReview(r)
  PROVE  CellsInv'
<1>1. CASE Index!Consult(r) \/ Index!Save(r) \/ Index!RetryReview(r)
  <2>1. UNCHANGED <<settings, indexes, links, lane, vectors, builder>>
    BY <1>1 DEF Index!Consult, Index!Save, Index!RetryReview, Index!indexVars, Index!laneVars
  <2> QED BY <2>1 DEF CellsInv, IndexTyped, RowsTrue, BuildersKnow
<1>2. CASE Index!Prepare(r)
  <2> DEFINE c == reviewer[r].index
             full == reviewer[r].full
  <2>1. c \in Configs /\ full \in BOOLEAN
    BY <1>2 DEF ContextInv, Index!Prepare, ReviewerRow
  <2>2. UNCHANGED <<settings, links, lane, vectors, builder>>
    BY <1>2 DEF Index!Prepare
  <2>3. \/ Index!Enqueue(c, full)
        \/ Index!Exists(c) /\ Index!Requeue(c, TRUE)
        \/ indexes' = indexes
    BY <1>2, Zenon DEF Index!Prepare
  <2>4. CASE indexes' = indexes
    BY <2>2, <2>4 DEF CellsInv, IndexTyped, RowsTrue, BuildersKnow
  <2> HIDE DEF c, full
  <2> QED BY <2>1, <2>2, <2>3, <2>4, CellEnqueued, CellRequeued
<1> QED BY <1>1, <1>2 DEF Index!Review

\* Time passes: leases run out, and take nothing else with them.
LEMMA TickCell ==
  ASSUME CellsInv, Index!Tick
  PROVE  CellsInv'
<1>1. /\ UNCHANGED <<settings, links, vectors, builder>>
      /\ indexes' = [c \in Configs |-> IF Index!Exists(c)
            THEN [indexes[c] EXCEPT !.left = Index!Down(@), !.prep = Index!Down(@),
                                    !.owner = IF indexes[c].left > 1 THEN @ ELSE None] ELSE None]
      /\ lane' = [lane EXCEPT !.left = Index!Down(@), !.blocked = Index!Down(@),
                              !.owner = IF lane.left > 1 THEN @ ELSE None]
  BY DEF Index!Tick
<1>2. \A n \in Nat : Index!Down(n) \in Nat /\ (Index!Down(n) > 0 => n > 1)
  BY DEF Index!Down
<1>3. lane' \in LaneRow
  BY <1>1, <1>2 DEF CellsInv, IndexTyped, LaneRow
<1>4. ASSUME NEW c \in Configs, indexes[c] # None
      PROVE  /\ indexes'[c] \in IndexRow
             /\ indexes'[c].lexical = indexes[c].lexical /\ indexes'[c].vstatus = indexes[c].vstatus
             /\ indexes'[c].count = indexes[c].count
             /\ \A q \in Builders : Holds(q, indexes'[c]) => Holds(q, indexes[c])
  <2> DEFINE old == indexes[c]
             owner == IF old.left > 1 THEN old.owner ELSE None
             row == [old EXCEPT !.left = Index!Down(old.left), !.prep = Index!Down(old.prep),
                                !.owner = owner]
  <2>1. old \in IndexRow
    BY <1>4 DEF CellsInv, IndexTyped
  <2>2. indexes'[c] = row
    BY <1>1, <1>4 DEF Index!Exists
  <2>3. Index!Down(old.left) \in Nat /\ Index!Down(old.prep) \in Nat /\ owner \in Builders \cup {None}
    BY <1>2, <2>1 DEF IndexRow
  <2>4. Index!Down(old.left) > 0 => old.left > 1 /\ owner = old.owner
    BY <1>2, <2>1 DEF IndexRow
  <2> HIDE DEF owner, old
  <2>5. /\ row \in IndexRow /\ row.lexical = old.lexical /\ row.vstatus = old.vstatus
        /\ row.count = old.count /\ row.left = Index!Down(old.left) /\ row.owner = owner
        /\ row.status = old.status
    BY <2>1, <2>3 DEF IndexRow
  <2>6. \A q \in Builders : Holds(q, row) => Holds(q, old)
    <3> HIDE DEF row
    <3>1. old.left \in Nat /\ old # None
      BY <2>1, NoneApart DEF IndexRow
    <3> QED BY <2>4, <2>5, <3>1 DEF Holds
  <2> QED BY <2>2, <2>5, <2>6 DEF old
<1>5. ASSUME NEW c \in Configs, indexes[c] = None
      PROVE  indexes'[c] = None
  BY <1>1, <1>5 DEF Index!Exists
<1>6. IndexTyped'
  <2>1. \A c \in Configs : indexes'[c] \in IndexRow \cup {None}
    BY <1>4, <1>5
  <2>2. indexes' \in [Configs -> IndexRow \cup {None}]
    BY <1>1, <2>1
  <2> QED BY <1>1, <1>3, <2>2 DEF CellsInv, IndexTyped
<1>7. ASSUME NEW c \in Configs
      PROVE  /\ RowTrue(c, indexes'[c], links'[c], vectors')
             /\ \A q \in Builders : builder'[q].index = c /\ Holds(q, indexes'[c])
                                    => Knows(builder'[q], indexes'[c], links'[c])
  <2>1. RowTrue(c, indexes[c], links[c], vectors)
    BY DEF CellsInv, RowsTrue
  <2>2. \A q \in Builders : builder[q].index = c /\ Holds(q, indexes[c])
                            => Knows(builder[q], indexes[c], links[c])
    BY DEF CellsInv, BuildersKnow
  <2>3. links' = links /\ builder' = builder /\ vectors' = vectors
    BY <1>1
  <2>4. CASE indexes[c] = None
    <3>1. indexes'[c] = None
      BY <1>5, <2>4
    <3> QED BY <2>1, <2>3, <2>4, <3>1 DEF Holds
  <2>5. CASE indexes[c] # None
    <3> DEFINE row == indexes'[c]
    <3>1. row \in IndexRow /\ row.lexical = indexes[c].lexical /\ row.vstatus = indexes[c].vstatus
          /\ row.count = indexes[c].count /\ \A q \in Builders : Holds(q, row) => Holds(q, indexes[c])
      BY <1>4, <2>5
    <3> HIDE DEF row
    <3>2. RowTrue(c, row, links[c], vectors)
      BY <2>1, <2>5, <3>1, SameTrue, NoneApart
    <3>3. \A q \in Builders : builder[q].index = c /\ Holds(q, row) => Knows(builder[q], row, links[c])
      BY <2>2, <3>1 DEF Knows
    <3> QED BY <2>3, <3>2, <3>3 DEF row
  <2> QED BY <2>4, <2>5
<1>8. \A q \in Builders : Closing(builder'[q])
  BY <1>1 DEF CellsInv, BuildersKnow
<1> QED BY <1>6, <1>7, <1>8 DEF CellsInv, RowsTrue, BuildersKnow

LEMMA CellsKept ==
  ASSUME CellsInv, ContextInv, Index!Next
  PROVE  CellsInv'
BY BuildCell, ReviewCell, OperatorCell, TickCell, Zenon DEF Index!Next

\* The lane.

Requesting == {"acquired", "asking"}

\* A builder moves, and no other one; it is not in the lane afterwards.
OutOfLane(b) ==
    /\ \A q \in Builders \ {b} : builder'[q] = builder[q]
    /\ builder'[b].pc \notin Requesting

LEMMA LaneLeft ==
  ASSUME LaneHeld, NEW b \in Builders, OutOfLane(b), UNCHANGED <<lane, vectors, twice>>
  PROVE  LaneHeld'
<1>1. ASSUME NEW q \in Builders
      PROVE  /\ builder'[q].pc \in {"acquired", "asking"} => lane'.owner = q /\ lane'.left > 0
             /\ builder'[q].pc = "asking" => <<builder'[q].index, builder'[q].chunk>> \notin vectors'
  BY DEF LaneHeld, OutOfLane, Requesting
<1> QED BY <1>1 DEF LaneHeld

\* The steps of a builder beside its requests.
LEMMA BuildOutOfLane ==
  ASSUME IndexTyped, NEW b \in Builders,
         \/ Index!Claim(b) \/ Index!Begin(b) \/ Index!Load(b) \/ Index!Reset(b) \/ Index!Store(b)
         \/ Index!Link(b) \/ Index!Settled(b) \/ Index!OutOfTime(b) \/ Index!Embed(b) \/ Index!LinkOne(b)
         \/ Index!Complete(b) \/ Index!LoseLease(b) \/ Index!FailBuild(b) \/ Index!Crash(b)
  PROVE  OutOfLane(b) /\ UNCHANGED <<lane, vectors, twice>>
<1>1. UNCHANGED <<lane, vectors, twice>>
  BY DEF Index!Claim, Index!Begin, Index!Load, Index!Reset, Index!Store, Index!Link, Index!Settled,
         Index!OutOfTime, Index!Embed, Index!LinkOne, Index!Complete, Index!LoseLease, Index!FailBuild,
         Index!Crash, Index!laneVars
<1> SUFFICES OutOfLane(b)
  BY <1>1
<1>2. /\ builder = [q \in Builders |-> builder[q]]
      /\ DOMAIN builder = Builders /\ builder[b] \in BuilderRow
  BY DEF IndexTyped
<1>3. ASSUME Index!Stop(b)
      PROVE  OutOfLane(b)
  BY <1>2, <1>3, EmptyHand DEF Index!Stop, OutOfLane, Requesting
<1>4. ASSUME NEW pc \in BuilderPoints \ Requesting, Index!Goto(b, pc)
      PROVE  OutOfLane(b)
  <2>1. [builder[b] EXCEPT !.pc = pc].pc = pc
    BY <1>2, HandAt
  <2> QED BY <1>2, <1>4, <2>1 DEF Index!Goto, OutOfLane
<1>5. ASSUME NEW vstatus, NEW again, NEW delay, NEW failures,
             Index!Close(b, vstatus, again, delay, failures)
      PROVE  OutOfLane(b)
  BY <1>2, <1>5 DEF Index!Close, OutOfLane, Requesting, BuilderRow
<1>6. {"reset", "link"} \subseteq BuilderPoints \ Requesting
  BY DEF BuilderPoints, Requesting
<1>7. CASE Index!Complete(b) \/ Index!LoseLease(b) \/ Index!FailBuild(b) \/ Index!Crash(b)
  BY <1>3, <1>7 DEF Index!Complete, Index!LoseLease, Index!FailBuild, Index!Crash
<1>8. CASE Index!Load(b)
  BY <1>4, <1>6, <1>8 DEF Index!Load
<1>9. CASE Index!Reset(b)
  <2>1. Index!Goto(b, "store") /\ "store" \in BuilderPoints \ Requesting
    BY <1>9 DEF Index!Reset, BuilderPoints, Requesting
  <2> QED BY <1>4, <2>1
<1>10. CASE Index!Settled(b) \/ Index!OutOfTime(b)
  <2>1. \E vstatus, again, delay, failures : Index!Close(b, vstatus, again, delay, failures)
    BY <1>10, Zenon DEF Index!Settled, Index!OutOfTime
  <2> QED BY <1>5, <2>1
<1>11. CASE Index!Claim(b)
  <2>1. PICK c \in Configs :
          builder' = [builder EXCEPT ![b] =
             [Index!NoBuilder EXCEPT !.pc = "begin", !.index = c, !.include = indexes[c].include,
                                     !.op = indexes[c].op, !.failures = indexes[c].failures]]
    BY <1>11 DEF Index!Claim
  <2>2. builder'[b].pc = "begin"
    BY <1>2, <2>1 DEF Index!NoBuilder
  <2> QED BY <1>2, <2>1, <2>2 DEF OutOfLane, Requesting
<1>12. CASE Index!Begin(b)
  <2> DEFINE pc == IF indexes[builder[b].index].lexical THEN "link" ELSE "load"
  <2>1. CASE Index!Stop(b)
    BY <1>3, <2>1
  <2>2. CASE builder' = [builder EXCEPT ![b].pc = pc, ![b].paused = settings.mode # "full"]
    <3>1. pc \notin Requesting
      BY DEF Requesting
    <3> HIDE DEF pc
    <3>2. builder'[b].pc = pc
      BY <1>2, <2>2 DEF BuilderRow
    <3> QED BY <1>2, <2>2, <3>1, <3>2 DEF OutOfLane
  <2> QED BY <1>12, <2>1, <2>2 DEF Index!Begin
<1>13. CASE Index!Store(b)
  <2>1. builder' = builder \/ Index!Goto(b, "link")
    BY <1>13, Zenon DEF Index!Store
  <2>2. builder[b].pc = "store"
    BY <1>13 DEF Index!Store, Index!At
  <2>3. CASE builder' = builder
    BY <2>2, <2>3 DEF OutOfLane, Requesting
  <2> QED BY <1>4, <1>6, <2>1, <2>3
<1>14. CASE Index!Link(b) \/ Index!LinkOne(b)
  <2>1. Index!Counted(b, builder[b].index)
    BY <1>14 DEF Index!Link, Index!LinkOne
  <2>2. PICK n : builder' = [builder EXCEPT ![b].pc = "embed", ![b].count = n]
    BY <2>1, Zenon DEF Index!Counted
  <2>3. builder'[b].pc = "embed"
    BY <1>2, <2>2 DEF BuilderRow
  <2> QED BY <1>2, <2>2, <2>3 DEF OutOfLane, Requesting
<1>15. CASE Index!Embed(b)
  <2> DEFINE k == Index!Missing(b)
             pc == IF <<builder[b].index, k>> \in vectors THEN "link one" ELSE "miss"
  <2>1. builder' = [builder EXCEPT ![b].chunk = k, ![b].pc = pc]
    BY <1>15 DEF Index!Embed
  <2>2. pc \notin Requesting
    BY DEF Requesting
  <2> HIDE DEF k, pc
  <2>3. builder'[b].pc = pc
    BY <1>2, <2>1 DEF BuilderRow
  <2> QED BY <1>2, <2>1, <2>2, <2>3 DEF OutOfLane
<1> QED BY <1>7, <1>8, <1>9, <1>10, <1>11, <1>12, <1>13, <1>14, <1>15

\* The lane is given back by the builder that holds it: nobody else is in it.
LEMMA LaneGivenBack ==
  ASSUME LaneHeld, NEW b \in Builders, builder[b].pc \in Requesting, OutOfLane(b), twice' = twice
  PROVE  LaneHeld'
<1>1. lane.owner = b
  BY DEF LaneHeld, Requesting
<1>2. \A q \in Builders : builder'[q].pc \notin Requesting
  BY <1>1 DEF LaneHeld, OutOfLane, Requesting
<1> QED BY <1>2 DEF LaneHeld, Requesting

LEMMA RequestInLane ==
  ASSUME IndexTyped, LaneHeld, NEW b \in Builders,
         Index!Acquire(b) \/ Index!Ask(b) \/ Index!Answer(b) \/ Index!AskFails(b)
  PROVE  LaneHeld'
<1>1. builder = [q \in Builders |-> builder[q]] /\ builder[b] \in BuilderRow
  BY DEF IndexTyped
<1>2. ASSUME NEW retryable, NEW exhausted, Index!RoundFails(b, retryable, exhausted)
      PROVE  OutOfLane(b)
  <2>1. PICK vstatus, again, delay, failures : Index!Close(b, vstatus, again, delay, failures)
    BY <1>2, Zenon DEF Index!RoundFails
  <2> QED BY <1>1, <2>1 DEF Index!Close, OutOfLane, Requesting, BuilderRow
<1>3. ASSUME NEW pc, Index!Goto(b, pc)
      PROVE  /\ \A q \in Builders \ {b} : builder'[q] = builder[q]
             /\ builder'[b].pc = pc /\ builder'[b].index = builder[b].index
             /\ builder'[b].chunk = builder[b].chunk
  BY <1>1, <1>3 DEF Index!Goto, BuilderRow
<1>4. ASSUME Index!Goto(b, "link one")
      PROVE  OutOfLane(b)
  <2>1. (\A q \in Builders \ {b} : builder'[q] = builder[q]) /\ builder'[b].pc = "link one"
    BY <1>3, <1>4, Zenon
  <2> QED BY <2>1 DEF OutOfLane, Requesting
<1>5. CASE Index!Acquire(b)
  <2>1. UNCHANGED <<vectors, twice>>
    BY <1>5 DEF Index!Acquire
  <2>2. CASE /\ Index!LaneFree /\ lane' = [lane EXCEPT !.owner = b, !.left = LaneTime]
             /\ Index!Goto(b, "acquired")
    <3>1. lane'.owner = b /\ lane'.left > 0
      BY <2>2, WorkersAssumption DEF IndexTyped, LaneRow
    <3>2. lane.left = 0
      BY <2>2 DEF Index!LaneFree
    <3>3. ASSUME NEW q \in Builders
          PROVE  builder[q].pc \notin Requesting
      <4>1. builder[q].pc \in {"acquired", "asking"} => lane.left > 0
        BY DEF LaneHeld
      <4> QED BY <3>2, <4>1 DEF Requesting
    <3>4. \A q \in Builders \ {b} : builder'[q].pc \notin Requesting
      BY <1>3, <2>2, <3>3
    <3>5. builder'[b].pc = "acquired"
      BY <1>3, <2>2
    <3>6. ASSUME NEW q \in Builders
          PROVE  /\ builder'[q].pc \in {"acquired", "asking"} => lane'.owner = q /\ lane'.left > 0
                 /\ builder'[q].pc # "asking"
      BY <3>1, <3>4, <3>5 DEF Requesting
    <3> QED BY <2>1, <3>6 DEF LaneHeld
  <2>3. CASE Index!RoundFails(b, TRUE, FALSE) /\ lane' = lane
    BY <1>2, <2>1, <2>3, LaneLeft
  <2> QED BY <1>5, <2>2, <2>3 DEF Index!Acquire
<1>6. CASE Index!Ask(b)
  <2>1. builder[b].pc \in Requesting /\ UNCHANGED <<vectors, twice>>
    BY <1>6 DEF Index!Ask, Index!At, Requesting
  <2>2. CASE Index!Goto(b, "link one")
    BY <1>4, <2>1, <2>2, LaneGivenBack
  <2>3. CASE Index!RoundFails(b, FALSE, TRUE)
    BY <1>2, <2>1, <2>3, LaneGivenBack
  <2>4. CASE /\ <<builder[b].index, builder[b].chunk>> \notin vectors
             /\ Index!Goto(b, "asking") /\ lane' = lane
    <3>1. lane'.owner = b /\ lane'.left > 0
      BY <2>1, <2>4 DEF LaneHeld, Requesting
    <3>2. ASSUME NEW q \in Builders
          PROVE  /\ builder'[q].pc \in {"acquired", "asking"} => lane'.owner = q /\ lane'.left > 0
                 /\ builder'[q].pc = "asking" => <<builder'[q].index, builder'[q].chunk>> \notin vectors'
      <4>1. CASE q = b
        BY <1>3, <2>1, <2>4, <3>1, <4>1
      <4>2. CASE q # b
        BY <1>3, <2>1, <2>4, <4>2 DEF LaneHeld
      <4> QED BY <4>1, <4>2
    <3> QED BY <2>1, <3>2 DEF LaneHeld
  <2> QED BY <1>6, <2>2, <2>3, <2>4, Zenon DEF Index!Ask, Index!Charged
<1>7. CASE Index!Answer(b)
  <2>1. builder[b].pc = "asking" /\ Index!Goto(b, "link one")
    BY <1>7 DEF Index!Answer, Index!At
  <2>2. twice' = twice
    BY <1>7, <2>1 DEF Index!Answer, LaneHeld
  <2> QED BY <1>4, <2>1, <2>2, LaneGivenBack DEF Requesting
<1>8. CASE Index!AskFails(b)
  <2>1. /\ builder[b].pc = "asking" /\ twice' = twice
        /\ \E retryable \in BOOLEAN : Index!RoundFails(b, retryable, FALSE)
    BY <1>8 DEF Index!AskFails, Index!At
  <2> QED BY <1>2, <2>1, LaneGivenBack DEF Requesting
<1> QED BY <1>5, <1>6, <1>7, <1>8

\* The lane's time does not run out under a request.
LEMMA TickInLane ==
  ASSUME IndexTyped, LaneHeld, Index!Tick
  PROVE  LaneHeld'
<1>1. /\ UNCHANGED <<vectors, twice, builder>>
      /\ lane' = [lane EXCEPT !.left = Index!Down(@), !.blocked = Index!Down(@),
                              !.owner = IF lane.left > 1 THEN @ ELSE None]
      /\ lane.left = 1 => \A b \in Builders : ~Index!Requesting(b)
  BY DEF Index!Tick
<1>2. lane \in LaneRow /\ lane.left \in Nat
  BY DEF IndexTyped, LaneRow
<1>3. ASSUME NEW b \in Builders, builder[b].pc \in {"acquired", "asking"}
      PROVE  lane'.owner = b /\ lane'.left > 0
  <2>1. lane.owner = b /\ lane.left > 0
    BY <1>3 DEF LaneHeld
  <2>2. lane.left # 1
    BY <1>1, <1>3, <2>1 DEF Index!Requesting
  <2>3. lane.left > 1
    BY <1>2, <2>1, <2>2
  <2> QED BY <1>1, <1>2, <2>1, <2>3 DEF Index!Down, LaneRow
<1> QED BY <1>1, <1>3 DEF LaneHeld

LEMMA LaneKept ==
  ASSUME IndexTyped, LaneHeld, Index!Next
  PROVE  LaneHeld'
<1>1. ASSUME UNCHANGED <<lane, vectors, twice, builder>>
      PROVE  LaneHeld'
  BY <1>1 DEF LaneHeld
<1>2. ASSUME NEW b \in Builders, Index!Build(b)
      PROVE  LaneHeld'
  BY <1>2, BuildOutOfLane, RequestInLane, LaneLeft, Zenon DEF Index!Build
<1>3. ASSUME NEW r \in Reviewers, Index!Review(r) \/ Index!RetryReview(r)
      PROVE  UNCHANGED <<lane, vectors, twice, builder>>
  BY <1>3 DEF Index!Review, Index!Consult, Index!Prepare, Index!Save, Index!RetryReview, Index!laneVars
<1>4. ASSUME NEW c \in Configs, Index!RetryIndex(c) \/ Index!Cleanup(c)
      PROVE  UNCHANGED <<lane, vectors, twice, builder>>
  BY <1>4 DEF Index!RetryIndex, Index!Cleanup, Index!laneVars
<1>5. ASSUME Index!CreateIndex \/ Index!ChangeSettings
      PROVE  UNCHANGED <<lane, vectors, twice, builder>>
  BY <1>5 DEF Index!CreateIndex, Index!ChangeSettings, Index!laneVars
<1> QED BY <1>1, <1>2, <1>3, <1>4, <1>5, TickInLane, Zenon DEF Index!Next

\* The counters of requests.

LEMMA UsedReset ==
  ASSUME UsedInv, NEW c, NEW include, Index!Requeue(c, include)
  PROVE  UsedInv'
<1> DEFINE o == (indexes[c].op + 1) % Operations
<1>1. used' = [used EXCEPT ![c][o] = 0]
  BY DEF Index!Requeue
<1> HIDE DEF o
<1>2. used' \in [Configs -> [Index!Ops -> Nat]]
  BY <1>1 DEF UsedInv
<1>3. ASSUME NEW d \in Configs, NEW e \in Index!Ops
      PROVE  used'[d][e] <= RequestLimit
  <2>1. used'[d][e] = IF d = c /\ e = o THEN 0 ELSE used[d][e]
    BY <1>1 DEF UsedInv
  <2> QED BY <2>1, WorkersAssumption DEF UsedInv
<1> QED BY <1>2, <1>3 DEF UsedInv

LEMMA UsedCharged ==
  ASSUME UsedInv, NEW b, Index!Charged(b)
  PROVE  UsedInv'
<1> DEFINE c == builder[b].index
           o == builder[b].op
<1>1. CASE used' = used
  BY <1>1 DEF UsedInv
<1>2. CASE ~(used[c][o] >= RequestLimit) /\ used' = [used EXCEPT ![c][o] = @ + 1]
  <2> HIDE DEF c, o
  <2>1. \A d \in Configs, e \in Index!Ops :
          used'[d][e] = IF d = c /\ e = o THEN used[d][e] + 1 ELSE used[d][e]
    BY <1>2 DEF UsedInv
  <2>2. ASSUME NEW d \in Configs, NEW e \in Index!Ops
        PROVE  used'[d][e] \in Nat /\ used'[d][e] <= RequestLimit
    <3>1. used[d][e] \in Nat /\ used[d][e] <= RequestLimit
      BY DEF UsedInv
    <3>2. RequestLimit \in Nat
      BY WorkersAssumption
    <3> QED BY <1>2, <2>1, <3>1, <3>2
  <2>3. used' \in [Configs -> [Index!Ops -> Nat]]
    <3>1. /\ used' = [d \in Configs |-> used'[d]]
          /\ \A d \in Configs : used'[d] = [e \in Index!Ops |-> used'[d][e]]
      BY <1>2 DEF UsedInv
    <3>2. \A d \in Configs : used'[d] \in [Index!Ops -> Nat]
      BY <2>2, <3>1
    <3> QED BY <3>1, <3>2
  <2> QED BY <2>2, <2>3 DEF UsedInv
<1> QED BY <1>1, <1>2, Zenon DEF Index!Charged

LEMMA UsedKept ==
  ASSUME UsedInv, Index!Next
  PROVE  UsedInv'
<1>1. ASSUME UNCHANGED used
      PROVE  UsedInv'
  BY <1>1 DEF UsedInv
<1>2. ASSUME NEW b \in Builders, Index!Build(b)
      PROVE  UsedInv'
  <2>1. CASE Index!Ask(b)
    <3>1. used' = used \/ Index!Charged(b)
      BY <2>1, Zenon DEF Index!Ask
    <3> QED BY <1>1, <3>1, UsedCharged
  <2>2. CASE Index!Acquire(b) \/ Index!Answer(b) \/ Index!AskFails(b)
    BY <1>1, <2>2 DEF Index!Acquire, Index!Answer, Index!AskFails
  <2>3. CASE \/ Index!Claim(b) \/ Index!Begin(b) \/ Index!Load(b) \/ Index!Reset(b) \/ Index!Store(b)
             \/ Index!Link(b) \/ Index!Settled(b) \/ Index!OutOfTime(b) \/ Index!Embed(b)
             \/ Index!LinkOne(b) \/ Index!Complete(b) \/ Index!LoseLease(b) \/ Index!FailBuild(b)
             \/ Index!Crash(b)
    <3>1. UNCHANGED used
      BY <2>3 DEF Index!Claim, Index!Begin, Index!Load, Index!Reset, Index!Store, Index!Link, Index!Settled,
             Index!OutOfTime, Index!Embed, Index!LinkOne, Index!Complete, Index!LoseLease,
             Index!FailBuild, Index!Crash, Index!laneVars
    <3> QED BY <1>1, <3>1
  <2> QED BY <1>2, <2>1, <2>2, <2>3, Zenon DEF Index!Build
<1>3. ASSUME NEW r \in Reviewers, Index!Review(r) \/ Index!RetryReview(r)
      PROVE  UsedInv'
  <2>1. CASE Index!Prepare(r)
    <3>1. used' = used \/ Index!Requeue(reviewer[r].index, TRUE)
      BY <2>1, Zenon DEF Index!Prepare
    <3> QED BY <1>1, <3>1, UsedReset
  <2>2. CASE Index!Consult(r) \/ Index!Save(r) \/ Index!RetryReview(r)
    BY <1>1, <2>2 DEF Index!Consult, Index!Save, Index!RetryReview, Index!laneVars
  <2> QED BY <1>3, <2>1, <2>2 DEF Index!Review
<1>4. ASSUME NEW c \in Configs, Index!RetryIndex(c) \/ Index!Cleanup(c)
      PROVE  UsedInv'
  <2>1. CASE Index!RetryIndex(c)
    <3>1. \E include \in BOOLEAN : Index!Requeue(c, include)
      BY <2>1 DEF Index!RetryIndex
    <3> QED BY <3>1, UsedReset
  <2>2. CASE Index!Cleanup(c)
    BY <1>1, <2>2 DEF Index!Cleanup, Index!laneVars
  <2> QED BY <1>4, <2>1, <2>2
<1>5. ASSUME Index!CreateIndex \/ Index!ChangeSettings \/ Index!Tick
      PROVE  UsedInv'
  BY <1>1, <1>5 DEF Index!CreateIndex, Index!ChangeSettings, Index!Tick, Index!laneVars
<1> QED BY <1>2, <1>3, <1>4, <1>5, Zenon DEF Index!Next

LEMMA IndexInit ==
  ASSUME Index!Init
  PROVE  CellsInv /\ LaneHeld /\ UsedInv
<1>1. /\ settings \in [config : Configs, mode : Index!Modes]
      /\ indexes \in [Configs -> {None, Index!OldRow}]
      /\ links = [c \in Configs |-> Index!NoLinks]
      /\ lane = [owner |-> None, left |-> 0, failures |-> 0, blocked |-> 0]
      /\ used = [c \in Configs |-> [o \in Index!Ops |-> 0]]
      /\ builder = [b \in Builders |-> Index!NoBuilder]
      /\ twice = {}
  BY DEF Index!Init
<1>2. /\ Index!OldRow \in IndexRow /\ ~Index!OldRow.lexical /\ Index!OldRow.vstatus = "pending"
      /\ Index!OldRow.count = 0 /\ Index!OldRow.status = "failed"
  BY WorkersAssumption DEF Index!OldRow, Index!NewRow, IndexRow
<1>3. /\ Index!NoLinks \in Links /\ Chunked(Index!NoLinks, "vector") = {}
      /\ Cardinality(Chunked(Index!NoLinks, "vector")) = 0
  BY FS_EmptySet DEF Index!NoLinks, Links, Chunked
<1>4. Index!NoBuilder \in BuilderRow /\ Index!NoBuilder.pc = "idle" /\ Index!NoBuilder.index = None
  BY EmptyHand
<1> HIDE DEF Index!OldRow, Index!NoLinks, Index!NoBuilder
<1>5. IndexTyped
  BY <1>1, <1>2, <1>3, <1>4 DEF IndexTyped, LaneRow
<1>6. ASSUME NEW c \in Configs
      PROVE  RowTrue(c, indexes[c], links[c], vectors)
  <2>1. links[c] = Index!NoLinks /\ (indexes[c] = None \/ indexes[c] = Index!OldRow)
    BY <1>1
  <2> QED BY <1>2, <1>3, <2>1 DEF RowTrue
<1>7. BuildersKnow
  BY <1>1, <1>4, NoneApart DEF BuildersKnow, Closing
<1>8. LaneHeld
  BY <1>1, <1>4 DEF LaneHeld
<1>9. UsedInv
  BY <1>1, WorkersAssumption DEF UsedInv
<1> QED BY <1>5, <1>6, <1>7, <1>8, <1>9 DEF CellsInv, RowsTrue

LEMMA IndexInvImplies ==
  ASSUME CellsInv, LaneHeld, UsedInv
  PROVE  IndexSound
<1>1. Index!IndexTruthful
  <2> SUFFICES ASSUME NEW c \in Configs
               PROVE  /\ \A k \in Index!Linked(c, "vector") : <<c, k>> \in vectors
                      /\ Index!Exists(c) =>
                           /\ indexes[c].lexical => Index!Linked(c, "none") = {}
                           /\ indexes[c].vstatus = "ready" => Index!Linked(c, "vector") = 1..Chunks
                           /\ indexes[c].count = Index!Cardinality(Index!Linked(c, "vector"))
    BY DEF Index!IndexTruthful
  <2>1. RowTrue(c, indexes[c], links[c], vectors)
    BY DEF CellsInv, RowsTrue
  <2>2. \A state : Index!Linked(c, state) = Chunked(links[c], state)
    BY DEF Index!Linked, Chunked
  <2> QED BY <2>1, <2>2, SameCount DEF RowTrue, Index!Exists
<1>2. Index!VectorsAskedOnce
  BY DEF LaneHeld, UsedInv, Index!VectorsAskedOnce
<1> QED BY <1>1, <1>2 DEF IndexSound, Index!IndexSound

-----------------------------------------------------------------------------
(* The merged list of a report, and the findings stored of it.             *)

Universe == Candidates \cup SummaryCandidates

\* The largest value of a finite set: the sets of larger ones are ordered by
\* inclusion, and a smallest of them exists.
LEMMA Highest ==
  ASSUME NEW S, IsFiniteSet(S), S # {}, NEW f \in [S -> Int]
  PROVE  \E c \in S : \A d \in S : f[d] <= f[c]
<1> DEFINE Above(c) == {d \in S : f[d] > f[c]}
           T == {Above(c) : c \in S}
<1>1. T \subseteq FiniteSubsetsOf(S)
  BY FS_Subset DEF FiniteSubsetsOf
<1>2. PICK D \in T : \A E \in T : ~(<<E, D>> \in StrictSubsetOrdering(S))
  <2>0. PICK c \in S : TRUE
    OBVIOUS
  <2>1. Above(c) \in T
    BY <2>0
  <2> HIDE DEF T
  <2> QED BY <1>1, <2>1, FS_StrictSubsetOrderingWellFounded, WFMin
<1>3. PICK c \in S : D = Above(c)
  BY <1>2
<1>4. ASSUME NEW d \in S, f[d] > f[c]
      PROVE  FALSE
  <2>0. \A e \in S : f[e] > f[d] => f[e] > f[c]
    BY <1>4
  <2>1. Above(d) \subseteq Above(c) /\ d \in Above(c) /\ d \notin Above(d)
    BY <1>4, <2>0
  <2>2. Above(d) \in T /\ Above(d) \subseteq S /\ Above(c) \subseteq S
    OBVIOUS
  <2> HIDE DEF Above, T
  <2> QED BY <1>2, <1>3, <2>1, <2>2 DEF StrictSubsetOrdering
<1>5. \A d \in S : f[d] \in Int /\ f[c] \in Int
  OBVIOUS
<1> QED BY <1>4, <1>5

LEMMA UniverseFinite ==
  /\ IsFiniteSet(Universe)
  /\ \A S \in SUBSET Universe : IsFiniteSet(S) /\ Cardinality(S) \in Nat
<1>1. IsFiniteSet(Universe)
  BY ReportAssumption, FS_Union DEF Universe
<1>2. ASSUME NEW S \in SUBSET Universe
      PROVE  IsFiniteSet(S) /\ Cardinality(S) \in Nat
  BY <1>1, FS_Subset, FS_CardinalityType
<1> QED BY <1>1, <1>2

LEMMA MostConfident ==
  ASSUME NEW S \in SUBSET Universe, S # {}
  PROVE  \E c \in S : \A d \in S : d.confidence <= c.confidence
<1> DEFINE f == [c \in S |-> c.confidence]
<1>1. IsFiniteSet(S)
  BY UniverseFinite
<1>2. f \in [S -> Int]
  BY ReportAssumption DEF Universe
<1>3. \E c \in S : \A d \in S : f[d] <= f[c]
  <2> HIDE DEF f
  <2> QED BY <1>1, <1>2, Highest
<1> QED BY <1>3

LEMMA Earliest ==
  ASSUME NEW N \in Nat, NEW S \in SUBSET (1..N), S # {}
  PROVE  \E n \in S : \A m \in S : n <= m
<1> DEFINE f == [n \in S |-> 0 - n]
<1>0. 1 \in Int /\ N \in Int
  OBVIOUS
<1>1. IsFiniteSet(S)
  <2>1. IsFiniteSet(1..N)
    BY <1>0, FS_Interval
  <2> QED BY <2>1, FS_Subset
<1>2. f \in [S -> Int]
  OBVIOUS
<1>3. PICK n \in S : \A m \in S : f[m] <= f[n]
  <2> HIDE DEF f
  <2> QED BY <1>1, <1>2, Highest
<1>4. \A m \in S : 0 - m <= 0 - n
  BY <1>3
<1> QED BY <1>4

\* Lists of candidates, one after the other.
Lists(lists) == /\ \E k \in Nat : DOMAIN lists = 1..k
                /\ \A n \in DOMAIN lists : lists[n] \in SUBSET Universe

LEMMA SurestSound ==
  ASSUME NEW lists, Lists(lists), NEW c \in Workflow!AllOf(lists)
  PROVE  /\ Workflow!Surest(lists, Workflow!Identity(c)) \in Workflow!AllOf(lists)
         /\ Workflow!Identity(Workflow!Surest(lists, Workflow!Identity(c))) = Workflow!Identity(c)
         /\ c.confidence <= Workflow!Surest(lists, Workflow!Identity(c)).confidence
<1> DEFINE i == Workflow!Identity(c)
           same == {d \in Workflow!AllOf(lists) : Workflow!Identity(d) = i}
           top == {d \in same : \A e \in same : e.confidence <= d.confidence}
           Has == {n \in DOMAIN lists : top \cap lists[n] # {}}
<1>0. PICK k \in Nat : DOMAIN lists = 1..k
  BY DEF Lists
<1>1. same \in SUBSET Universe /\ c \in same
  BY DEF Lists, Workflow!AllOf
<1>2. top # {}
  <2> HIDE DEF same
  <2>1. \E d \in same : \A e \in same : e.confidence <= d.confidence
    BY <1>1, MostConfident
  <2> QED BY <2>1
<1>3. Has # {} /\ Has \in SUBSET (1..k)
  <2>1. top \subseteq Workflow!AllOf(lists)
    OBVIOUS
  <2> HIDE DEF top
  <2> QED BY <1>0, <1>2, <2>1 DEF Workflow!AllOf
<1>4. PICK n \in Has : \A m \in Has : n <= m
  <2> HIDE DEF Has
  <2> QED BY <1>3, Earliest
<1>5. PICK d \in top : d \in lists[n]
  BY <1>4
<1>6. \A m \in 1..(n - 1) : top \cap lists[m] = {}
  <2> SUFFICES ASSUME NEW m \in 1..(n - 1) PROVE top \cap lists[m] = {}
    OBVIOUS
  <2>1. n \in 1..k /\ m \in DOMAIN lists /\ ~(n <= m)
    BY <1>0, <1>3, <1>4
  <2>2. m \notin Has
    BY <1>4, <2>1
  <2> HIDE DEF top
  <2> QED BY <2>1, <2>2
<1>7. \E e \in top : \E l \in DOMAIN lists : e \in lists[l] /\ \A m \in 1..(l - 1) : top \cap lists[m] = {}
  <2>1. n \in DOMAIN lists
    BY <1>4
  <2> HIDE DEF top
  <2> QED BY <1>5, <1>6, <2>1
<1>8. Workflow!Surest(lists, i) \in top
  <2>1. Workflow!Surest(lists, i) =
           CHOOSE e \in top : \E l \in DOMAIN lists : e \in lists[l] /\ \A m \in 1..(l - 1) : top \cap lists[m] = {}
    BY DEF Workflow!Surest
  <2> HIDE DEF top, i
  <2> QED BY <1>7, <2>1
<1>9. \A e \in top : /\ e \in Workflow!AllOf(lists) /\ Workflow!Identity(e) = i
                     /\ c.confidence <= e.confidence
  BY <1>1
<1> HIDE DEF top
<1> QED BY <1>8, <1>9 DEF i

LEMMA ConfidenceTyped ==
  \A c \in Universe : c.confidence \in Int /\ c.severity \in Int
BY ReportAssumption DEF Universe

LEMMA DistinctSound ==
  ASSUME NEW lists, Lists(lists)
  PROVE  /\ Workflow!Distinct(lists) \in SUBSET Universe
         /\ OnePerIdentity(Workflow!Distinct(lists))
         /\ \A c \in Workflow!AllOf(lists) : Names(Workflow!Distinct(lists), c)
<1> DEFINE D == Workflow!Distinct(lists)
           A == Workflow!AllOf(lists)
           top(c) == Workflow!Surest(lists, Workflow!Identity(c))
<1>1. A \in SUBSET Universe
  BY DEF Lists, Workflow!AllOf
<1>2. \A c \in A : top(c) \in A /\ Workflow!Identity(top(c)) = Workflow!Identity(c)
                   /\ c.confidence <= top(c).confidence
  BY SurestSound
<1>3. D = {top(c) : c \in A}
  BY DEF Workflow!Distinct
<1>4. \A c, d \in A : Workflow!Identity(c) = Workflow!Identity(d) => top(c) = top(d)
  OBVIOUS
<1> HIDE DEF D, A, top
<1>5. D \in SUBSET Universe
  BY <1>1, <1>2, <1>3
<1>6. OnePerIdentity(D)
  <2> SUFFICES ASSUME NEW d \in D, NEW e \in D, Workflow!Identity(d) = Workflow!Identity(e)
               PROVE  d = e
    BY DEF OnePerIdentity
  <2>1. PICK b \in A, c \in A : d = top(b) /\ e = top(c)
    BY <1>3
  <2> QED BY <1>2, <1>4, <2>1, Zenon
<1>7. ASSUME NEW c \in A
      PROVE  Names(D, c)
  <2>1. top(c) \in D /\ top(c) \in Universe
    BY <1>1, <1>2, <1>3
  <2>2. top(c).confidence >= c.confidence
    BY <1>1, <1>2, <2>1, ConfidenceTyped
  <2> QED BY <1>2, <2>1, <2>2 DEF Names
<1> QED BY <1>5, <1>6, <1>7 DEF D, A

\* Nothing of the rest of s is worse than what k keeps of it.
Upper(s, k) == \A c \in k, d \in s \ k : ~Workflow!Before(d, c)

\* A finite set has a candidate that none of it comes after.
LEMMA LastOne ==
  ASSUME NEW S \in SUBSET Universe, S # {}
  PROVE  \E c \in S : \A d \in S : ~Workflow!Before(c, d)
<1> DEFINE f == [c \in S |-> 0 - c.severity]
<1>1. IsFiniteSet(S) /\ f \in [S -> Int]
  BY UniverseFinite, ConfidenceTyped
<1>2. PICK m \in S : \A d \in S : f[d] <= f[m]
  <2> HIDE DEF f
  <2> QED BY <1>1, Highest
<1>3. \A d \in S : d.severity >= m.severity
  BY <1>2, ConfidenceTyped
<1> DEFINE L == {d \in S : d.severity = m.severity}
           g == [c \in L |-> 0 - c.confidence]
<1>4. IsFiniteSet(L) /\ L # {} /\ g \in [L -> Int]
  <2>1. L \in SUBSET Universe
    OBVIOUS
  <2> QED BY <2>1, UniverseFinite, ConfidenceTyped
<1>5. PICK c \in L : \A d \in L : g[d] <= g[c]
  <2> HIDE DEF g, L
  <2> QED BY <1>4, Highest
<1>6. \A d \in L : d.confidence >= c.confidence
  BY <1>5, ConfidenceTyped
<1>7. ASSUME NEW d \in S
      PROVE  ~Workflow!Before(c, d)
  <2>1. c.severity = m.severity /\ d.severity >= m.severity
    BY <1>3
  <2>2. d.severity = m.severity => d.confidence >= c.confidence
    BY <1>6
  <2>3. c \in Universe /\ d \in Universe /\ m \in Universe
    OBVIOUS
  <2> HIDE DEF L
  <2> QED BY <2>1, <2>2, <2>3, ConfidenceTyped DEF Workflow!Before
<1>8. c \in S
  OBVIOUS
<1> QED BY <1>7, <1>8

\* Of a list that is too long there is a best part of the length allowed.
LEMMA BestPart ==
  ASSUME NEW s \in SUBSET Universe, Cardinality(s) > MaxModelFindings
  PROVE  \E k \in SUBSET s : Cardinality(k) = MaxModelFindings /\ Upper(s, k)
<1> DEFINE T == {k \in SUBSET s : Cardinality(k) >= MaxModelFindings /\ Upper(s, k)}
<1>0. MaxModelFindings \in Nat
  BY ReportAssumption
<1>1. IsFiniteSet(s) /\ Cardinality(s) \in Nat
  BY UniverseFinite
<1>2. T \subseteq FiniteSubsetsOf(s)
  BY <1>1, FS_Subset DEF FiniteSubsetsOf
<1>3. s \in T
  BY <1>0, <1>1 DEF Upper
<1>4. PICK k \in T : \A e \in T : ~(<<e, k>> \in StrictSubsetOrdering(s))
  <2> HIDE DEF T
  <2> QED BY <1>1, <1>2, <1>3, FS_StrictSubsetOrderingWellFounded, WFMin
<1>5. /\ k \in SUBSET s /\ k \in SUBSET Universe /\ Upper(s, k) /\ Cardinality(k) >= MaxModelFindings
      /\ IsFiniteSet(k) /\ Cardinality(k) \in Nat
  BY UniverseFinite
<1>6. ASSUME Cardinality(k) > MaxModelFindings
      PROVE  FALSE
  <2>1. k # {}
    BY <1>0, <1>6, FS_EmptySet
  <2>2. PICK c \in k : \A d \in k : ~Workflow!Before(c, d)
    BY <1>5, <2>1, LastOne
  <2> DEFINE e == k \ {c}
  <2>3. Cardinality(e) = Cardinality(k) - 1
    BY <1>5, FS_RemoveElement
  <2>4. Upper(s, e)
    BY <1>5, <2>2 DEF Upper
  <2>5. e \in T
    BY <1>0, <1>5, <1>6, <2>3, <2>4
  <2>6. e \subseteq k /\ c \in k /\ c \notin e /\ e \subseteq s /\ k \subseteq s
    BY <1>5
  <2> HIDE DEF T, e
  <2> QED BY <1>4, <2>5, <2>6 DEF StrictSubsetOrdering
<1> QED BY <1>0, <1>5, <1>6

LEMMA SameSize == \A S : Workflow!Cardinality(S) = Cardinality(S)
BY DEF Workflow!Cardinality, Cardinality

\* A list is cut only to the length allowed.
LEMMA CappedSound ==
  ASSUME NEW s \in SUBSET Universe
  PROVE  /\ Workflow!Capped(s) \in SUBSET s
         /\ Workflow!Capped(s) = s \/ Full(Workflow!Capped(s))
<1> DEFINE Good(k) == /\ Workflow!Cardinality(k) = MaxModelFindings
                      /\ \A c \in k, d \in s \ k : ~Workflow!Before(d, c)
<1>1. MaxModelFindings \in Nat /\ Cardinality(s) \in Nat
  BY ReportAssumption, UniverseFinite
<1>2. CASE Cardinality(s) <= MaxModelFindings
  BY <1>2, SameSize DEF Workflow!Capped
<1>3. CASE Cardinality(s) > MaxModelFindings
  <2>1. \E k \in SUBSET s : Good(k)
    BY <1>3, BestPart, SameSize DEF Upper
  <2>2. Workflow!Capped(s) = CHOOSE k \in SUBSET s : Good(k)
    <3>1. ~(Workflow!Cardinality(s) <= MaxModelFindings)
      BY <1>1, <1>3, SameSize
    <3> QED BY <3>1, Zenon DEF Workflow!Capped
  <2>3. Workflow!Capped(s) \in SUBSET s /\ Good(Workflow!Capped(s))
    <3> HIDE DEF Good
    <3> QED BY <2>1, <2>2, Zenon
  <2> QED BY <1>1, <2>3, SameSize DEF Full
<1> QED BY <1>1, <1>2, <1>3

\* The merged list names what is in the lists, or is full.
LEMMA MergedSound ==
  ASSUME NEW lists, Lists(lists)
  PROVE  /\ Workflow!MergeCandidates(lists) \in SUBSET Universe
         /\ OnePerIdentity(Workflow!MergeCandidates(lists))
         /\ \A c \in Workflow!AllOf(lists) :
               Names(Workflow!MergeCandidates(lists), c) \/ Full(Workflow!MergeCandidates(lists))
<1> DEFINE D == Workflow!Distinct(lists)
           M == Workflow!MergeCandidates(lists)
<1>1. D \in SUBSET Universe /\ OnePerIdentity(D) /\ \A c \in Workflow!AllOf(lists) : Names(D, c)
  BY DistinctSound
<1>2. M = Workflow!Capped(D)
  BY DEF Workflow!MergeCandidates
<1> HIDE DEF D, M
<1>3. M \in SUBSET D /\ (M = D \/ Full(M))
  BY <1>1, <1>2, CappedSound
<1>4. OnePerIdentity(M)
  BY <1>1, <1>3 DEF OnePerIdentity
<1> QED BY <1>1, <1>3, <1>4 DEF M

\* Every finding of a list is materialised as one with its fingerprint.
LEMMA MaterialSound ==
  ASSUME NEW s \in SUBSET Universe, NEW d \in s
  PROVE  \E m \in Workflow!Materialized(s) : m \in s /\ Workflow!Fingerprint(m) = Workflow!Fingerprint(d)
<1> DEFINE f == Workflow!Fingerprint(d)
           S == {c \in s : Workflow!Fingerprint(c) = f}
           v == [c \in S |-> Workflow!Verification(c)]
           Good(c) == /\ Workflow!Fingerprint(c) = f
                      /\ \A e \in s : Workflow!Fingerprint(e) = f =>
                            \/ Workflow!Verification(e) < Workflow!Verification(c)
                            \/ /\ Workflow!Verification(e) = Workflow!Verification(c)
                               /\ e.confidence <= c.confidence
           m == CHOOSE c \in s : Good(c)
<1>1. \A c : Workflow!Verification(c) \in Int
  BY DEF Workflow!Verification
<1>2. S \in SUBSET Universe /\ S # {} /\ v \in [S -> Int]
  BY <1>1
<1>3. PICK b \in S : \A c \in S : v[c] <= v[b]
  <2> HIDE DEF S, v
  <2>1. IsFiniteSet(S)
    BY <1>2, UniverseFinite
  <2> QED BY <1>2, <2>1, Highest
<1> DEFINE L == {c \in S : Workflow!Verification(c) = Workflow!Verification(b)}
<1>4. PICK c \in L : \A e \in L : e.confidence <= c.confidence
  <2>1. L \in SUBSET Universe /\ L # {}
    OBVIOUS
  <2> HIDE DEF L
  <2> QED BY <2>1, MostConfident
<1>5. c \in s /\ Good(c)
  <2>1. ASSUME NEW e \in s, Workflow!Fingerprint(e) = f
        PROVE  \/ Workflow!Verification(e) < Workflow!Verification(c)
               \/ /\ Workflow!Verification(e) = Workflow!Verification(c)
                  /\ e.confidence <= c.confidence
    <3>1. e \in S /\ Workflow!Verification(e) <= Workflow!Verification(b)
      BY <1>3, <2>1
    <3>2. Workflow!Verification(c) = Workflow!Verification(b)
      BY <1>4
    <3>3. CASE Workflow!Verification(e) = Workflow!Verification(b)
      BY <1>4, <3>1, <3>2, <3>3
    <3>4. CASE Workflow!Verification(e) # Workflow!Verification(b)
      BY <1>1, <3>1, <3>2, <3>4
    <3> QED BY <3>3, <3>4
  <2> QED BY <1>4, <2>1
<1>6. m \in s /\ Good(m)
  <2> HIDE DEF Good
  <2> QED BY <1>5, Zenon
<1>7. m \in Workflow!Materialized(s)
  <2>1. f \in {Workflow!Fingerprint(c2) : c2 \in s}
    OBVIOUS
  <2> QED BY <2>1 DEF Workflow!Materialized
<1> HIDE DEF m
<1> QED BY <1>6, <1>7

\* Storing a list leaves a row for each of its findings.
LEMMA RowsStored ==
  ASSUME NEW s \in SUBSET Universe, NEW supported,
         stored' = stored \cup Workflow!NewRows(Workflow!Materialized(s), supported)
  PROVE  RowsKept(s)'
<1> SUFFICES ASSUME NEW d \in s PROVE \E r \in stored' : r.fingerprint = Workflow!Fingerprint(d)
  BY DEF RowsKept, Workflow!Represents
<1>1. PICK m \in Workflow!Materialized(s) : Workflow!Fingerprint(m) = Workflow!Fingerprint(d)
  BY MaterialSound
<1>2. CASE \E r \in stored : r.fingerprint = Workflow!Fingerprint(m)
  BY <1>1, <1>2
<1>3. CASE \A r \in stored : r.fingerprint # Workflow!Fingerprint(m)
  <2>1. Workflow!Row(m, supported) \in Workflow!NewRows(Workflow!Materialized(s), supported)
    BY <1>3 DEF Workflow!NewRows
  <2>2. Workflow!Row(m, supported).fingerprint = Workflow!Fingerprint(m)
    BY DEF Workflow!Row
  <2> QED BY <1>1, <2>1, <2>2
<1> QED BY <1>2, <1>3

\* What an agent answered are candidates, and one of the answers of its units.
LEMMA FindingsTyped ==
  ASSUME BatchesTyped, NEW a \in Workflow!Agents
  PROVE  Workflow!Findings(a) \in SUBSET Candidates
BY DEF BatchesTyped, Workflow!Findings, Workflow!Done, Workflow!Mine, Workflow!ReviewUnits

LEMMA SameFindings ==
  ASSUME batches' = batches
  PROVE  \A a \in Workflow!Agents : Workflow!Findings(a)' = Workflow!Findings(a)
BY DEF Workflow!Findings, Workflow!Done, Workflow!Mine, Workflow!ReviewUnits

LEMMA SameList ==
  ASSUME batches' = batches
  PROVE  \A fs : ListKept(fs)' <=> ListKept(fs)
BY SameFindings DEF ListKept

LEMMA SameRows ==
  ASSUME stored' = stored
  PROVE  \A fs : RowsKept(fs)' <=> RowsKept(fs)
BY DEF RowsKept

LEMMA SameResults ==
  ASSUME UNCHANGED <<batches, agent, execution>>
  PROVE  ReportedAll' <=> ReportedAll
BY SameFindings DEF ReportedAll, Workflow!Reported

LEMMA QuietStoredStep ==
  ASSUME StoredInv,
         UNCHANGED <<batches, agent, execution, outcome, completed, stored>>,
         turn'.status = "running" => turn.status = "running"
  PROVE  StoredInv'
<1>1. outcome.findings' = outcome.findings
  OBVIOUS
<1> QED BY <1>1, SameList, SameRows, SameResults DEF StoredInv

\* While a turn runs the review is not complete, and without an outcome only
\* the agents' own results matter.
LEMMA PoolStep ==
  ASSUME StoredInv, UNCHANGED <<turn, outcome, completed, stored>>,
         turn.status = "running", outcome = None,
         ReportedAll => ReportedAll',
         \A a \in Workflow!Agents : execution'[a].result \in {None} \cup SUBSET Candidates
  PROVE  StoredInv'
BY DEF StoredInv

LEMMA AgentThroughStored ==
  ASSUME ReportInv, StoredInv, NEW a \in Workflow!Agents, Workflow!CompleteAgent(a)
  PROVE  StoredInv'
<1>1. /\ UNCHANGED <<batches, outcome, completed, turn, stored>>
      /\ turn.status = "running" /\ outcome = None
      /\ agent' = [agent EXCEPT ![a] = "done"]
  BY DEF Workflow!CompleteAgent, Workflow!InPool
<1>2. Workflow!Findings(a) \in SUBSET Candidates
  BY FindingsTyped DEF ReportInv
<1>3. \E e : /\ execution' = [execution EXCEPT ![a] = e]
             /\ e.result \in {None} \cup SUBSET Candidates
             /\ \/ e.status \in {"failed", "disabled"}
                \/ e.result = Workflow!Findings(a)
                \/ Workflow!Findings(a) = {}
  <2>1. CASE Workflow!Skipped(a)
    <3>1. \A status : Workflow!Execution(status, None).result = None
      BY DEF Workflow!Execution, Workflow!NoExecution
    <3>2. CASE /\ Workflow!Mine(a) = {}
               /\ execution' = [execution EXCEPT ![a] = Workflow!Execution("not_applicable", None)]
      <4>1. Workflow!Findings(a) = {}
        BY <3>2 DEF Workflow!Findings, Workflow!Done
      <4> HIDE DEF Workflow!Findings
      <4> QED BY <3>1, <3>2, <4>1
    <3>3. CASE execution' = [execution EXCEPT ![a] = Workflow!Execution("disabled", None)]
      <4>1. Workflow!Execution("disabled", None).status = "disabled"
        BY DEF Workflow!Execution, Workflow!NoExecution
      <4> QED BY <3>1, <3>3, <4>1
    <3> QED BY <2>1, <3>2, <3>3, Zenon DEF Workflow!Skipped
  <2>2. CASE Workflow!Succeeded(a)
    <3>1. Workflow!Execution("completed", Workflow!Findings(a)).result = Workflow!Findings(a)
      BY DEF Workflow!Execution, Workflow!NoExecution
    <3> QED BY <1>2, <2>2, <3>1 DEF Workflow!Succeeded
  <2>3. CASE Workflow!Failed(a)
    <3>1. PICK refused \in BOOLEAN :
             execution' = [execution EXCEPT ![a] =
                 [status |-> "failed", refused |-> refused,
                  result |-> IF Workflow!Done(a) = {} THEN None ELSE Workflow!Findings(a)]]
      BY <2>3 DEF Workflow!Failed
    <3> DEFINE e == [status |-> "failed", refused |-> refused,
                     result |-> IF Workflow!Done(a) = {} THEN None ELSE Workflow!Findings(a)]
    <3>2. /\ e.status = "failed" /\ execution' = [execution EXCEPT ![a] = e]
          /\ e.result \in {None} \cup SUBSET Candidates
      BY <1>2, <3>1
    <3> HIDE DEF e
    <3> QED BY <3>2
  <2> QED BY <2>1, <2>2, <2>3, Zenon DEF Workflow!CompleteAgent
<1>4. PICK e : /\ execution' = [execution EXCEPT ![a] = e]
               /\ e.result \in {None} \cup SUBSET Candidates
               /\ \/ e.status \in {"failed", "disabled"}
                  \/ e.result = Workflow!Findings(a)
                  \/ Workflow!Findings(a) = {}
  BY <1>3
<1>5. execution = [b \in Workflow!Agents |-> execution[b]]
  BY DEF ReportInv
<1>6. execution'[a] = e /\ \A b \in Workflow!Agents \ {a} : execution'[b] = execution[b]
  BY <1>4, <1>5
<1>7. \A b \in Workflow!Agents \ {a} : agent'[b] = "done" => agent[b] = "done"
  BY <1>1
<1>8. ASSUME ReportedAll
      PROVE  ReportedAll'
  <2> SUFFICES ASSUME NEW b \in Workflow!Agents, agent'[b] = "done"
               PROVE  \/ execution'[b].status \in {"failed", "disabled"}
                      \/ Workflow!Findings(b)' \subseteq Workflow!Reported(b)'
    BY DEF ReportedAll
  <2>1. Workflow!Findings(b)' = Workflow!Findings(b)
    BY <1>1, SameFindings
  <2>2. CASE b = a
    <3>1. e.result = Workflow!Findings(a) => e.result # None
      BY <1>2, WorkersAssumption
    <3>2. e.result = Workflow!Findings(a) => Workflow!Reported(a)' = Workflow!Findings(a)
      BY <1>6, <3>1 DEF Workflow!Reported
    <3> QED BY <1>4, <1>6, <2>1, <2>2, <3>2
  <2>3. CASE b # a
    <3>1. Workflow!Reported(b)' = Workflow!Reported(b)
      BY <1>6, <2>3 DEF Workflow!Reported
    <3> QED BY <1>6, <1>7, <1>8, <2>1, <2>3, <3>1 DEF ReportedAll
  <2> QED BY <2>2, <2>3
<1>9. \A b \in Workflow!Agents : execution'[b].result \in {None} \cup SUBSET Candidates
  BY <1>4, <1>6 DEF StoredInv
<1> QED BY <1>1, <1>8, <1>9, PoolStep

LEMMA AnswerStored ==
  ASSUME ReportInv, StoredInv, NEW a \in Workflow!Agents, NEW u \in Workflow!ReviewUnits,
         Workflow!AnswerBatch(a, u)
  PROVE  StoredInv'
<1>1. /\ UNCHANGED <<turn, agent, execution, outcome, completed, stored>>
      /\ turn.status = "running" /\ outcome = None /\ agent[a] = "started"
      /\ \E s \in SUBSET {c \in Candidates : c.unit = u} : batches' = [batches EXCEPT ![a][u] = s]
  BY DEF Workflow!AnswerBatch, Workflow!InPool, Workflow!Working
<1>2. PICK s : batches' = [batches EXCEPT ![a][u] = s]
  BY <1>1
<1>3. batches' = [batches EXCEPT ![a] = [batches[a] EXCEPT ![u] = s]]
  BY <1>2 DEF ReportInv, BatchesTyped
<1>4. \A b \in Workflow!Agents \ {a} : batches'[b] = batches[b]
  BY <1>3 DEF ReportInv, BatchesTyped
<1>5. \A b \in Workflow!Agents \ {a} : Workflow!Findings(b)' = Workflow!Findings(b)
  BY <1>4 DEF Workflow!Findings, Workflow!Done, Workflow!Mine, Workflow!ReviewUnits
<1>6. \A b \in Workflow!Agents : Workflow!Reported(b)' = Workflow!Reported(b)
  BY <1>1 DEF Workflow!Reported
<1>7. ReportedAll => ReportedAll'
  BY <1>1, <1>5, <1>6 DEF ReportedAll
<1>8. \A b \in Workflow!Agents : execution'[b].result \in {None} \cup SUBSET Candidates
  BY <1>1 DEF StoredInv
<1> QED BY <1>1, <1>7, <1>8, PoolStep

LEMMA LossStored ==
  ASSUME StoredInv, NEW a \in Workflow!Agents, Workflow!NoticeLoss(a) \/ Workflow!StartAgent(a)
  PROVE  StoredInv'
<1>1. /\ UNCHANGED <<turn, batches, execution, outcome, completed, stored>>
      /\ turn.status = "running" /\ outcome = None
  BY DEF Workflow!NoticeLoss, Workflow!StartAgent, Workflow!InPool
<1>2. \A b \in Workflow!Agents : agent'[b] = "done" => agent[b] = "done"
  <2>1. CASE Workflow!NoticeLoss(a)
    <3>1. agent' = [b \in Workflow!Agents |-> IF b = a \/ agent[b] = "queued" THEN "stopped" ELSE agent[b]]
      BY <2>1, Zenon DEF Workflow!NoticeLoss
    <3> QED BY <3>1
  <2>2. CASE Workflow!StartAgent(a)
    <3>1. agent' = [agent EXCEPT ![a] = "started"]
      BY <2>2, Zenon DEF Workflow!StartAgent
    <3> QED BY <3>1
  <2> QED BY <2>1, <2>2
<1>3. ReportedAll => ReportedAll'
  BY <1>1, <1>2, SameFindings DEF ReportedAll, Workflow!Reported
<1>4. \A b \in Workflow!Agents : execution'[b].result \in {None} \cup SUBSET Candidates
  BY <1>1 DEF StoredInv
<1> QED BY <1>1, <1>3, <1>4, PoolStep

LEMMA TurnStored ==
  ASSUME StoredInv, Workflow!Claim
  PROVE  StoredInv'
<1>1. /\ UNCHANGED completed
      /\ ~completed
      /\ outcome' = None
      /\ agent' = [a \in Workflow!Agents |-> "queued"]
      /\ execution' = [a \in Workflow!Agents |-> Workflow!NoExecution]
  BY DEF Workflow!Claim, Workflow!Queued, Workflow!Blank
<1>2. Workflow!NoExecution.result = None
  BY DEF Workflow!NoExecution
<1> HIDE DEF Workflow!NoExecution
<1>3. ReportedAll'
  BY <1>1 DEF ReportedAll
<1> QED BY <1>1, <1>2, <1>3 DEF StoredInv

\* The lists of what the agents report.
LEMMA ReportedLists ==
  ASSUME StoredInv
  PROVE  /\ Lists([n \in DOMAIN AgentOrder |-> Workflow!Reported(AgentOrder[n])])
         /\ \A a \in Workflow!Agents :
               Workflow!Reported(a) \subseteq
                   Workflow!AllOf([n \in DOMAIN AgentOrder |-> Workflow!Reported(AgentOrder[n])])
<1> DEFINE lists == [n \in DOMAIN AgentOrder |-> Workflow!Reported(AgentOrder[n])]
<1>1. Len(AgentOrder) \in Nat /\ DOMAIN AgentOrder = 1..Len(AgentOrder)
  BY ReportAssumption
<1>2. ASSUME NEW n \in DOMAIN AgentOrder
      PROVE  lists[n] \in SUBSET Universe
  <2>1. AgentOrder[n] \in Workflow!Agents
    BY DEF Workflow!Agents
  <2>2. Workflow!Reported(AgentOrder[n]) \in SUBSET Candidates
    BY <2>1 DEF StoredInv, Workflow!Reported
  <2> QED BY <2>2 DEF Universe
<1>3. DOMAIN lists = DOMAIN AgentOrder
  OBVIOUS
<1>4. Lists(lists)
  <2> HIDE DEF lists
  <2> QED BY <1>1, <1>2, <1>3 DEF Lists
<1>5. ASSUME NEW a \in Workflow!Agents
      PROVE  Workflow!Reported(a) \subseteq Workflow!AllOf(lists)
  <2>1. PICK n \in DOMAIN AgentOrder : a = AgentOrder[n]
    BY DEF Workflow!Agents
  <2>2. lists[n] = Workflow!Reported(a)
    BY <2>1
  <2> HIDE DEF lists
  <2> QED BY <1>3, <2>1, <2>2 DEF Workflow!AllOf
<1> QED BY <1>4, <1>5

LEMMA OutcomeMerged ==
  ASSUME ReportInv, StoredInv, TurnTyped, Workflow!Aggregate
  PROVE  StoredInv'
<1> DEFINE lists == [n \in DOMAIN AgentOrder |-> Workflow!Reported(AgentOrder[n])]
<1>0. PICK fs : fs = Workflow!MergeFindings
  OBVIOUS
<1>1. /\ UNCHANGED <<batches, agent, execution, completed, stored>>
      /\ \A a \in Workflow!Agents : agent[a] = "done"
      /\ turn.status = "running"
      /\ outcome' = [findings |-> fs, partial |-> Workflow!Partial,
                     short |-> Workflow!Short, settled |-> FALSE]
      /\ turn' = turn \/ turn' = [turn EXCEPT !.stage = "aggregating"]
  BY <1>0 DEF Workflow!Aggregate, Workflow!InPool, Workflow!AllDone, Workflow!Merged
<1>2. fs = Workflow!MergeCandidates(lists)
  BY <1>0 DEF Workflow!MergeFindings
<1>3. Lists(lists) /\ \A a \in Workflow!Agents : Workflow!Reported(a) \subseteq Workflow!AllOf(lists)
  BY ReportedLists
<1> HIDE DEF lists
<1>4. /\ fs \in SUBSET Universe /\ OnePerIdentity(fs)
      /\ \A c \in Workflow!AllOf(lists) : Names(fs, c) \/ Full(fs)
  BY <1>2, <1>3, MergedSound
<1>5. outcome'.findings = fs /\ outcome'.short = Workflow!Short /\ turn'.status = "running"
  BY <1>1 DEF TurnTyped
<1>6. ReportedAll'
  BY <1>1, SameResults DEF StoredInv
<1>7. ASSUME ~Workflow!Short
      PROVE  ListKept(fs)'
  <2>1. \A a \in Workflow!Agents : Workflow!Findings(a) \subseteq Workflow!Reported(a)
    BY <1>1, <1>7 DEF Workflow!Short, Workflow!Failure, Workflow!Disabled, StoredInv, ReportedAll
  <2>2. ListKept(fs)
    BY <1>3, <1>4, <2>1 DEF ListKept
  <2> QED BY <1>1, <2>2, SameList
<1>8. ~completed
  BY <1>1 DEF StoredInv
<1>9. \A b \in Workflow!Agents : execution'[b].result \in {None} \cup SUBSET Candidates
  BY <1>1 DEF StoredInv
<1> QED BY <1>1, <1>4, <1>5, <1>6, <1>7, <1>8, <1>9 DEF StoredInv, Universe

\* A summary adds its findings: what was named still is, and a full list stays
\* full, since no identity of it goes.
LEMMA SummaryKeeps ==
  ASSUME NEW fs \in SUBSET Universe, OnePerIdentity(fs), NEW F \in SUBSET Universe
  PROVE  /\ Workflow!MergeCandidates(<<fs, F>>) \in SUBSET Universe
         /\ OnePerIdentity(Workflow!MergeCandidates(<<fs, F>>))
         /\ Full(fs) => Full(Workflow!MergeCandidates(<<fs, F>>))
         /\ \A c \in Universe : Names(fs, c) =>
               Names(Workflow!MergeCandidates(<<fs, F>>), c) \/ Full(Workflow!MergeCandidates(<<fs, F>>))
<1> DEFINE lists == <<fs, F>>
           M == Workflow!MergeCandidates(lists)
           D == Workflow!Distinct(lists)
<1>1. Lists(lists)
  <2>1. DOMAIN lists = 1..2 /\ lists[1] = fs /\ lists[2] = F
    OBVIOUS
  <2>2. \A n \in 1..2 : n = 1 \/ n = 2
    OBVIOUS
  <2> HIDE DEF lists
  <2> QED BY <2>1, <2>2 DEF Lists
<1>2. fs \subseteq Workflow!AllOf(lists)
  <2>1. 1 \in DOMAIN lists /\ lists[1] = fs
    OBVIOUS
  <2> HIDE DEF lists
  <2> QED BY <2>1 DEF Workflow!AllOf
<1> HIDE DEF lists
<1>3. /\ M \in SUBSET Universe /\ OnePerIdentity(M)
      /\ \A c \in Workflow!AllOf(lists) : Names(M, c) \/ Full(M)
  BY <1>1, MergedSound
<1>4. D \in SUBSET Universe /\ \A c \in fs : Names(D, c)
  BY <1>1, <1>2, DistinctSound
<1>5. M = Workflow!Capped(D)
  BY DEF Workflow!MergeCandidates
<1>6. ASSUME Full(fs)
      PROVE  Full(M)
  <2> HIDE DEF D, M
  <2> DEFINE g == [c \in fs |-> CHOOSE d \in D : Workflow!Identity(d) = Workflow!Identity(c)]
  <2>1. \A c \in fs : g[c] \in D /\ Workflow!Identity(g[c]) = Workflow!Identity(c)
    BY <1>4 DEF Names
  <2>2. g \in [fs -> D]
    BY <2>1
  <2>3. \A c, d \in fs : g[c] = g[d] => c = d
    <3> SUFFICES ASSUME NEW c \in fs, NEW d \in fs, g[c] = g[d] PROVE c = d
      OBVIOUS
    <3>1. Workflow!Identity(c) = Workflow!Identity(g[c]) /\ Workflow!Identity(d) = Workflow!Identity(g[c])
      BY <2>1
    <3> HIDE DEF g
    <3> QED BY <3>1 DEF OnePerIdentity
  <2> HIDE DEF g
  <2>4. g \in Injection(fs, D)
    BY <2>2, <2>3 DEF Injection, IsInjective
  <2>5. Cardinality(fs) <= Cardinality(D)
    <3>1. IsFiniteSet(D)
      BY <1>4, UniverseFinite
    <3> QED BY <2>4, <3>1, FS_Injection
  <2>6. Cardinality(fs) \in Nat /\ Cardinality(D) \in Nat /\ MaxModelFindings \in Nat
    BY <1>4, UniverseFinite, ReportAssumption
  <2>7. Full(D)
    BY <1>6, <2>5, <2>6 DEF Full
  <2> QED BY <1>4, <1>5, <2>7, CappedSound
<1>7. ASSUME NEW c \in Universe, Names(fs, c)
      PROVE  Names(M, c) \/ Full(M)
  <2> HIDE DEF M, D
  <2>1. PICK d \in fs : Workflow!Identity(d) = Workflow!Identity(c) /\ d.confidence >= c.confidence
    BY <1>7 DEF Names
  <2>2. CASE Full(M)
    BY <2>2
  <2>3. CASE Names(M, d)
    <3>1. PICK e \in M : Workflow!Identity(e) = Workflow!Identity(d) /\ e.confidence >= d.confidence
      BY <2>3 DEF Names
    <3>2. e.confidence >= c.confidence
      BY <1>3, <2>1, <3>1, ConfidenceTyped
    <3> QED BY <2>1, <3>1, <3>2 DEF Names
  <2> QED BY <1>2, <1>3, <2>2, <2>3
<1> QED BY <1>3, <1>6, <1>7 DEF M, lists

LEMMA SummaryStored ==
  ASSUME ReportInv, StoredInv, Workflow!SummaryAnswers
  PROVE  StoredInv'
<1>1. /\ UNCHANGED <<batches, agent, execution, completed, turn, stored>>
      /\ turn.status = "running" /\ outcome # None
      /\ \E s \in SUBSET (Candidates \cup SummaryCandidates) :
            outcome' = [outcome EXCEPT !.findings =
                           Workflow!MergeCandidates(<<@, Workflow!FilterSummary(s)>>)]
  BY DEF Workflow!SummaryAnswers, Workflow!SummaryDue, Workflow!Settling
<1>2. PICK s \in SUBSET Universe :
         outcome' = [outcome EXCEPT !.findings =
                        Workflow!MergeCandidates(<<outcome.findings, Workflow!FilterSummary(s)>>)]
  BY <1>1 DEF Universe
<1>3. PICK fs : fs = outcome.findings
  OBVIOUS
<1>4. PICK M : M = Workflow!MergeCandidates(<<fs, Workflow!FilterSummary(s)>>)
  OBVIOUS
<1>5. /\ DOMAIN outcome = {"findings", "partial", "short", "settled"}
      /\ fs \in SUBSET Universe /\ OnePerIdentity(fs)
  BY <1>1, <1>3 DEF ReportInv, StoredInv, Universe
<1>6. outcome'.findings = M /\ outcome'.short = outcome.short
  BY <1>2, <1>3, <1>4, <1>5
<1>7. Workflow!FilterSummary(s) \in SUBSET Universe
  BY DEF Workflow!FilterSummary
<1>8. /\ M \in SUBSET Universe /\ OnePerIdentity(M)
      /\ Full(fs) => Full(M)
      /\ \A c \in Universe : Names(fs, c) => Names(M, c) \/ Full(M)
  BY <1>4, <1>5, <1>7, SummaryKeeps
<1>9. ListKept(fs) => ListKept(M)
  <2> SUFFICES ASSUME ListKept(fs), NEW a \in Workflow!Agents, NEW c \in Workflow!Findings(a)
               PROVE  Names(M, c) \/ Full(M)
    BY DEF ListKept
  <2>1. c \in Universe
    BY FindingsTyped DEF ReportInv, Universe
  <2> QED BY <1>8, <2>1 DEF ListKept
<1>10. ListKept(M)' <=> ListKept(M)
  BY <1>1, SameList
<1>11. ~completed
  BY <1>1 DEF StoredInv
<1> QED BY <1>1, <1>3, <1>6, <1>8, <1>9, <1>10, <1>11, SameResults DEF StoredInv, Universe

LEMMA SettledStored ==
  ASSUME ReportInv, StoredInv, Workflow!RecordSummary
  PROVE  StoredInv'
<1>1. /\ UNCHANGED <<batches, agent, execution, completed, turn, stored>>
      /\ turn.status = "running" /\ outcome # None
      /\ outcome' = [outcome EXCEPT !.settled = TRUE]
  BY DEF Workflow!RecordSummary, Workflow!Settling
<1>2. outcome'.findings = outcome.findings /\ outcome'.short = outcome.short
  BY <1>1 DEF ReportInv
<1>3. ~completed
  BY <1>1 DEF StoredInv
<1>4. PICK fs : fs = outcome.findings
  OBVIOUS
<1>5. ListKept(fs)' <=> ListKept(fs)
  BY <1>1, SameList
<1> QED BY <1>1, <1>2, <1>3, <1>4, <1>5, SameResults DEF StoredInv

LEMMA RowsWritten ==
  ASSUME ReportInv, StoredInv, TurnTyped, Workflow!StoreReview
  PROVE  StoredInv'
<1>1. /\ UNCHANGED <<batches, agent, execution, outcome>>
      /\ turn.status = "running" /\ outcome # None
      /\ outcome.partial \/ ~outcome.short
      /\ completed' = ~outcome.partial
      /\ turn' = IF outcome.partial
                 THEN [turn EXCEPT !.status = "failed", !.stage = "agents"]
                 ELSE [turn EXCEPT !.status = "completed", !.stage = "awaiting_approval"]
  BY Zenon DEF Workflow!StoreReview, Workflow!Storable, Workflow!Settling
<1>2. turn'.status # "running"
  BY <1>1 DEF TurnTyped
<1>3. PICK fs : fs = outcome.findings
  OBVIOUS
<1>4. fs \in SUBSET Universe
  BY <1>1, <1>3 DEF StoredInv, Universe
<1>5. ASSUME ~outcome.partial
      PROVE  RowsKept(fs)'
  <2>1. \E read \in Workflow!ReadBlobs(Workflow!Materialized(fs)) :
           stored' = stored \cup Workflow!NewRows(Workflow!Materialized(fs),
                                                  Workflow!Supported(Workflow!Materialized(fs), read))
    BY <1>3, <1>5, Zenon DEF Workflow!StoreReview
  <2> QED BY <1>4, <2>1, RowsStored
<1>6. ASSUME ~outcome.partial
      PROVE  ListKept(fs)'
  <2>1. ListKept(fs)
    BY <1>1, <1>3, <1>6 DEF StoredInv
  <2> QED BY <1>1, <2>1, SameList
<1>7. outcome'.findings = fs
  BY <1>1, <1>3
<1> QED BY <1>1, <1>2, <1>3, <1>5, <1>6, <1>7 DEF StoredInv

LEMMA RetryStored ==
  ASSUME StoredInv, TurnTyped,
         \/ \E changed \in SUBSET Workflow!Agents : Workflow!RetryNode(changed)
         \/ \E stage \in {"agents", "aggregating"} : Workflow!RetryStage(stage)
  PROVE  StoredInv'
<1>1. /\ completed' = FALSE
      /\ UNCHANGED <<agent, execution, outcome>>
  BY Zenon DEF Workflow!RetryNode, Workflow!RetryStage
<1>2. turn'.status = "ready"
  BY DEF Workflow!RetryNode, Workflow!RetryStage, TurnTyped
<1> QED BY <1>1, <1>2 DEF StoredInv

LEMMA StoredKept ==
  ASSUME ReportInv, StoredInv, TurnTyped, Workflow!WorkflowNext
  PROVE  StoredInv'
<1>1. CASE Workflow!LoseLease \/ Workflow!SummaryFails
  BY <1>1, QuietStoredStep DEF Workflow!LoseLease, Workflow!SummaryFails
<1>2. CASE Workflow!Abandon \/ Workflow!RaiseError
  <2>1. /\ UNCHANGED <<batches, agent, execution, outcome, completed, stored>>
        /\ \E status \in {"ready", "failed"} : turn' = [turn EXCEPT !.status = status]
    BY <1>2, Zenon DEF Workflow!Abandon, Workflow!RaiseError
  <2>2. turn'.status # "running"
    BY <2>1 DEF TurnTyped
  <2> QED BY <2>1, <2>2, QuietStoredStep
<1>3. ASSUME NEW a \in Workflow!Agents,
             \/ Workflow!StartAgent(a) \/ Workflow!CompleteAgent(a) \/ Workflow!NoticeLoss(a)
             \/ \E u \in Workflow!ReviewUnits : Workflow!AnswerBatch(a, u)
      PROVE  StoredInv'
  BY <1>3, LossStored, AgentThroughStored, AnswerStored, Zenon
<1>4. CASE \/ \E changed \in SUBSET Workflow!Agents : Workflow!RetryNode(changed)
           \/ \E stage \in {"agents", "aggregating"} : Workflow!RetryStage(stage)
  BY <1>4, RetryStored, Zenon
<1>5. CASE Workflow!Claim \/ Workflow!Aggregate \/ Workflow!StoreReview
  BY <1>5, TurnStored, OutcomeMerged, RowsWritten, Zenon
<1>6. CASE Workflow!SummaryAnswers \/ Workflow!RecordSummary
  BY <1>6, SummaryStored, SettledStored, Zenon
<1> QED BY <1>1, <1>2, <1>3, <1>4, <1>5, <1>6 DEF Workflow!WorkflowNext

LEMMA StoredInit ==
  ASSUME Workflow!WorkflowInit
  PROVE  StoredInv
<1>1. /\ execution = [a \in Workflow!Agents |-> Workflow!NoExecution]
      /\ outcome = None /\ completed = FALSE
      /\ turn = [status |-> "ready", stage |-> "agents", rounds |-> 0, reviewers |-> {}]
  BY DEF Workflow!WorkflowInit, Workflow!Blank
<1>2. Workflow!NoExecution.result = None
  BY DEF Workflow!NoExecution
<1> HIDE DEF Workflow!NoExecution
<1>3. turn.status = "ready"
  BY <1>1
<1> QED BY <1>1, <1>2, <1>3 DEF StoredInv

LEMMA StoredInvImplies ==
  ASSUME StoredInv
  PROVE  ReportsStored
BY SameSize DEF StoredInv, ReportsStored, Workflow!ReportsStored, ListKept, RowsKept, Names, Full

-----------------------------------------------------------------------------
(* The theorems.  The parts share no variable: a step of one leaves the      *)
(* others as they are.                                                       *)

LEMMA HeartSteps == HeartInv /\ [WorkersNext]_workersVars => HeartInv'
<1> SUFFICES ASSUME HeartInv, [WorkersNext]_workersVars PROVE HeartInv'
  OBVIOUS
<1>1. CASE UNCHANGED <<heartbeat, worker, beats, said, late>>
  BY <1>1 DEF HeartInv
<1>2. CASE Heart!HeartbeatNext
  BY <1>2, HeartKept
<1> QED BY <1>1, <1>2, Zenon
        DEF WorkersNext, BatchStep, HeartbeatStep, IndexStep, ReportStep, workersVars, heartVars

LEMMA HeartStarts == WorkersInit => HeartInv
BY HeartInit DEF WorkersInit

(* The row of a worker id shows the last word of its owner's main program,    *)
(* unless that gave up on an index job's thread, and a process that was       *)
(* replaced begins no work: for any number of starts, tasks and threads.      *)
THEOREM LastWordIsShown == WorkersSpec => []TakeoverSound
<1>1. HeartInv => TakeoverSound
  BY HeartInvImplies
<1> QED BY <1>1, HeartStarts, HeartSteps, PTL DEF WorkersSpec

LEMMA ContextSteps == ContextInv /\ [WorkersNext]_workersVars => ContextInv'
<1> SUFFICES ASSUME ContextInv, [WorkersNext]_workersVars PROVE ContextInv'
  OBVIOUS
<1>1. CASE UNCHANGED <<settings, traces, reviewer>>
  BY <1>1 DEF ContextInv
<1>2. CASE Index!Next
  BY <1>2, ContextKept
<1> QED BY <1>1, <1>2, Zenon
        DEF WorkersNext, BatchStep, HeartbeatStep, IndexStep, ReportStep, workersVars, indexVars

LEMMA ContextStarts == WorkersInit => ContextInv
BY ContextInit DEF WorkersInit

(* The contexts of a review come from one index, and a process that saves one *)
(* takes it from the index of those saved before, whatever the operator       *)
(* changes meanwhile and whatever other process saves for the same review.    *)
THEOREM ContextsOfOneIndex == WorkersSpec => []OneIndexPerReview
<1>1. ContextInv => OneIndexPerReview
  BY ContextInvImplies
<1> QED BY <1>1, ContextStarts, ContextSteps, PTL DEF WorkersSpec

IndexInv == CellsInv /\ LaneHeld /\ UsedInv /\ ContextInv

LEMMA IndexSteps == IndexInv /\ [WorkersNext]_workersVars => IndexInv'
<1> SUFFICES ASSUME IndexInv, [WorkersNext]_workersVars PROVE IndexInv'
  OBVIOUS
<1>1. CASE UNCHANGED indexVars
  <2>1. UNCHANGED <<settings, indexes, links, vectors, lane, used, builder, twice>>
    BY <1>1 DEF indexVars
  <2>2. UsedInv'
    BY <2>1 DEF IndexInv, UsedInv
  <2>3. LaneHeld'
    BY <2>1 DEF IndexInv, LaneHeld
  <2>4. CellsInv'
    BY <2>1 DEF IndexInv, CellsInv, IndexTyped, RowsTrue, BuildersKnow
  <2>5. UNCHANGED <<settings, traces, reviewer>>
    BY <1>1 DEF indexVars
  <2>6. ContextInv'
    BY <2>5 DEF IndexInv, ContextInv
  <2> QED BY <2>2, <2>3, <2>4, <2>6 DEF IndexInv
<1>2. CASE Index!Next
  BY <1>2, CellsKept, LaneKept, UsedKept, ContextKept DEF IndexInv, CellsInv
<1> QED BY <1>1, <1>2, Zenon
        DEF WorkersNext, BatchStep, HeartbeatStep, IndexStep, ReportStep, workersVars

LEMMA IndexStarts == WorkersInit => IndexInv
BY IndexInit, ContextInit DEF WorkersInit, IndexInv

(* The row of an index says what there is: a published index has all its      *)
(* chunks, a complete one all their vectors, and the vectors it counts are    *)
(* the ones linked; no vector is asked for twice, and no operation exceeds    *)
(* its requests: for any number of builders, however they overtake each       *)
(* other, fail or crash, of configurations and of chunks.                     *)
THEOREM IndexTellsTheTruth == WorkersSpec => []IndexSound
<1>1. IndexInv => IndexSound
  BY IndexInvImplies DEF IndexInv
<1> QED BY <1>1, IndexStarts, IndexSteps, PTL DEF WorkersSpec

LEMMA ReportSteps == ReportInv /\ TurnTyped /\ [WorkersNext]_workersVars => ReportInv' /\ TurnTyped'
<1> SUFFICES ASSUME ReportInv, TurnTyped, [WorkersNext]_workersVars PROVE ReportInv' /\ TurnTyped'
  OBVIOUS
<1>1. CASE UNCHANGED reportVars
  <2>1. UNCHANGED <<turn, batches, agent, execution, outcome, completed>>
    BY <1>1 DEF reportVars
  <2> QED BY <2>1 DEF ReportInv, TurnTyped, BatchesTyped, RunningOk, AllCovered, Covered
<1>2. CASE Workflow!WorkflowNext
  BY <1>2, ReportKept, TurnStaysTyped
<1> QED BY <1>1, <1>2, Zenon
        DEF WorkersNext, BatchStep, HeartbeatStep, IndexStep, ReportStep, workersVars

LEMMA ReportStarts == WorkersInit => ReportInv /\ TurnTyped
BY ReportInit DEF WorkersInit

(* A report called complete covers every agent that was asked, in every part  *)
(* of the change, after any retries of nodes and stages and any lost leases.  *)
THEOREM CompleteIsCovered == WorkersSpec => []CompleteCovered
<1>1. ReportInv => CompleteCovered
  BY ReportInvImplies
<1> QED BY <1>1, ReportStarts, ReportSteps, PTL DEF WorkersSpec

ReportInvs == ReportInv /\ TurnTyped /\ StoredInv

LEMMA StoredSteps == ReportInvs /\ [WorkersNext]_workersVars => ReportInvs'
<1> SUFFICES ASSUME ReportInvs, [WorkersNext]_workersVars PROVE ReportInvs'
  OBVIOUS
<1>1. ReportInv' /\ TurnTyped'
  BY ReportSteps DEF ReportInvs
<1>2. CASE UNCHANGED reportVars
  <2>1. UNCHANGED <<batches, agent, execution, outcome, completed, stored, turn>>
    BY <1>2 DEF reportVars
  <2> QED BY <1>1, <2>1, QuietStoredStep DEF ReportInvs
<1>3. CASE Workflow!WorkflowNext
  BY <1>1, <1>3, StoredKept DEF ReportInvs
<1> QED BY <1>2, <1>3, Zenon
        DEF WorkersNext, BatchStep, HeartbeatStep, IndexStep, ReportStep, workersVars

LEMMA StoredStarts == WorkersInit => ReportInvs
BY ReportInit, StoredInit DEF WorkersInit, ReportInvs

(* No agent's finding is lost on the way to a complete report: a row stands   *)
(* for each finding of the merged list, and the list names every problem any  *)
(* agent reported at least as surely, unless it is as long as a list may be:  *)
(* whatever was merged, summarised, located alike or stored by earlier turns. *)
THEOREM NothingReportedIsLost == WorkersSpec => []ReportsStored
<1>1. ReportInvs => ReportsStored
  BY StoredInvImplies DEF ReportInvs
<1> QED BY <1>1, StoredStarts, StoredSteps, PTL DEF WorkersSpec
=============================================================================
