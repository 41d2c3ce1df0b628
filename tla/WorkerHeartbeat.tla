--------------------------- MODULE WorkerHeartbeat ---------------------------
(* The heartbeat row of one worker id.  A starting process takes the row over  *)
(* with its own token; from then on every write of an earlier process fails.   *)
(* The main program writes starting, idle, busy and stopping; while it works   *)
(* on a task or an index, a thread of its own refreshes busy, and its database *)
(* call may outlast the main program's patience.                               *)
EXTENDS Integers, Sequences

CONSTANTS Processes,   \* process starts under the same worker id: their tokens
          Roles,       \* the roles they may run in: "review", "index", "mixed"
          Tasks,       \* tasks a process may claim
          MaxTurns,    \* bound: tasks and index jobs of one process
          MaxFaults,   \* bound: heartbeat writes the database refuses
          None

VARIABLES row,       \* the heartbeat row: token, status and current task
          worker,    \* the main program of each process
          beats,     \* the heartbeat threads of each process, in order of their start
          faults,
          said,      \* history: what the main program of a process wrote last
          late       \* history: tasks a process claimed after it was replaced

heartbeatVars == <<row, worker, beats, faults, said, late>>

NewWorker(role) == [pc |-> "new", role |-> role, task |-> None, stop |-> FALSE, lost |-> FALSE,
                    lingering |-> {}, hung |-> FALSE]

HeartbeatInit ==
    /\ row = None
    /\ \E role \in [Processes -> Roles] : worker = [p \in Processes |-> NewWorker(role[p])]
    /\ beats = [p \in Processes |-> <<>>]
    /\ faults = 0
    /\ said = [p \in Processes |-> None]
    /\ late = [p \in Processes |-> 0]

Content(p, status, task) == [instance_id |-> p, status |-> status, task |-> task]
Alive(p, i) == beats[p][i].pc # "dead"
Goto(p, pc) == worker' = [worker EXCEPT ![p].pc = pc]

---------------------------------------------------------------------------

Owns(p) == row # None /\ row.instance_id = p

Say(p, status, task) ==
    /\ row' = Content(p, status, task)
    /\ said' = [said EXCEPT ![p] = Content(p, status, task)]

(* _record_owned_heartbeat of the main program: written under the own token,   *)
(* refused for a process that was replaced, which ends the turn and stops it,  *)
(* or refused by the database.                                                 *)
Record(p, status, task, written, refused) ==
    \/ /\ Owns(p)
       /\ Say(p, status, task)
       /\ worker' = [worker EXCEPT ![p] = written]
       /\ UNCHANGED faults
    \/ /\ ~Owns(p)
       /\ worker' = [worker EXCEPT ![p] =
                       [refused EXCEPT !.lost = TRUE, !.stop = TRUE, !.task = None,
                                       !.pc = IF @ = "closing" THEN @ ELSE "loop"]]
       /\ UNCHANGED <<row, said, faults>>
    \/ /\ faults < MaxFaults /\ faults' = faults + 1
       /\ worker' = [worker EXCEPT ![p] = refused]
       /\ UNCHANGED <<row, said>>

At(p, pc) == [worker[p] EXCEPT !.pc = pc]

---------------------------------------------------------------------------
Launch(p) ==
    /\ worker[p].pc = "new"
    /\ Goto(p, "start")
    /\ UNCHANGED <<row, beats, faults, said, late>>

(* start_heartbeat: one update takes an existing row over; without one a row   *)
(* is inserted, and an insert that meets another process's row takes it over.  *)
Start(p) ==
    /\ worker[p].pc = "start"
    /\ IF row = None THEN Goto(p, "insert") /\ UNCHANGED <<row, said>>
       ELSE Say(p, "starting", None) /\ Goto(p, "loop")
    /\ UNCHANGED <<beats, faults, late>>

Insert(p) ==
    /\ worker[p].pc = "insert"
    /\ Say(p, "starting", None) /\ Goto(p, "loop")
    /\ UNCHANGED <<beats, faults, late>>

StartFails(p) ==
    /\ worker[p].pc \in {"start", "insert"}
    /\ faults < MaxFaults /\ faults' = faults + 1
    /\ Goto(p, "shutdown")
    /\ UNCHANGED <<row, beats, said, late>>

---------------------------------------------------------------------------
\* Defect: threads the last turn left running are forgotten.
PendingForgotten(p) == {}

Pending(p) == {i \in worker[p].lingering : Alive(p, i)}

(* The head of a turn: an ended thread of an earlier turn is followed by the   *)
(* idle it kept from being written; while one still runs, nothing is claimed.  *)
Turn(p) ==
    /\ worker[p].pc = "loop"
    /\ LET drained == [worker[p] EXCEPT !.lingering = Pending(p)]
           next == IF worker[p].stop THEN [worker[p] EXCEPT !.pc = "shutdown"]
                   ELSE IF Pending(p) # {} THEN drained
                   ELSE [drained EXCEPT !.pc = IF worker[p].role = "index" THEN "index" ELSE "idle"] IN
       IF worker[p].stop \/ Pending(p) = worker[p].lingering
       THEN worker' = [worker EXCEPT ![p] = next] /\ UNCHANGED <<row, said, faults>>
       ELSE Record(p, "idle", None, next, next)
    /\ UNCHANGED <<beats, late>>

Idle(p) ==
    /\ worker[p].pc = "idle"
    /\ Record(p, "idle", None, At(p, "claim"), At(p, "loop"))
    /\ UNCHANGED <<beats, late>>

(* The claim names the worker id, not the token: a process replaced since its  *)
(* last heartbeat may still claim.                                             *)
Claim(p) ==
    /\ worker[p].pc = "claim"
    /\ \/ /\ ~worker[p].stop /\ Len(beats[p]) < MaxTurns
          /\ \E t \in Tasks : worker' = [worker EXCEPT ![p].pc = "busy", ![p].task = t]
          /\ late' = IF Owns(p) THEN late ELSE [late EXCEPT ![p] = @ + 1]
       \/ /\ Goto(p, IF worker[p].role = "mixed" /\ ~worker[p].stop THEN "index" ELSE "loop")
          /\ UNCHANGED late
    /\ UNCHANGED <<row, beats, faults, said>>

NewBeat(kind, task) == [kind |-> kind, task |-> task, pc |-> "wait", stop |-> FALSE]

Busy(p) ==
    /\ worker[p].pc = "busy"
    /\ Record(p, "busy", worker[p].task, At(p, "work"), [At(p, "loop") EXCEPT !.task = None])
    /\ beats' = IF worker'[p].pc = "work" THEN [beats EXCEPT ![p] = Append(@, NewBeat("task", worker[p].task))]
                ELSE beats
    /\ UNCHANGED late

\* An index job of process_next; without one only the last heartbeat is written.
Index(p) ==
    /\ worker[p].pc = "index"
    /\ \/ /\ ~worker[p].stop /\ Len(beats[p]) < MaxTurns
          /\ Record(p, "busy", None, At(p, "indexing"), At(p, "rest"))
          /\ beats' = IF worker'[p].pc = "indexing" THEN [beats EXCEPT ![p] = Append(@, NewBeat("index", None))]
                      ELSE beats
       \/ Goto(p, "rest") /\ UNCHANGED <<row, said, faults, beats>>
    /\ UNCHANGED late

(* The work ends, whatever its outcome; the thread is asked to stop.           *)
EndWork(p) ==
    /\ worker[p].pc \in {"work", "indexing"}
    /\ Goto(p, IF worker[p].pc = "work" THEN "stopping_beat" ELSE "joining")
    /\ beats' = [beats EXCEPT ![p][Len(beats[p])].stop = TRUE]
    /\ UNCHANGED <<row, faults, said, late>>

Stopped(p) == ~Alive(p, Len(beats[p]))

(* The wait for the thread ends with the thread or with its own time limit:    *)
(* then idle is not written, and the thread is kept in mind.                   *)
StopBeat(p) ==
    /\ worker[p].pc = "stopping_beat"
    /\ worker' = [worker EXCEPT ![p] =
                    IF Stopped(p) /\ ~worker[p].lost THEN At(p, "rest")
                    ELSE [At(p, "loop") EXCEPT !.task = None,
                                               !.lingering = worker[p].lingering \cup {Len(beats[p])}]]
    /\ UNCHANGED <<row, beats, faults, said, late>>

\* A thread of an index job that does not end in time stops the worker.
JoinBeat(p) ==
    /\ worker[p].pc = "joining"
    /\ worker' = [worker EXCEPT ![p] =
                    IF Alive(p, Len(beats[p])) THEN [@ EXCEPT !.pc = "loop", !.stop = TRUE, !.hung = TRUE]
                    ELSE [@ EXCEPT !.pc = "rest"]]
    /\ UNCHANGED <<row, beats, faults, said, late>>

Rest(p) ==
    /\ worker[p].pc = "rest"
    /\ LET rested == [At(p, "loop") EXCEPT !.task = None] IN
       IF worker[p].lost THEN worker' = [worker EXCEPT ![p] = rested] /\ UNCHANGED <<row, said, faults>>
       ELSE Record(p, "idle", None, rested, rested)
    /\ UNCHANGED <<beats, late>>

\* A signal; the main loop sees it at the head of a turn and before a claim.
Stop(p) ==
    /\ worker[p].pc \notin {"new", "closing", "dead"} /\ ~worker[p].stop
    /\ worker' = [worker EXCEPT ![p].stop = TRUE]
    /\ UNCHANGED <<row, beats, faults, said, late>>

(* The last status is left out while a thread of an earlier turn is running,   *)
(* and when the process was replaced.                                          *)
Shutdown(p) ==
    /\ worker[p].pc = "shutdown"
    /\ IF worker[p].lost \/ Pending(p) # {}
       THEN Goto(p, "closing") /\ UNCHANGED <<row, said, faults>>
       ELSE Record(p, "stopping", None, At(p, "closing"), At(p, "closing"))
    /\ UNCHANGED <<beats, late>>

\* The connections are closed and the process ends, its threads with it; or it is killed.
Exit(p) ==
    /\ worker[p].pc \notin {"new", "dead"}
    /\ Goto(p, "dead")
    /\ beats' = [beats EXCEPT ![p] = [i \in DOMAIN @ |-> [@[i] EXCEPT !.pc = "dead"]]]
    /\ UNCHANGED <<row, faults, said, late>>

---------------------------------------------------------------------------
(* A thread wakes up: it ends when it was asked to, and else begins a write,   *)
(* which stop() waits for.                                                     *)
Wake(p, i) ==
    /\ beats[p][i].pc = "wait"
    /\ beats' = [beats EXCEPT ![p][i].pc = IF beats[p][i].stop THEN "dead" ELSE "write"]
    /\ UNCHANGED <<row, worker, faults, said, late>>

(* Its write comes through, however late.  A replaced process ends the thread  *)
(* of a task and is stopped; the thread of an index only logs it.              *)
Refresh(p, i) ==
    LET beat == beats[p][i] IN
    /\ beat.pc = "write"
    /\ \/ /\ Owns(p)
          /\ row' = Content(p, "busy", beat.task)
          /\ beats' = [beats EXCEPT ![p][i].pc = IF beat.kind = "task" THEN "renew" ELSE "wait"]
          /\ UNCHANGED <<worker, faults>>
       \/ /\ ~Owns(p)
          /\ worker' = [worker EXCEPT ![p].lost = TRUE, ![p].stop = TRUE]
          /\ beats' = [beats EXCEPT ![p][i].pc = IF beat.kind = "task" THEN "dead" ELSE "wait"]
          /\ UNCHANGED <<row, faults>>
       \/ /\ faults < MaxFaults /\ faults' = faults + 1
          /\ beats' = [beats EXCEPT ![p][i].pc = "wait"]
          /\ UNCHANGED <<row, worker>>
    /\ UNCHANGED <<said, late>>

(* The leases of the task and of its batches under way are renewed; a lost one *)
(* ends the thread.                                                            *)
Renew(p, i) ==
    /\ beats[p][i].pc = "renew"
    /\ \E lost \in BOOLEAN : beats' = [beats EXCEPT ![p][i].pc = IF lost THEN "dead" ELSE "wait"]
    /\ UNCHANGED <<row, worker, faults, said, late>>

Main(p) ==
    \/ Start(p) \/ Insert(p) \/ Turn(p) \/ Idle(p) \/ Claim(p) \/ Busy(p) \/ Index(p)
    \/ EndWork(p) \/ StopBeat(p) \/ JoinBeat(p) \/ Rest(p) \/ Shutdown(p)

Beat(p, i) == Wake(p, i) \/ Refresh(p, i) \/ Renew(p, i)

HeartbeatNext ==
    \E p \in Processes :
        \/ Launch(p) \/ Main(p) \/ StartFails(p) \/ Stop(p) \/ Exit(p)
        \/ \E i \in DOMAIN beats[p] : Beat(p, i)

\* The main program goes on, and every database call of a thread returns.
HeartbeatFairness ==
    \A p \in Processes :
        /\ WF_heartbeatVars(Main(p))
        /\ \A i \in 1..MaxTurns : WF_heartbeatVars(i \in DOMAIN beats[p] /\ Beat(p, i))

HeartbeatSpec == HeartbeatInit /\ [][HeartbeatNext]_heartbeatVars /\ HeartbeatFairness

---------------------------------------------------------------------------
(* The row shows what the main program of its owner wrote last: no thread's    *)
(* late write brings an earlier turn's busy back over idle, over the next      *)
(* task, or over stopping, and no earlier process's write shows at all.  Only  *)
(* a worker that gave up on the thread of an index job does not keep this.     *)
LastWordStands ==
    row # None => \/ row = said[row.instance_id]
                  \/ worker[row.instance_id].hung

(* A process that was replaced claims one task more at most, between its last  *)
(* heartbeat and the next, and never begins to work on it.                     *)
ReplacedIdle ==
    \A p \in Processes : /\ late[p] <= 1
                         /\ late[p] = 1 => worker[p].pc \notin {"work", "stopping_beat"}

(* When a process takes over a worker id, the row shows the last word of its  *)
(* owner, and the replaced process begins no other task.                      *)
TakeoverSound == LastWordStands /\ ReplacedIdle

(* A process that was replaced and has not come to its end yet: it must, by    *)
(* itself, although it may be in the middle of a task.                         *)
Superseded(p) == said[p] # None /\ row.instance_id # p /\ worker[p].pc \notin {"closing", "dead"}
=============================================================================
