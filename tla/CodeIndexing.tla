---------------------------- MODULE CodeIndexing ----------------------------
(* The code index of a commit and the context a review takes from it.         *)
(* Workers build the index under a lease that any of them takes over when it  *)
(* expires, publish its chunks, and complete the chunks' vectors through a    *)
(* lane that admits one request per credential.  A review waits a bounded     *)
(* time for the index and saves one context per agent.                        *)
(* Time passes in steps that every lease and deadline counts down.            *)
EXTENDS Integers, FiniteSets

CONSTANTS Configs,       \* embedding configurations, one index of the commit each
          Chunks,        \* the code chunks of the commit are 1..Chunks
          Agents,        \* the agents of the review are 1..Agents
          Builders,      \* processes that build indexes
          Reviewers,     \* processes that hold, or held, the review's task
          LeaseTime,     \* 5 minutes
          LaneTime,      \* 10 minutes
          BlockTime,     \* 60 seconds
          RetryTime,     \* at least 30 seconds
          PrepTime,      \* 10 minutes
          RequestLimit,  \* max_requests_per_operation
          MaxFailures,   \* 3, of an operation's rounds and of a lane
          Operations,    \* vector operations told apart, ids are reused after them
          MaxChanges,    \* bound on operator actions
          MaxFaults,     \* bound on crashes and failed steps
          None

VARIABLES settings,  \* the configuration in force and what is enabled
          rows,      \* code_indexes, a row or None per configuration
          links,     \* code_index_chunks: "none", "bare" or "vector"
          vectors,   \* code_embeddings
          lane,      \* retrieval_provider_state
          used,      \* retrieval_request_budgets, per index and operation
          builder,   \* what each building process holds
          traces,    \* retrieval_traces of the review: the index of each agent's
          reviewer,  \* what each reviewing process holds
          changes, faults,
          twice      \* history: chunks whose vector was answered although it was stored

indexVars == <<rows, links>>
laneVars == <<lane, vectors, used, twice>>
bounds == <<changes, faults>>
vars == <<settings, indexVars, laneVars, builder, traces, reviewer, bounds>>

\* Retrieval switched off, without calls of the embedding service, and with them.
Modes == {"off", "lexical", "full"}
Ops == 0..(Operations - 1)
NewRow(include) ==
    [status |-> "queued", owner |-> None, left |-> 0, lexical |-> FALSE, vstatus |-> "pending",
     count |-> 0, include |-> include, op |-> 0, failures |-> 0, prep |-> PrepTime]
\* An index whose build failed some time ago.
OldRow == [NewRow(FALSE) EXCEPT !.status = "failed", !.prep = 0]
NoLinks == [k \in 1..Chunks |-> "none"]
NoBuilder == [pc |-> "idle", index |-> None, include |-> FALSE, op |-> 0, failures |-> 0,
              paused |-> FALSE, chunk |-> 0, count |-> 0, vstatus |-> None, again |-> FALSE, delay |-> 0]
NoReviewer == [pc |-> "idle", index |-> None, full |-> FALSE, next |-> 1]

Init ==
    /\ settings \in [config : Configs, mode : Modes]
    /\ rows \in [Configs -> {None, OldRow}]
    /\ links = [c \in Configs |-> NoLinks]
    /\ vectors = {}
    /\ lane = [owner |-> None, left |-> 0, failures |-> 0, blocked |-> 0]
    /\ used = [c \in Configs |-> [o \in Ops |-> 0]]
    /\ builder = [b \in Builders |-> NoBuilder]
    /\ traces = [a \in 1..Agents |-> None]
    /\ reviewer = [r \in Reviewers |-> NoReviewer]
    /\ changes = 0 /\ faults = 0 /\ twice = {}

Exists(c) == rows[c] # None
Linked(c, state) == {k \in 1..Chunks : links[c][k] = state}
Least(S) == CHOOSE k \in S : \A j \in S : k <= j

---------------------------------------------------------------------------
\* Defect: the lease is taken for granted.
OwnsAnyway(b) == builder[b].index # None /\ Exists(builder[b].index)

(* Building.  Every write of a builder renews its lease in the same           *)
(* transaction, or fails because the lease is no longer its own.              *)
Owns(b) ==
    LET c == builder[b].index IN
    c # None /\ Exists(c) /\ rows[c].owner = b /\ rows[c].status = "building" /\ rows[c].left > 0

Renewed(row) == [row EXCEPT !.left = LeaseTime]

At(b, pc) == builder[b].pc = pc
Goto(b, pc) == builder' = [builder EXCEPT ![b].pc = pc]
Stop(b) == builder' = [builder EXCEPT ![b] = NoBuilder]

ClaimableIndex(c) ==
    /\ Exists(c)
    /\ rows[c].status \in {"queued", "building"} /\ rows[c].left = 0

Claim(b) ==
    /\ At(b, "idle")
    /\ \E c \in {d \in Configs : ClaimableIndex(d)} :
         /\ rows' = [rows EXCEPT ![c].status = "building", ![c].owner = b, ![c].left = LeaseTime]
         /\ builder' = [builder EXCEPT ![b] =
              [NoBuilder EXCEPT !.pc = "begin", !.index = c, !.include = rows[c].include,
                                !.op = rows[c].op, !.failures = rows[c].failures]]
    /\ UNCHANGED <<settings, links, laneVars, traces, reviewer, bounds>>

Failed(row) == [row EXCEPT !.status = "failed", !.owner = None, !.left = 0]

(* The configuration is read once per round; an index of another one fails.   *)
Begin(b) ==
    /\ At(b, "begin") /\ Owns(b)
    /\ LET c == builder[b].index IN
       IF c # settings.config
       THEN rows' = [rows EXCEPT ![c] = Failed(@)] /\ Stop(b)
       ELSE /\ rows' = [rows EXCEPT ![c] = Renewed(@)]
            /\ builder' = [builder EXCEPT ![b].pc = IF rows[c].lexical THEN "link" ELSE "load",
                                          ![b].paused = settings.mode # "full"]
    /\ UNCHANGED <<settings, links, laneVars, traces, reviewer, bounds>>

(* The sources of the commit are read and parsed, the lease renewed after     *)
(* every request; any of them may fail, see FailBuild.                        *)
Load(b) ==
    /\ At(b, "load") /\ Owns(b)
    /\ rows' = [rows EXCEPT ![builder[b].index] = Renewed(@)]
    /\ Goto(b, "reset")
    /\ UNCHANGED <<settings, links, laneVars, traces, reviewer, bounds>>

\* What an earlier build left is removed before the first chunk is stored.
Reset(b) ==
    /\ At(b, "reset") /\ Owns(b)
    /\ LET c == builder[b].index IN
       /\ rows' = [rows EXCEPT ![c] = Renewed(@)]
       /\ links' = [links EXCEPT ![c] = NoLinks]
    /\ Goto(b, "store")
    /\ UNCHANGED <<settings, laneVars, traces, reviewer, bounds>>

(* One batch of chunks after the other; with the last one the snapshot is     *)
(* published for the search by words and relations.                           *)
Store(b) ==
    /\ At(b, "store") /\ Owns(b)
    /\ LET c == builder[b].index
           rest == Linked(c, "none")
       IN  IF rest # {}
           THEN /\ links' = [links EXCEPT ![c][Least(rest)] = "bare"]
                /\ rows' = [rows EXCEPT ![c] = Renewed(@)]
                /\ UNCHANGED builder
           ELSE /\ rows' = [rows EXCEPT ![c] = [Renewed(@) EXCEPT !.lexical = TRUE]]
                /\ Goto(b, "link")
                /\ UNCHANGED links
    /\ UNCHANGED <<settings, laneVars, traces, reviewer, bounds>>

\* Vectors of the same configuration that are already stored are linked.
LinkVectors(c, chunks) ==
    links' = [links EXCEPT ![c] = [k \in 1..Chunks |->
        IF k \in chunks /\ @[k] = "bare" /\ <<c, k>> \in vectors THEN "vector" ELSE @[k]]]

Counted(b, c) ==
    LET n == Cardinality({k \in 1..Chunks : links'[c][k] = "vector"}) IN
    /\ rows' = [rows EXCEPT ![c] = [Renewed(@) EXCEPT !.count = n]]
    /\ builder' = [builder EXCEPT ![b].pc = "embed", ![b].count = n]

Link(b) ==
    /\ At(b, "link") /\ Owns(b)
    /\ LinkVectors(builder[b].index, 1..Chunks)
    /\ Counted(b, builder[b].index)
    /\ UNCHANGED <<settings, laneVars, traces, reviewer, bounds>>

\* What the round ends with: the state of the vectors, and whether it goes on.
Close(b, vstatus, again, delay, failures) ==
    builder' = [builder EXCEPT ![b].pc = "close", ![b].vstatus = vstatus, ![b].again = again,
                               ![b].delay = delay, ![b].failures = failures]

Round(b) == used[builder[b].index][builder[b].op]

\* A failed request: the round ends, the operation goes on after a delay.
RoundFails(b, retryable, exhausted) ==
    LET n == builder[b].failures + 1
        again == retryable /\ n < MaxFailures
    IN  Close(b, IF again THEN "pending" ELSE IF exhausted THEN "limited" ELSE "failed",
              again, IF again THEN RetryTime ELSE 0, n)

Settled(b) ==
    LET c == builder[b].index IN
    /\ At(b, "embed")
    /\ \/ /\ builder[b].count = Chunks
          /\ Close(b, "ready", FALSE, 0, IF builder[b].include /\ ~builder[b].paused THEN 0
                                         ELSE builder[b].failures)
       \/ /\ builder[b].count < Chunks
          /\ ~builder[b].include \/ builder[b].paused
          /\ Close(b, IF builder[b].paused THEN "paused" ELSE "pending", FALSE, 0, builder[b].failures)
    /\ UNCHANGED <<settings, indexVars, laneVars, traces, reviewer, bounds>>

Embedding(b) == At(b, "embed") /\ builder[b].count < Chunks /\ builder[b].include /\ ~builder[b].paused
Missing(b) == Least(Linked(builder[b].index, "bare"))

(* The round runs out of its three minutes, or of its number of new vectors.  *)
OutOfTime(b) ==
    /\ Embedding(b)
    /\ IF Round(b) >= RequestLimit
       THEN Close(b, "limited", FALSE, 0, 0)
       ELSE Close(b, "pending", TRUE, 0, 0)
    /\ UNCHANGED <<settings, indexVars, laneVars, traces, reviewer, bounds>>

LaneFree == lane.left = 0 /\ lane.blocked = 0

(* The next missing chunk: a stored vector needs no request.                  *)
Embed(b) ==
    /\ Embedding(b) /\ Owns(b)
    /\ LET c == builder[b].index
           k == Missing(b)
       IN  /\ rows' = [rows EXCEPT ![c] = Renewed(@)]
           /\ builder' = [builder EXCEPT ![b].chunk = k,
                                         ![b].pc = IF <<c, k>> \in vectors THEN "link one" ELSE "miss"]
    /\ UNCHANGED <<settings, links, laneVars, traces, reviewer, bounds>>

\* The lane is taken; while another request holds or blocks it the round fails.
Acquire(b) ==
    /\ At(b, "miss")
    /\ IF LaneFree
       THEN /\ lane' = [lane EXCEPT !.owner = b, !.left = LaneTime]
            /\ Goto(b, "acquired")
       ELSE RoundFails(b, TRUE, FALSE) /\ UNCHANGED lane
    /\ UNCHANGED <<settings, indexVars, vectors, used, twice, traces, reviewer, bounds>>

Released(b, failed) ==
    lane' = IF lane.owner # b THEN lane
            ELSE [owner |-> None, left |-> 0,
                  failures |-> IF failed THEN (IF lane.failures < MaxFailures THEN lane.failures + 1
                                               ELSE MaxFailures) ELSE 0,
                  blocked |-> IF failed /\ lane.failures >= MaxFailures - 1 THEN BlockTime ELSE 0]

\* A request is charged before it is sent, and refused at the limit.
Charged(b) ==
    LET c == builder[b].index
        o == builder[b].op
    IN  IF used[c][o] >= RequestLimit
        THEN /\ Released(b, TRUE) /\ RoundFails(b, FALSE, TRUE)
             /\ UNCHANGED used
        ELSE /\ used' = [used EXCEPT ![c][o] = @ + 1]
             /\ Goto(b, "asking")
             /\ UNCHANGED lane

(* With the lane in hand the store is read again.                             *)
Ask(b) ==
    /\ At(b, "acquired")
    /\ IF <<builder[b].index, builder[b].chunk>> \in vectors
       THEN /\ Released(b, FALSE) /\ Goto(b, "link one")
            /\ UNCHANGED used
       ELSE Charged(b)
    /\ UNCHANGED <<settings, indexVars, vectors, twice, traces, reviewer, bounds>>

(* The answer is stored before the lane is given back.                        *)
Answer(b) ==
    /\ At(b, "asking")
    /\ LET v == <<builder[b].index, builder[b].chunk>> IN
       /\ vectors' = vectors \cup {v}
       /\ twice' = IF v \in vectors THEN twice \cup {v} ELSE twice
    /\ Released(b, FALSE) /\ Goto(b, "link one")
    /\ UNCHANGED <<settings, indexVars, used, traces, reviewer, bounds>>

AskFails(b) ==
    /\ At(b, "asking") /\ faults < MaxFaults /\ faults' = faults + 1
    /\ \E retryable \in BOOLEAN : RoundFails(b, retryable, FALSE)
    /\ Released(b, TRUE)
    /\ UNCHANGED <<settings, indexVars, vectors, used, twice, traces, reviewer, changes>>

LinkOne(b) ==
    /\ At(b, "link one") /\ Owns(b)
    /\ LinkVectors(builder[b].index, {builder[b].chunk})
    /\ Counted(b, builder[b].index)
    /\ UNCHANGED <<settings, laneVars, traces, reviewer, bounds>>

Complete(b) ==
    /\ At(b, "close") /\ Owns(b)
    /\ LET c == builder[b].index IN
       rows' = [rows EXCEPT ![c] = [@ EXCEPT !.status = IF builder[b].again THEN "queued" ELSE "ready",
                  !.owner = None, !.left = builder[b].delay, !.vstatus = builder[b].vstatus,
                  !.count = builder[b].count, !.failures = builder[b].failures]]
    /\ Stop(b)
    /\ UNCHANGED <<settings, links, laneVars, traces, reviewer, bounds>>

Writing == {"begin", "load", "reset", "store", "link", "embed", "link one", "close"}

(* A write whose lease is gone ends the round, and so does any other error,   *)
(* which marks the index as failed if the lease is still held.                *)
LoseLease(b) ==
    /\ builder[b].pc \in Writing
    /\ ~Owns(b)
    /\ Stop(b)
    /\ UNCHANGED <<settings, indexVars, laneVars, traces, reviewer, bounds>>

FailBuild(b) ==
    /\ builder[b].pc \in Writing
    /\ faults < MaxFaults /\ faults' = faults + 1
    /\ rows' = IF Owns(b) THEN [rows EXCEPT ![builder[b].index] = Failed(@)] ELSE rows
    /\ Stop(b)
    /\ UNCHANGED <<settings, links, laneVars, traces, reviewer, changes>>

Crash(b) ==
    /\ ~At(b, "idle")
    /\ faults < MaxFaults /\ faults' = faults + 1
    /\ Stop(b)
    /\ UNCHANGED <<settings, indexVars, laneVars, traces, reviewer, changes>>

---------------------------------------------------------------------------
(* The operator's part of the index, and its cleaning.                        *)
Enqueue(c, include) ==
    rows' = IF Exists(c) THEN rows ELSE [rows EXCEPT ![c] = NewRow(include)]

\* A new operation starts with its own limit of requests.
Requeue(c, include) ==
    LET o == (rows[c].op + 1) % Operations IN
    /\ rows' = [rows EXCEPT ![c] = [@ EXCEPT !.status = "queued", !.include = include, !.op = o,
                  !.failures = 0, !.prep = PrepTime,
                  !.vstatus = IF include THEN "pending" ELSE rows[c].vstatus]]
    /\ used' = [used EXCEPT ![c][o] = 0]

Changed == changes < MaxChanges /\ changes' = changes + 1

CreateIndex ==
    /\ Changed
    /\ ~Exists(settings.config)
    /\ Enqueue(settings.config, FALSE)
    /\ UNCHANGED <<settings, links, laneVars, builder, traces, reviewer, faults>>

RetryIndex(c) ==
    /\ Changed
    /\ Exists(c) /\ rows[c].status \in {"ready", "failed"}
    /\ \E include \in BOOLEAN :
         /\ include => settings.mode = "full"
         /\ Requeue(c, include)
    /\ UNCHANGED <<settings, links, lane, vectors, twice, builder, traces, reviewer, faults>>

ChangeSettings ==
    /\ Changed
    /\ \E config \in Configs, mode \in Modes :
         settings' = [settings EXCEPT !.config = config, !.mode = mode]
    /\ UNCHANGED <<indexVars, laneVars, builder, traces, reviewer, faults>>

(* An old index goes when a newer one exists and no context was taken from it.*)
Cleanup(c) ==
    /\ Changed
    /\ Exists(c) /\ rows[c].status \in {"ready", "failed"}
    /\ \E d \in Configs \ {c} : Exists(d)
    /\ \A a \in 1..Agents : traces[a] # c
    /\ rows' = [rows EXCEPT ![c] = None]
    /\ links' = [links EXCEPT ![c] = NoLinks]
    /\ UNCHANGED <<settings, laneVars, builder, traces, reviewer, faults>>

---------------------------------------------------------------------------
(* The review.                                                                *)
Becomes(r, pc) == reviewer' = [reviewer EXCEPT ![r] = [NoReviewer EXCEPT !.pc = pc]]

(* Contexts already saved are kept: all of them end the search, some of them  *)
(* bind it to the index they came from.                                       *)
Consult(r) ==
    /\ reviewer[r].pc = "idle"
    /\ LET saved == {a \in 1..Agents : traces[a] # None}
           known == {traces[a] : a \in saved}
       IN  IF saved = 1..Agents THEN Becomes(r, "done")
           ELSE IF settings.mode = "off"
           THEN Becomes(r, IF saved = {} THEN "done" ELSE "refused")
           ELSE IF known \subseteq {settings.config}
           THEN reviewer' = [reviewer EXCEPT ![r] = [NoReviewer EXCEPT !.pc = "prepare",
                               !.index = settings.config, !.full = settings.mode = "full"]]
           ELSE Becomes(r, "refused")
    /\ UNCHANGED <<settings, indexVars, laneVars, builder, traces, bounds>>

\* The row the review finds, after it queued what was absent or incomplete.
Incomplete(row) == row.status = "ready" /\ row.vstatus \in {"pending", "paused"}

Prepare(r) ==
    /\ reviewer[r].pc = "prepare"
    /\ LET c == reviewer[r].index
           full == reviewer[r].full
       IN  /\ IF ~Exists(c)
              THEN Enqueue(c, full) /\ UNCHANGED used
              ELSE IF full /\ Incomplete(rows[c]) THEN Requeue(c, TRUE)
              ELSE UNCHANGED <<rows, used>>
           /\ LET row == rows'[c]
                  preparing == ~row.lexical \/ (full /\ row.status \in {"queued", "building"})
              IN  IF preparing /\ row.status # "failed" /\ row.prep > 0 THEN Becomes(r, "idle")
                  ELSE IF ~row.lexical THEN Becomes(r, "refused")
                  ELSE reviewer' = [reviewer EXCEPT ![r].pc = "save", ![r].full = FALSE]
    /\ UNCHANGED <<settings, links, lane, vectors, twice, builder, traces, bounds>>

\* Defect: a context another process saved is taken whatever its index is.
SaveAny(r) ==
    /\ reviewer[r].pc = "save"
    /\ LET a == reviewer[r].next IN
       /\ traces' = IF traces[a] = None /\ Exists(reviewer[r].index)
                    THEN [traces EXCEPT ![a] = reviewer[r].index] ELSE traces
       /\ IF traces'[a] = None THEN Becomes(r, "refused")
          ELSE IF a = Agents THEN Becomes(r, "done")
          ELSE reviewer' = [reviewer EXCEPT ![r].next = a + 1]
    /\ UNCHANGED <<settings, indexVars, laneVars, builder, bounds>>

(* One agent after the other: a saved context is never replaced, and one of   *)
(* another index refuses the review.                                          *)
Save(r) ==
    /\ reviewer[r].pc = "save"
    /\ LET a == reviewer[r].next
           c == reviewer[r].index
       IN  /\ traces' = IF traces[a] = None /\ Exists(c) THEN [traces EXCEPT ![a] = c] ELSE traces
           /\ IF traces'[a] # c THEN Becomes(r, "refused")
              ELSE IF a = Agents THEN Becomes(r, "done")
              ELSE reviewer' = [reviewer EXCEPT ![r].next = a + 1]
    /\ UNCHANGED <<settings, indexVars, laneVars, builder, bounds>>

RetryReview(r) ==
    /\ Changed
    /\ reviewer[r].pc = "refused" /\ Becomes(r, "idle")
    /\ UNCHANGED <<settings, indexVars, laneVars, builder, traces, faults>>

---------------------------------------------------------------------------
(* A request is over within the ten minutes its lane is held.  A lease that   *)
(* ran out has no owner: nothing in the code tells the two apart.             *)
Down(n) == IF n > 0 THEN n - 1 ELSE 0
Requesting(b) == lane.owner = b /\ builder[b].pc \in {"acquired", "asking"}

Tick ==
    /\ lane.left = 1 => \A b \in Builders : ~Requesting(b)
    /\ rows' = [c \in Configs |-> IF Exists(c)
          THEN [rows[c] EXCEPT !.left = Down(@), !.prep = Down(@),
                               !.owner = IF rows[c].left > 1 THEN @ ELSE None] ELSE None]
    /\ lane' = [lane EXCEPT !.left = Down(@), !.blocked = Down(@),
                            !.owner = IF lane.left > 1 THEN @ ELSE None]
    /\ UNCHANGED <<settings, links, vectors, used, twice, builder, traces, reviewer, bounds>>

Build(b) ==
    \/ Claim(b) \/ Begin(b) \/ Load(b) \/ Reset(b) \/ Store(b) \/ Link(b)
    \/ Settled(b) \/ OutOfTime(b)
    \/ Embed(b) \/ Acquire(b) \/ Ask(b) \/ Answer(b) \/ AskFails(b) \/ LinkOne(b)
    \/ Complete(b) \/ LoseLease(b) \/ FailBuild(b) \/ Crash(b)
Review(r) == Consult(r) \/ Prepare(r) \/ Save(r)

Next ==
    \/ \E b \in Builders : Build(b)
    \/ \E r \in Reviewers : Review(r) \/ RetryReview(r)
    \/ \E c \in Configs : RetryIndex(c) \/ Cleanup(c)
    \/ CreateIndex \/ ChangeSettings \/ Tick

(* Workers retry a review whose index is pending, requests end by their       *)
(* timeouts, time passes; nothing is assumed of the builders' progress.       *)
Fairness ==
    /\ WF_vars(Tick)
    /\ \A r \in Reviewers : WF_vars(Review(r))
    /\ \A b \in Builders : WF_vars(Ask(b)) /\ WF_vars(Answer(b) \/ AskFails(b))

Spec == Init /\ [][Next]_vars /\ Fairness

---------------------------------------------------------------------------
(* What the row of an index says of it is so: a published index has all its   *)
(* chunks, a complete one all their vectors, and the vectors counted are the  *)
(* ones linked, whoever wrote last and whatever lease ran out meanwhile.      *)
(* (services/retrieval_indexing.py build_index, persistence/retrieval.py)     *)
IndexTruthful ==
    \A c \in Configs :
        /\ \A k \in Linked(c, "vector") : <<c, k>> \in vectors
        /\ Exists(c) =>
             /\ rows[c].lexical => Linked(c, "none") = {}
             /\ rows[c].vstatus = "ready" => Linked(c, "vector") = 1..Chunks
             /\ rows[c].count = Cardinality(Linked(c, "vector"))

(* All contexts of a review come from one index, although two processes may   *)
(* work on the review while the configuration changes; and a review that was  *)
(* prepared has them from the index it used.  (services/retrieval.py          *)
(* _review_context: contexts already saved are never replaced)                *)
OneIndexPerReview ==
    /\ \A a, b \in 1..Agents : (traces[a] # None /\ traces[b] # None) => traces[a] = traces[b]
    /\ \A r \in Reviewers : reviewer[r].pc = "save" =>
          \A a \in 1..(reviewer[r].next - 1) : traces[a] = reviewer[r].index

(* No vector is paid for twice and no operation exceeds its requests, also    *)
(* when a builder is overtaken in the middle of a request.                    *)
(* (services/retrieval_gateway.py embed, persistence/retrieval_runtime.py)    *)
VectorsAskedOnce ==
    /\ twice = {}
    /\ \A c \in Configs, o \in Ops : used[c][o] <= RequestLimit

(* An index is what its row says, whichever builder was taken over, and no    *)
(* vector is paid for twice.                                                  *)
IndexSound == IndexTruthful /\ VectorsAskedOnce

(* A review waits for its index, and has what it waits for: ten minutes, then *)
(* what the index offers, or a refusal, whether builders crash, fail or do    *)
(* nothing, and also when the index is queued again.  (services/retrieval.py  *)
(* _review_context)                                                           *)
Waiting(r) == reviewer[r].pc = "prepare"
Decided(r) == reviewer[r].pc \in {"done", "refused"}
=============================================================================
