------------------------------ MODULE MCWorkers ------------------------------
(* What worker processes do, for TLC (Workers).  The parts share no state, so *)
(* a behaviour moves one of them, its subject; the index comes in two parts.  *)
EXTENDS Workers, TLC

CONSTANTS p1, p2, review, s1, s2, t1, c1, c2, b1, b2, r1, r2

VARIABLE subject

TwoConfs == {1, 2}
EitherSplit == [c \in {1, 2} |-> IF c = 1 THEN {2} ELSE {1, 2}]

Small == INSTANCE MCReviewingData
ThreeAgents == Small!AgentNames
TwoUnits == Small!UnitDomains
WithAndWithoutSecurity == {{"security", "logic"}, {"logic"}}
Reported == Small!UnitCandidates
Summarised == Small!WholeCandidates
SmallPatch == Small!UnitPatch
SmallSource == Small!UnitSource

allVars == <<subject, workersVars>>

MCInit ==
    /\ subject \in {"batches", "heartbeat", "building", "contexts", "agents"}
    /\ WorkersInit
    /\ subject # "batches" => conf = 1
    /\ subject # "heartbeat" => \A s \in {s1, s2} : worker[s].role = "review"
    /\ CASE subject = "building" -> settings.config = c1 /\ indexes[c2] = None
         [] subject = "contexts" -> TRUE
         [] OTHER -> settings = [config |-> c1, mode |-> "off"] /\ \A c \in {c1, c2} : indexes[c] = None

\* The second process of a worker id starts after the first one, and works on no index.
HeartbeatNext ==
    /\ HeartbeatStep
    /\ worker[s1].pc = "new" => worker'[s2].pc = "new"
    /\ worker'[s2].pc \notin {"index", "indexing"}

\* Two builders of one index, with faults; and two processes on one review
\* while the operator changes the configuration.
BuildingNext ==
    /\ IndexStep
    /\ changes' = changes /\ reviewer'[r2] = reviewer[r2]
ContextsNext ==
    /\ IndexStep
    /\ errors' = errors /\ builder'[b2] = builder[b2]

MCNext ==
    /\ UNCHANGED subject
    /\ \/ subject = "batches" /\ BatchStep
       \/ subject = "heartbeat" /\ HeartbeatNext
       \/ subject = "building" /\ BuildingNext
       \/ subject = "contexts" /\ ContextsNext
       \/ subject = "agents" /\ ReportStep

MCSpec == MCInit /\ [][MCNext]_allVars
=============================================================================
