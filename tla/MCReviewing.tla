----------------------------- MODULE MCReviewing -----------------------------
(* What one review passes through, for TLC: the reading of the pull request   *)
(* and its plan, the stream of one response and the answers of a model        *)
(* (Reviewing), and the splitting of a batch (BatchPlanning).  They share no  *)
(* state, so a behaviour moves one of them, its subject.                      *)
EXTENDS MCBatchPlanning, Reviewing, TLC

VARIABLE subject

Data == INSTANCE MCReviewingData
SomeVersions == Data!AllVersions
SomeHeads == Data!HeadOfVersion
SomePaths == Data!AllPaths
SomeChanges == Data!ChangeOf
SomeRules == Data!RuleFiles
SomeRelation == Data!RelationOf
SomeUnits == Data!AnswerUnits
SomeTexts == Data!AnswerTexts
OneEvidence == <<"e1">>
SomeBodies == Data!AllBodies
DecodedData(lines) == Data!DecodedData(lines)
JsonBody(bytes) == Data!JsonBody(bytes)

splittingVars == <<limit, root, todo, memory, saved, status, merged, asked>>
allVars == <<subject, splittingVars, faults, reviewingVars>>

MCInit ==
    /\ subject \in {"files", "checks", "splitting", "stream", "answer"}
    /\ Init /\ (subject # "splitting" => limit = 20)
    /\ ReviewingInit /\ (pr = "v0" <=> subject # "files")
    /\ subject # "stream" => declared /\ body = CHOOSE b \in SomeBodies : TRUE
    /\ subject # "answer" => /\ protocol = "messages"
                             /\ permits = [connection_test |-> FALSE, allow_truncation_retry |-> FALSE,
                                           summary |-> FALSE]

\* The files are read while the checks stand still, and the other way round.
PreparationNext ==
    /\ PreparationStep
    /\ IF subject = "files" THEN <<runs', result', statuses'>> = <<runs, result, statuses>>
       ELSE pr' = pr /\ plan' = None /\ polls' <= 1 /\ Len(runs') + Len(statuses') <= 4

MCNext ==
    /\ UNCHANGED subject
    /\ \/ subject \in {"files", "checks"} /\ PreparationNext /\ UNCHANGED <<splittingVars, faults>>
       \/ subject = "stream" /\ StreamStep /\ UNCHANGED <<splittingVars, faults>>
       \/ subject = "answer" /\ AnswerStep /\ UNCHANGED <<splittingVars, faults>>
       \/ subject = "splitting" /\ Next /\ UNCHANGED reviewingVars

MCSpec == MCInit /\ [][MCNext]_allVars

\* A part of a batch is planned once and asked once (BatchPlanning).
SplittingSound == subject = "splitting" => PartsOnce

\* The combined findings are those of the answers, at their lines (BatchPlanning).
CombiningSound == subject = "splitting" => FindingsTrue
=============================================================================
