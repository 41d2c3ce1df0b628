------------------------------ MODULE Outcomes ------------------------------
(* What people make of finished reviews: the findings of a pull request, with *)
(* their lifecycle and the judgements on them, and the evaluation workbench,  *)
(* which compares two runs.  They share no row, and step by turns.            *)
EXTENDS Integers, Sequences, FiniteSets

CONSTANTS Reviews, Heads, Fingerprints, DecisionKeys, High, MinSamples, RecentLimit,
          MaxStores, MaxDecisions,
          Members, Sampled, Results, Independent, Defects, Decisions, Modes, MaxPages,
          None

ASSUME OutcomesAssumption ==
    /\ Reviews \subseteq Int
    /\ None \notin [head : Heads, snapshot : BOOLEAN, completed : BOOLEAN]
    /\ None \notin [state : {"present", "fixed"}, first : Reviews, last : Reviews,
                    previous : Reviews \cup {None}, fixedBy : Reviews \cup {None},
                    status : {"new", "still_present", "reintroduced"}, count : Nat]
    /\ None \notin [verdict : {"valid", "rejected"}, at : Nat]
    /\ \A r \in Sampled : /\ Len(Results[r]) \in Nat \ {0}
                          /\ \A n \in 1..Len(Results[r]) : IsFiniteSet(Results[r][n])
    /\ IsFiniteSet(Defects)
    /\ Modes \subseteq {"single", "dual"}
    /\ None \notin [mode : Modes, archived : BOOLEAN]

VARIABLES review, findings, lifecycle, evaluation, events, stored, judged,
          dataset, sample, observation, outcome, page, informed

Lifecycle == INSTANCE Findings
    WITH run <- review, Runs <- Reviews, Requests <- DecisionKeys
Workbench == INSTANCE Evaluation WITH Outcomes <- Results, Keys <- Defects

findingVars == <<review, findings, lifecycle, evaluation, events, stored, judged>>
workbenchVars == <<dataset, sample, observation, outcome, page, informed>>
outcomeVars == <<findingVars, workbenchVars>>

OutcomesInit == Lifecycle!FindingInit /\ Workbench!EvaluationInit

FindingStep == Lifecycle!FindingNext /\ UNCHANGED workbenchVars
WorkbenchStep == Workbench!EvaluationNext /\ UNCHANGED findingVars

OutcomesNext == FindingStep \/ WorkbenchStep

OutcomesSpec == OutcomesInit /\ [][OutcomesNext]_outcomeVars

---------------------------------------------------------------------------
\* A defect is fixed when a formal, complete review says so (Findings).
FixedIsFixed == Lifecycle!FixedIsFixed

\* The gate stands on the judgements that stand (Findings).
JudgementsCount == Lifecycle!JudgementsCount

\* The pairs a report compares are comparable (Evaluation).
PairsComparable == Workbench!PairsComparable

\* What is saved was decided on what stands (Evaluation).
SavedAsRead == Workbench!SavedAsRead
=============================================================================
