----------------------------- MODULE MCOutcomes -----------------------------
(* What becomes of a finished review, for TLC: its publication, and what      *)
(* people make of it (Outcomes).  They share no row, so a behaviour moves one *)
(* of them, its subject; the findings and the workbench come in two parts     *)
(* each.                                                                      *)
EXTENDS MCPublishing, Outcomes

CONSTANTS x1, x2, m1, m2, e1, e2, k1

VARIABLE subject

\* A run found two defects, its repetition another; a second run found none.
ResultsOf == [r \in {1, 2} |-> IF r = 1 THEN <<{e1}, {e2}>> ELSE <<{}>>]
DecisionsOf == [verdict : {"valid"}, key : {k1}] \cup [verdict : {"rejected", "uncertain"}, key : {None}]

allVars == <<subject, vars, outcomeVars>>

MCInit ==
    /\ subject \in {"publication", "lifecycle", "judgements", "report", "pages"}
    /\ Init /\ valid = (IF subject = "publication" THEN {f1, f2} ELSE {})
    /\ OutcomesInit

\* The calls, and the idempotency keys, are alike: the first of each comes first.
PublicationNext ==
    /\ Next
    /\ attempt[a1].pc = "idle" => attempt'[a2].pc = "idle" /\ attempt'[a1].request # q2

\* Results are stored up to three times, or twice with decisions on them, the
\* first of them on the first defect.
FindingNext ==
    /\ FindingStep
    /\ IF subject = "lifecycle" THEN judged' = judged
       ELSE Len(stored') <= 2 /\ (judged' # <<>> => judged'[1].finding = x1)
    /\ lifecycle'[x2] # None => lifecycle'[x1] # None

Ballots(v) == IF observation'[v] = None THEN <<>> ELSE observation'[v].ballots
Given(verdicts) ==
    \A v \in Workbench!Variants : \A i \in DOMAIN Ballots(v) :
        LET decisions == Ballots(v)[i].decisions
        IN  \A f \in DOMAIN decisions : decisions[f].verdict \in verdicts
Mode(mode) == dataset' # None => dataset'.mode = mode

(* A report of two members with one page at a time, whose references stand    *)
(* before the candidate and the ballots, the first of them by one member; and *)
(* two pages at a time on undecided judgements, the second opened beside the  *)
(* first, of a set that is archived without judgements.                       *)
ReportNext ==
    /\ WorkbenchStep
    /\ \E m \in {m1, m2} : page'[m] = None
    /\ Mode("dual") /\ outcome' = outcome /\ Given({"valid", "rejected"})
    /\ dataset' # None => ~dataset'.archived
    /\ sample' # sample => observation'["candidate"] = None /\ Ballots("baseline") = <<>>
    /\ Ballots("baseline") # <<>> => Ballots("baseline")[1].by = m1
PagesNext ==
    /\ WorkbenchStep
    /\ Mode("single") /\ observation'["candidate"] = None
    /\ Given({"uncertain"}) /\ outcome'[2] = outcome[2]
    /\ dataset' # None /\ dataset'.archived => Ballots("baseline") = <<>>
    /\ page'[m2] # None /\ page[m2] = None => page[m1] # None

MCNext ==
    /\ UNCHANGED subject
    /\ \/ subject = "publication" /\ PublicationNext /\ UNCHANGED outcomeVars
       \/ subject \in {"lifecycle", "judgements"} /\ FindingNext /\ UNCHANGED vars
       \/ subject = "report" /\ ReportNext /\ UNCHANGED vars
       \/ subject = "pages" /\ PagesNext /\ UNCHANGED vars

MCSpec == MCInit /\ [][MCNext]_allVars
=============================================================================
