------------------------------ MODULE Findings ------------------------------
(* The findings of one pull request's reviews.  Storing a review decides for  *)
(* every stable fingerprint whether it is new, still present, reintroduced or *)
(* fixed; people judge findings, by requests that may arrive twice; and their *)
(* judgements, those on historical reviews excepted, are the samples of the   *)
(* gate that admits inline comments of a category.                            *)
EXTENDS Integers, Sequences, FiniteSets

CONSTANTS Runs,          \* reviews, in the order of their creation
          Heads,         \* commits
          Fingerprints,
          Requests,      \* idempotency keys of decisions
          High,          \* the fingerprints of critical and high findings
          MinSamples,    \* minimum_samples, 20
          RecentLimit,   \* recent_sample_limit, 100
          MaxStores,     \* bound on stored results
          MaxDecisions,  \* bound on decisions
          None

VARIABLES run,         \* review_runs: None until created
          findings,    \* review_findings of each run
          lifecycle,   \* finding_lifecycles
          evaluation,  \* finding_evaluations: the samples of the gate
          events,      \* keys of the decisions already applied
          stored,      \* history: what each result said, in order
          judged       \* history: decisions in the order people made them

findingVars == <<run, findings, lifecycle, evaluation, events, stored, judged>>

Verdicts == {"valid", "rejected"}
NoFindings == [f \in Fingerprints |-> None]

FindingInit ==
    /\ run = [r \in Runs |-> None]
    /\ findings = [r \in Runs |-> NoFindings]
    /\ lifecycle = [f \in Fingerprints |-> None]
    /\ evaluation = [r \in Runs |-> NoFindings]
    /\ events = {} /\ stored = <<>> /\ judged = <<>>

---------------------------------------------------------------------------
(* Reviews.                                                                   *)
CreateRun(r) ==
    /\ run[r] = None /\ \A earlier \in Runs : earlier < r => run[earlier] # None
    /\ \E head \in Heads :
         run' = [run EXCEPT ![r] = [head |-> head, snapshot |-> FALSE, completed |-> FALSE]]
    /\ UNCHANGED <<findings, lifecycle, evaluation, events, stored, judged>>

\* A later formal review of another commit exists.
Overtaken(r) ==
    \E n \in Runs : n > r /\ run[n] # None /\ run[n].head # run[r].head /\ ~run[n].snapshot

Historical(r) == run[r].snapshot \/ Overtaken(r)

(* The occurrence of a reported fingerprint.  A stage that runs again within  *)
(* a review counts once.                                                      *)
Seen(row, r) ==
    IF row = None
    THEN [state |-> "present", first |-> r, last |-> r, previous |-> None, fixedBy |-> None,
          status |-> "new", count |-> 1]
    ELSE IF row.last = r THEN [row EXCEPT !.state = "present", !.fixedBy = None]
    ELSE [row EXCEPT !.state = "present", !.fixedBy = None, !.last = r, !.previous = row.last,
                     !.status = IF row.state = "fixed" THEN "reintroduced" ELSE "still_present",
                     !.count = @ + 1]

\* Defect: what a partial result does not mention is taken for fixed.
ReconciledAlways(r, found, covered) ==
    [f \in Fingerprints |->
       IF f \in found THEN Seen(lifecycle[f], r)
       ELSE IF lifecycle[f] # None /\ lifecycle[f].state = "present"
       THEN [lifecycle[f] EXCEPT !.state = "fixed", !.fixedBy = r]
       ELSE lifecycle[f]]

\* Only a result that covers the whole change says what was fixed.
Reconciled(r, found, covered) ==
    [f \in Fingerprints |->
       IF f \in found THEN Seen(lifecycle[f], r)
       ELSE IF covered /\ lifecycle[f] # None /\ lifecycle[f].state = "present"
       THEN [lifecycle[f] EXCEPT !.state = "fixed", !.fixedBy = r]
       ELSE lifecycle[f]]

\* A finding as it is inserted; those of an earlier partial result stay.
Inserted(r, f, rows) ==
    [status |-> IF Historical(r) THEN "new" ELSE rows[f].status,
     count |-> IF Historical(r) THEN 1 ELSE rows[f].count,
     adjudication |-> "unreviewed"]

(* store_model_review.  The review of an overtaken commit becomes a           *)
(* historical one, which keeps its findings to itself; a partial result       *)
(* leaves the review open for the failed agents.                              *)
StoreModelReview(r) ==
    /\ run[r] # None /\ ~run[r].completed /\ Len(stored) < MaxStores
    /\ \E found \in SUBSET Fingerprints, partial \in BOOLEAN, planned \in BOOLEAN :
         LET covered == planned /\ ~partial
             rows == Reconciled(r, found, covered)
         IN  /\ run' = [run EXCEPT ![r].snapshot = Historical(r), ![r].completed = ~partial]
             /\ lifecycle' = IF Historical(r) THEN lifecycle ELSE rows
             /\ findings' = [findings EXCEPT ![r] = [f \in Fingerprints |->
                  IF f \in found /\ @[f] = None THEN Inserted(r, f, rows) ELSE @[f]]]
             /\ stored' = Append(stored, [run |-> r, found |-> found, covered |-> covered,
                                          formal |-> ~Historical(r)])
    /\ UNCHANGED <<evaluation, events, judged>>

\* RETRY_STAGE and RETRY delete the findings and open the review again.
RetryStage(r) ==
    /\ run[r] # None /\ (run[r].completed \/ findings[r] # NoFindings)
    /\ run' = [run EXCEPT ![r].completed = FALSE, ![r].snapshot = Historical(r)]
    /\ findings' = [findings EXCEPT ![r] = NoFindings]
    /\ UNCHANGED <<lifecycle, evaluation, events, stored, judged>>

---------------------------------------------------------------------------
(* Judgements.  The key of a decision is its finding, its verdict and the     *)
(* caller's request.                                                          *)
Key(r, f, verdict, request) == <<r, f, verdict, request>>

\* The sample, with the moment of its judgement; a historical review gives none.
Sample(r, f, verdict) ==
    IF run[r].snapshot THEN evaluation
    ELSE [evaluation EXCEPT ![r][f] = [verdict |-> verdict, at |-> Len(judged) + 1]]

Judgement(r, f, verdict) == [run |-> r, finding |-> f, verdict |-> verdict, formal |-> ~run[r].snapshot]

\* Defect: a request that was applied before is applied again.
DecideAgain(r, f, verdict, request) ==
    /\ findings[r][f] # None
    /\ findings' = [findings EXCEPT ![r][f].adjudication = verdict]
    /\ evaluation' = Sample(r, f, verdict)
    /\ events' = events \cup {Key(r, f, verdict, request)}
    /\ judged' = IF Key(r, f, verdict, request) \in events THEN judged
                 ELSE Append(judged, Judgement(r, f, verdict))
    /\ UNCHANGED <<run, lifecycle, stored>>

(* review_finding.  A request that was applied is answered as before and      *)
(* changes nothing, whatever was decided since.                               *)
Decide(r, f, verdict, request) ==
    /\ findings[r][f] # None
    /\ Key(r, f, verdict, request) \notin events
    /\ findings' = [findings EXCEPT ![r][f].adjudication = verdict]
    /\ evaluation' = Sample(r, f, verdict)
    /\ events' = events \cup {Key(r, f, verdict, request)}
    /\ judged' = Append(judged, Judgement(r, f, verdict))
    /\ UNCHANGED <<run, lifecycle, stored>>

---------------------------------------------------------------------------
(* The gate reads the latest samples and admits when there are enough, nine   *)
(* in ten are valid, and of the severe ones at most one in twenty is not.     *)
Passes(samples, valid) ==
    LET n == Cardinality(samples)
        severe == {s \in samples : s[2] \in High}
    IN  /\ n >= MinSamples
        /\ 10 * Cardinality(valid) >= 9 * n
        /\ 20 * Cardinality(severe \ valid) <= Cardinality(severe)

Samples == {s \in Runs \X Fingerprints : evaluation[s[1]][s[2]] # None}
At(s) == evaluation[s[1]][s[2]].at
Recent == {s \in Samples : Cardinality({t \in Samples : At(t) > At(s)}) < RecentLimit}
Admitted == Passes(Recent, {s \in Recent : evaluation[s[1]][s[2]].verdict = "valid"})

FindingNext ==
    \E r \in Runs :
      \/ CreateRun(r) \/ StoreModelReview(r) \/ RetryStage(r)
      \/ /\ Len(judged) < MaxDecisions
         /\ \E f \in Fingerprints, verdict \in Verdicts, request \in Requests : Decide(r, f, verdict, request)

FindingSpec == FindingInit /\ [][FindingNext]_findingVars

---------------------------------------------------------------------------
\* The latest formal result that decides about a fingerprint: it reports it, or covers all.
Deciding(f) ==
    {i \in DOMAIN stored : stored[i].formal /\ (f \in stored[i].found \/ stored[i].covered)}
Latest(S) == CHOOSE i \in S : \A j \in S : j <= i

(* A defect counts as fixed when, and only when, a formal result that covered *)
(* the whole change did not report it any more, and nobody reported it since; *)
(* partial results, historical reviews and repeated stages decide nothing     *)
(* they did not see.                                                          *)
FixedIsFixed ==
    \A f \in Fingerprints :
        LET reports == {i \in Deciding(f) : f \in stored[i].found} IN
        IF reports = {} THEN lifecycle[f] = None
        ELSE /\ lifecycle[f] # None
             /\ lifecycle[f].state = IF Latest(Deciding(f)) \in reports THEN "present" ELSE "fixed"
             /\ lifecycle[f].last = stored[Latest(reports)].run

\* The formal judgements that stand: of each finding the last one.
Standing ==
    {i \in DOMAIN judged : /\ judged[i].formal
                           /\ \A j \in DOMAIN judged : j > i /\ judged[j].formal =>
                                <<judged[j].run, judged[j].finding>> # <<judged[i].run, judged[i].finding>>}
LatestStanding == {i \in Standing : Cardinality({j \in Standing : j > i}) < RecentLimit}
About(S) == {<<judged[i].run, judged[i].finding>> : i \in S}

(* The gate stands on what people decided last about formal reviews: a        *)
(* request that is delivered again, after other decisions, neither changes a  *)
(* finding back nor moves a sample, a repeated stage takes no sample away,    *)
(* and historical reviews add none.                                           *)
JudgementsCount ==
    /\ Admitted <=> Passes(About(LatestStanding),
                           About({i \in LatestStanding : judged[i].verdict = "valid"}))
    /\ \A i \in Standing :
         LET now == findings[judged[i].run][judged[i].finding] IN
         now # None /\ now.adjudication # "unreviewed" /\ ~run[judged[i].run].snapshot
             => now.adjudication = judged[i].verdict
=============================================================================
