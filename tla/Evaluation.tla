----------------------------- MODULE Evaluation -----------------------------
(* The evaluation workbench: one sample (a pull request at one commit) of one *)
(* evaluation set.  A baseline run and a candidate run are captured as        *)
(* snapshots, members judge the findings of each and agree on the reference   *)
(* defects, and a report compares the pair.  Every write names the revision   *)
(* of the record its page showed.  Revisions only grow and are compared for   *)
(* equality, so the model keeps, with every open page, what becomes of its    *)
(* revision: a page whose record was revised is lost to its reader, who would *)
(* be refused and reload it.                                                  *)
EXTENDS Integers, FiniteSets, Sequences

CONSTANTS Members,
          Sampled,     \* the completed runs of the commit
          Outcomes,    \* for a run, the findings of each of its results in turn
          Independent, \* runs whose snapshot has complete, unmixed, unreused provenance
          Keys,        \* names of reference defects
          Decisions,   \* EvaluationDecision: [verdict, key]
          Modes,       \* review modes
          MaxPages,    \* bound on the pages open at a time
          None

Variants == {"baseline", "candidate"}
Records == {"dataset", "case"} \union Variants
Found == UNION {UNION {Outcomes[r][n] : n \in DOMAIN Outcomes[r]} : r \in Sampled}

VARIABLES dataset,     \* the evaluation set: mode, archived; None before it is created
          sample,      \* the case: references, their reviews, status; None before
          observation, \* per variant, the captured source and its assessment
          outcome,     \* per run, [number, done]: its result and whether it stands
          page,        \* per member, the page the member is working on
          informed     \* history: who saw another's verdicts before submitting, per variant

evaluationVars == <<dataset, sample, observation, outcome, page, informed>>

EvaluationInit ==
    /\ dataset = None /\ sample = None
    /\ observation = [v \in Variants |-> None]
    /\ outcome = [r \in Sampled |-> [number |-> 1, done |-> TRUE]]
    /\ page = [m \in Members |-> None]
    /\ informed = [v \in Variants |-> {}]

---------------------------------------------------------------------------
(* Counting.                                                                  *)
Opposite(v) == IF v = "baseline" THEN "candidate" ELSE "baseline"
Has(b, f) == f \in DOMAIN b.decisions
ByMember(rows, m) == {i \in DOMAIN rows : rows[i].by = m}

\* The two ballots whose agreement counts: in single mode the latest, twice.
Left(ballots, mode, latest) == ballots[IF mode = "dual" THEN 1 ELSE latest]
Right(ballots, mode, latest) == ballots[IF mode = "dual" THEN 2 ELSE latest]

Settled(ballots, mode) ==
    mode = "dual" => /\ Len(ballots) = 2 /\ ballots[1].by # ballots[2].by
                     /\ ballots[1].submitted /\ ballots[2].submitted

Zero == [adjudicated |-> 0, disagreement |-> 0, uncertain |-> 0, valid |-> 0,
         found |-> 0, unexpected |-> 0, mismatched |-> 0]

Counts(findings, l, r, references, mode) ==
    LET both == {f \in findings : Has(l, f) /\ Has(r, f)}
        sure == {f \in both : "uncertain" \notin {l.decisions[f].verdict, r.decisions[f].verdict}}
        agreed == {f \in sure : l.decisions[f].verdict = r.decisions[f].verdict}
        valid == {f \in agreed : l.decisions[f].verdict = "valid"}
        matching == {f \in valid : l.decisions[f].key = r.decisions[f].key}
        expected == {f \in matching : l.decisions[f].key \in references}
        doubted == IF mode = "dual" THEN both \ sure
                   ELSE {f \in DOMAIN l.decisions : l.decisions[f].verdict = "uncertain"}
    IN  [adjudicated |-> Cardinality(agreed), disagreement |-> Cardinality(sure \ agreed),
         uncertain |-> Cardinality(doubted), valid |-> Cardinality(valid),
         found |-> Cardinality({l.decisions[f].key : f \in expected}),
         unexpected |-> Cardinality(matching \ expected),
         mismatched |-> Cardinality(valid \ matching)]

\* assessment_metrics: what an observation's ballots say of its findings.
Assessed(o, ballots, latest, references, mode) ==
    LET l == Left(ballots, mode, latest)
        counts == Counts(o.findings, l, Right(ballots, mode, latest), references, mode)
        whole == IF mode = "single" THEN l.submitted
                 ELSE counts.adjudicated = Cardinality(o.findings)
        status == IF mode # "single" /\ counts.disagreement > 0 THEN "disputed"
                  ELSE IF whole THEN "complete" ELSE "partial"
    IN  IF ~Settled(ballots, mode)
        THEN [o EXCEPT !.ballots = ballots, !.latest = latest, !.counts = Zero, !.status = "partial"]
        ELSE [o EXCEPT !.ballots = ballots, !.latest = latest, !.counts = counts, !.status = status]

\* reference_status: what the reviews of the reference defects say together.
ReferenceStatus(reviews, latest, mode) ==
    IF reviews = <<>> THEN "pending"
    ELSE IF mode = "single" THEN IF reviews[latest].agrees THEN "confirmed" ELSE "pending"
    ELSE IF Len(reviews) # 2 THEN "partial"
    ELSE IF reviews[1].agrees /\ reviews[2].agrees THEN "confirmed" ELSE "disputed"

---------------------------------------------------------------------------
(* Pages.                                                                     *)
\* Defect: whoever has begun a ballot is shown the others'.
VisibleOnceBegun(v, m) ==
    LET ballots == observation[v].ballots
    IN  IF dataset.mode = "dual" /\ ByMember(ballots, m) = {} THEN {} ELSE DOMAIN ballots

\* In dual mode others' ballots stay hidden until the reader has once submitted.
VisibleBallots(v, m) ==
    LET ballots == observation[v].ballots
        own == {i \in ByMember(ballots, m) : ballots[i].first}
    IN  IF dataset.mode = "dual" /\ own = {} THEN ByMember(ballots, m) ELSE DOMAIN ballots

\* What a page stands for: a case page for its references and all judgements
\* that a change of the references would discard, a variant's for its own.
Shown(of) ==
    CASE of = "dataset" -> dataset
      [] of = "case" -> <<sample, [v \in Variants |-> IF observation[v] = None THEN <<>>
                                                       ELSE observation[v].ballots]>>
      [] OTHER -> observation[of]

Exists(of) == CASE of = "dataset" -> dataset # None
                [] of = "case" -> sample # None
                [] OTHER -> observation[of] # None

Open(m, of) ==
    /\ page[m] = None /\ Exists(of)
    /\ Cardinality({n \in Members : page[n] # None}) < MaxPages
    /\ page' = [page EXCEPT ![m] = [of |-> of, fresh |-> TRUE]]
    /\ informed' =
         [v \in Variants |->
            IF of = v /\ (\E i \in VisibleBallots(v, m) : observation[v].ballots[i].by # m)
                      /\ {i \in ByMember(observation[v].ballots, m) : observation[v].ballots[i].first} = {}
            THEN informed[v] \union {m} ELSE informed[v]]
    /\ UNCHANGED <<dataset, sample, observation, outcome>>

Close(m) == page[m] # None /\ page' = [page EXCEPT ![m] = None]
            /\ UNCHANGED <<dataset, sample, observation, outcome, informed>>

(* After a write by m: the records in revised have new revisions, and a page  *)
(* that keeps its revision although what it showed changed is not fresh.      *)
Revise(m, revised) ==
    LET changed == {of \in Records : Shown(of)' # Shown(of)}
    IN  page' = [n \in Members |->
                   IF n = m \/ page[n] = None THEN None
                   ELSE IF page[n].of \in revised THEN None
                   ELSE [page[n] EXCEPT !.fresh = @ /\ page[n].of \notin changed]]

\* The page of m holds the current revision of the record it names.
Holds(m, of) == page[m] # None /\ page[m].of = of
Writable(m, of) == Holds(m, of) /\ ~dataset.archived

---------------------------------------------------------------------------
(* Capturing runs.                                                            *)
Captured(r) == [run |-> r, findings |-> Outcomes[r][outcome[r].number], whole |-> r \in Independent,
                ballots |-> <<>>, latest |-> 0, counts |-> Zero, status |-> "pending"]

\* Only a completed run can be captured; its row is locked meanwhile.
Capturable(r) == outcome[r].done

NewSample == [references |-> None, reviews |-> <<>>, latest |-> 0, status |-> "pending"]

CreateDataset(m, mode, v, r) ==
    /\ dataset = None /\ Capturable(r)
    /\ dataset' = [mode |-> mode, archived |-> FALSE]
    /\ sample' = NewSample
    /\ observation' = [observation EXCEPT ![v] = Captured(r)]
    /\ UNCHANGED <<outcome, informed>>
    /\ Revise(m, {"dataset"})

\* The second variant; a variant that has a run keeps it, and no run is both.
ImportObservation(m, v, r) ==
    /\ dataset # None /\ ~dataset.archived /\ Capturable(r)
    /\ observation[v] = None
    /\ ~(observation[Opposite(v)] # None /\ observation[Opposite(v)].run = r)
    /\ observation' = [observation EXCEPT ![v] = Captured(r)]
    /\ UNCHANGED <<dataset, sample, outcome, informed>>
    /\ Revise(m, {"dataset", "case"})

Archive(m) ==
    /\ Holds(m, "dataset")
    /\ dataset' = [dataset EXCEPT !.archived = ~@]
    /\ UNCHANGED <<sample, observation, outcome, informed>>
    /\ Revise(m, {"dataset"})

\* A review is retried: until it is complete again nothing can be captured,
\* and then it has other findings.
Retry(r) ==
    /\ outcome[r].done /\ outcome[r].number < Len(Outcomes[r])
    /\ outcome' = [outcome EXCEPT ![r] = [number |-> @.number + 1, done |-> FALSE]]
    /\ UNCHANGED <<dataset, sample, observation, page, informed>>

Complete(r) ==
    /\ ~outcome[r].done
    /\ outcome' = [outcome EXCEPT ![r].done = TRUE]
    /\ UNCHANGED <<dataset, sample, observation, page, informed>>

ReplaceObservation(m, v, r, reset) ==
    /\ Writable(m, v) /\ Capturable(r)
    /\ observation[v].run # r
    /\ ~(observation[Opposite(v)] # None /\ observation[Opposite(v)].run = r)
    /\ observation[v].ballots # <<>> => reset
    /\ observation' = [observation EXCEPT ![v] = Captured(r)]
    /\ informed' = [informed EXCEPT ![v] = {}]
    /\ UNCHANGED <<dataset, sample, outcome>>
    /\ Revise(m, {v, "case"})

---------------------------------------------------------------------------
(* Judging.                                                                   *)
References == IF sample.references = None THEN {} ELSE sample.references

\* A change of the reference defects discards every judgement made against them.
UpdateReference(m, references, reset) ==
    /\ Writable(m, "case")
    /\ ~reset => /\ sample.reviews = <<>>
                 /\ \A v \in Variants : observation[v] # None => observation[v].status = "pending"
    /\ sample' = [NewSample EXCEPT !.references = references]
    /\ observation' = [v \in Variants |->
                         IF observation[v] = None THEN None
                         ELSE [observation[v] EXCEPT !.ballots = <<>>, !.latest = 0,
                                                     !.counts = Zero, !.status = "pending"]]
    /\ informed' = [v \in Variants |-> {}]
    /\ UNCHANGED <<dataset, outcome>>
    /\ Revise(m, {"case"} \union Variants)

\* Where a member's row is or would be; in dual mode the first two keep theirs.
Place(rows, m) ==
    IF ByMember(rows, m) # {} THEN ByMember(rows, m)
    ELSE IF dataset.mode = "dual" /\ Len(rows) >= 2 THEN {} ELSE {Len(rows) + 1}

Put(rows, i, row) == IF i > Len(rows) THEN Append(rows, row) ELSE [rows EXCEPT ![i] = row]

ReviewReference(m, agrees) ==
    /\ Writable(m, "case") /\ sample.references # None
    /\ \E i \in Place(sample.reviews, m) :
         LET reviews == Put(sample.reviews, i, [by |-> m, agrees |-> agrees])
         IN  sample' = [sample EXCEPT !.reviews = reviews, !.latest = i,
                                      !.status = ReferenceStatus(reviews, i, dataset.mode)]
    /\ UNCHANGED <<dataset, observation, outcome, informed>>
    /\ Revise(m, {"case"})

Ballot(v, m, i) ==
    IF i > Len(observation[v].ballots)
    THEN [by |-> m, decisions |-> <<>>, submitted |-> FALSE, first |-> FALSE]
    ELSE observation[v].ballots[i]

\* Defect: a form of the references does not notice judgements made meanwhile.
RevisedByBallots(v) == {v}
\* Saving a ballot revises its observation, and the case its references are in.
RevisedBy(v) == {v, "case"}

SaveBallot(m, v, i, ballot) ==
    /\ observation' = [observation EXCEPT ![v] =
                         Assessed(@, Put(@.ballots, i, ballot), i, References, dataset.mode)]
    /\ UNCHANGED <<dataset, sample, outcome, informed>>
    /\ Revise(m, RevisedBy(v))

ReviewFinding(m, v, f, decision) ==
    /\ Writable(m, v) /\ f \in observation[v].findings
    /\ decision.key # None => decision.verdict = "valid" /\ decision.key \in References
    /\ \E i \in Place(observation[v].ballots, m) :
         LET ballot == Ballot(v, m, i)
             decisions == [g \in DOMAIN ballot.decisions \union {f} |->
                             IF g = f THEN decision ELSE ballot.decisions[g]]
         IN  SaveBallot(m, v, i, [ballot EXCEPT !.decisions = decisions, !.submitted = FALSE])

SubmitReview(m, v) ==
    /\ Writable(m, v)
    /\ \E i \in Place(observation[v].ballots, m) :
         LET ballot == Ballot(v, m, i)
         IN  /\ dataset.mode = "dual" => DOMAIN ballot.decisions = observation[v].findings
             /\ SaveBallot(m, v, i, [ballot EXCEPT !.submitted = TRUE, !.first = TRUE])

\* Every write that names the revision of a sample or an observation.
Judge(m) ==
    \/ \E references \in {None} \union SUBSET Keys, reset \in BOOLEAN :
         UpdateReference(m, references, reset)
    \/ \E agrees \in BOOLEAN : ReviewReference(m, agrees)
    \/ \E v \in Variants :
         \/ SubmitReview(m, v)
         \/ \E r \in Sampled, reset \in BOOLEAN : ReplaceObservation(m, v, r, reset)
         \/ \E f \in Found, d \in Decisions : ReviewFinding(m, v, f, d)

EvaluationNext ==
    \/ \E r \in Sampled : Retry(r) \/ Complete(r)
    \/ \E m \in Members :
         \/ \E of \in Records : Open(m, of)
         \/ Close(m) \/ Archive(m) \/ Judge(m)
         \/ \E v \in Variants, r \in Sampled :
              \/ \E mode \in Modes : CreateDataset(m, mode, v, r)
              \/ ImportObservation(m, v, r)

EvaluationSpec == EvaluationInit /\ [][EvaluationNext]_evaluationVars

---------------------------------------------------------------------------
(* The report.                                                                *)
Paired == /\ \A v \in Variants : observation[v] # None
          /\ observation["baseline"].run # observation["candidate"].run

QualityPair ==
    /\ Paired
    /\ \A v \in Variants : LET o == observation[v]
                           IN  /\ o.status = "complete"
                               /\ o.counts.adjudicated = Cardinality(o.findings)
                               /\ dataset.mode = "single" \/ o.whole

ReferencePair == /\ QualityPair /\ sample.status = "confirmed"
                 /\ \A v \in Variants : observation[v].counts.mismatched = 0

\* reference_false_negative_count of a variant.
Missed(v) == Cardinality(References) - observation[v].counts.found

(* A pair the report compares is comparable: its runs differ, and every       *)
(* finding of each snapshot was judged, without doubt, by the latest ballot   *)
(* in single mode, and in dual mode alike by two members who submitted their  *)
(* first ballots before they saw each other's.  Recall is counted only        *)
(* against references that the same rules confirmed, and never exceeds them.  *)
PairsComparable ==
    QualityPair =>
      /\ \A v \in Variants :
           LET o == observation[v]
               judges == IF dataset.mode = "dual" THEN {1, 2} ELSE {o.latest}
           IN  /\ \A i \in judges : /\ o.ballots[i].submitted
                                    /\ dataset.mode = "dual" => o.ballots[i].by \notin informed[v]
                                    /\ \A f \in o.findings : Has(o.ballots[i], f)
                                         /\ o.ballots[i].decisions[f].verdict # "uncertain"
               /\ \A i, j \in judges : \A f \in o.findings :
                    o.ballots[i].decisions[f].verdict = o.ballots[j].decisions[f].verdict
               /\ dataset.mode = "dual" => o.ballots[1].by # o.ballots[2].by
      /\ ReferencePair => /\ sample.references # None
                          /\ \A v \in Variants : Missed(v) >= 0
                          /\ dataset.mode = "dual" =>
                               /\ sample.reviews[1].by # sample.reviews[2].by
                               /\ \A i \in {1, 2} : sample.reviews[i].agrees

(* What is saved was decided on what stands: no judgement, confirmation,      *)
(* replacement or change of the references is accepted from a page that no    *)
(* longer shows the record (and, for the references, the judgements the       *)
(* change discards).                                                          *)
SavedAsRead ==
    [][\A m \in Members : page[m] # None /\ ~page[m].fresh => ~Judge(m)]_evaluationVars
=============================================================================
