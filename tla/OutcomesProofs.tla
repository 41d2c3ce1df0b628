--------------------------- MODULE OutcomesProofs ---------------------------
(***************************************************************************)
(* Proofs about what people make of reviews, for any number of reviews,    *)
(* defects, results, decisions, members and pages: when a defect counts as *)
(* fixed, which judgements the gate stands on, which pairs of runs are     *)
(* compared, and that nothing is saved from a page that grew stale.        *)
(***************************************************************************)
EXTENDS Outcomes, FiniteSetTheorems, FunctionTheorems, TLAPS

-----------------------------------------------------------------------------
(* The types of reviews, findings and lifecycles.                          *)

ReviewRow == [head : Heads, snapshot : BOOLEAN, completed : BOOLEAN]

LifecycleRow ==
    [state : {"present", "fixed"}, first : Reviews, last : Reviews,
     previous : Reviews \cup {None}, fixedBy : Reviews \cup {None},
     status : {"new", "still_present", "reintroduced"}, count : Nat]

Result == [run : Reviews, found : SUBSET Fingerprints, covered : BOOLEAN, formal : BOOLEAN]

LifecycleTyped ==
    /\ review \in [Reviews -> ReviewRow \cup {None}]
    /\ lifecycle \in [Fingerprints -> LifecycleRow \cup {None}]
    /\ stored \in Seq(Result)

NoRowIsNone == None \notin LifecycleRow

LEMMA RowsAreSome == NoRowIsNone
  BY OutcomesAssumption DEF NoRowIsNone, LifecycleRow

\* An occurrence of a defect leaves it present, last seen in the review.
LEMMA SeenRow ==
  ASSUME NEW r \in Reviews, NEW t \in LifecycleRow \cup {None}
  PROVE  /\ Lifecycle!Seen(t, r) \in LifecycleRow
         /\ Lifecycle!Seen(t, r).state = "present"
         /\ Lifecycle!Seen(t, r).last = r
<1>1. CASE t = None
  BY <1>1 DEF Lifecycle!Seen, LifecycleRow
<1>2. CASE t # None /\ t.last = r
  <2>1. t \in LifecycleRow
    BY <1>2
  <2>2. Lifecycle!Seen(t, r) = [t EXCEPT !.state = "present", !.fixedBy = None]
    BY <1>2 DEF Lifecycle!Seen
  <2>3. [t EXCEPT !.state = "present", !.fixedBy = None] \in LifecycleRow
    BY <2>1 DEF LifecycleRow
  <2>4. [t EXCEPT !.state = "present", !.fixedBy = None].state = "present"
    BY <2>1 DEF LifecycleRow
  <2>5. [t EXCEPT !.state = "present", !.fixedBy = None].last = r
    BY <1>2, <2>1 DEF LifecycleRow
  <2> QED BY <2>2, <2>3, <2>4, <2>5
<1>3. CASE t # None /\ t.last # r
  <2> DEFINE status == IF t.state = "fixed" THEN "reintroduced" ELSE "still_present"
             new == [t EXCEPT !.state = "present", !.fixedBy = None, !.last = r,
                              !.previous = t.last, !.status = status, !.count = @ + 1]
  <2>1. t \in LifecycleRow
    BY <1>3
  <2>2. Lifecycle!Seen(t, r) = new
    BY <1>3 DEF Lifecycle!Seen
  <2>3. t.last \in Reviews /\ t.count + 1 \in Nat
    BY <2>1 DEF LifecycleRow
  <2>4. new \in LifecycleRow
    BY <2>1, <2>3 DEF LifecycleRow
  <2>5. new.state = "present" /\ new.last = r
    BY <2>1 DEF LifecycleRow
  <2> QED BY <2>2, <2>4, <2>5
<1> QED BY <1>1, <1>2, <1>3

LEMMA ReconciledRow ==
  ASSUME LifecycleTyped, NEW r \in Reviews, NEW f \in Fingerprints,
         NEW found, NEW covered \in BOOLEAN
  PROVE  LET new == Lifecycle!Reconciled(r, found, covered)[f] IN
         /\ new \in LifecycleRow \cup {None}
         /\ f \in found => /\ new \in LifecycleRow
                           /\ new.state = "present" /\ new.last = r
         /\ f \notin found /\ lifecycle[f] = None => new = None
         /\ f \notin found /\ lifecycle[f] # None =>
              /\ new \in LifecycleRow
              /\ new.last = lifecycle[f].last
              /\ new.state = IF covered THEN "fixed" ELSE lifecycle[f].state
<1> DEFINE row == lifecycle[f]
           new == Lifecycle!Reconciled(r, found, covered)[f]
<1>1. row \in LifecycleRow \cup {None}
  BY DEF LifecycleTyped
<1>2. new = IF f \in found THEN Lifecycle!Seen(row, r)
            ELSE IF covered /\ row # None /\ row.state = "present"
            THEN [row EXCEPT !.state = "fixed", !.fixedBy = r] ELSE row
  BY DEF Lifecycle!Reconciled
<1>3. CASE f \in found
  BY <1>1, <1>2, <1>3, SeenRow
<1>4. CASE f \notin found /\ row # None
  <2>1. row \in LifecycleRow /\ row.state \in {"present", "fixed"}
    BY <1>1, <1>4 DEF LifecycleRow
  <2>2. CASE covered /\ row.state = "present"
    <3>1. new = [row EXCEPT !.state = "fixed", !.fixedBy = r]
      BY <1>2, <1>4, <2>2
    <3>2. new \in LifecycleRow /\ new.last = row.last /\ new.state = "fixed"
      BY <2>1, <3>1 DEF LifecycleRow
    <3> QED BY <1>4, <2>2, <3>2
  <2>3. CASE ~(covered /\ row.state = "present")
    <3>1. new = row
      BY <1>2, <1>4, <2>3
    <3> QED BY <1>4, <2>1, <2>3, <3>1
  <2> QED BY <2>2, <2>3
<1>5. CASE f \notin found /\ row = None
  BY <1>2, <1>5
<1> QED BY <1>3, <1>4, <1>5

-----------------------------------------------------------------------------
(* When a defect counts as fixed.  FixedIsFixed speaks of the latest result  *)
(* that decides about a defect and of the latest that reported it; FixedInv  *)
(* names the two.                                                            *)

Reports(f) == {i \in Lifecycle!Deciding(f) : f \in stored[i].found}

FixedAt(f) ==
    /\ Reports(f) = {} => lifecycle[f] = None
    /\ Reports(f) # {} =>
         \E d \in Lifecycle!Deciding(f), p \in Reports(f) :
             /\ \A j \in Lifecycle!Deciding(f) : j <= d
             /\ \A j \in Reports(f) : j <= p
             /\ lifecycle[f] # None
             /\ lifecycle[f].state = IF d \in Reports(f) THEN "present" ELSE "fixed"
             /\ lifecycle[f].last = stored[p].run

FixedInv == LifecycleTyped /\ \A f \in Fingerprints : FixedAt(f)

LEMMA LatestIs ==
  ASSUME NEW S, S \subseteq Nat, NEW d \in S, \A j \in S : j <= d
  PROVE  Lifecycle!Latest(S) = d
<1>1. \E i \in S : \A j \in S : j <= i
  OBVIOUS
<1>2. /\ Lifecycle!Latest(S) \in S
      /\ \A j \in S : j <= Lifecycle!Latest(S)
  BY <1>1 DEF Lifecycle!Latest
<1>3. PICK k \in S : k = Lifecycle!Latest(S) /\ \A j \in S : j <= k
  BY <1>2
<1>4. k \in Nat /\ d \in Nat /\ k <= d /\ d <= k
  BY <1>3
<1>5. k = d
  BY <1>4
<1> QED BY <1>3, <1>5

LEMMA FixedImplies == FixedInv => FixedIsFixed
<1> SUFFICES ASSUME FixedInv, NEW f \in Fingerprints
             PROVE  IF Reports(f) = {} THEN lifecycle[f] = None
                    ELSE /\ lifecycle[f] # None
                         /\ lifecycle[f].state = IF Lifecycle!Latest(Lifecycle!Deciding(f)) \in Reports(f)
                                                 THEN "present" ELSE "fixed"
                         /\ lifecycle[f].last = stored[Lifecycle!Latest(Reports(f))].run
  BY DEF FixedIsFixed, Lifecycle!FixedIsFixed, Reports
<1>1. FixedAt(f)
  BY DEF FixedInv
<1>2. CASE Reports(f) = {}
  BY <1>1, <1>2 DEF FixedAt
<1>3. CASE Reports(f) # {}
  <2>1. PICK d \in Lifecycle!Deciding(f), p \in Reports(f) :
             /\ \A j \in Lifecycle!Deciding(f) : j <= d
             /\ \A j \in Reports(f) : j <= p
             /\ lifecycle[f] # None
             /\ lifecycle[f].state = IF d \in Reports(f) THEN "present" ELSE "fixed"
             /\ lifecycle[f].last = stored[p].run
    BY <1>1, <1>3 DEF FixedAt
  <2>2. Lifecycle!Deciding(f) \subseteq Nat /\ Reports(f) \subseteq Nat
    BY DEF FixedInv, LifecycleTyped, Lifecycle!Deciding, Reports
  <2>3. Lifecycle!Latest(Lifecycle!Deciding(f)) = d
    BY <2>1, <2>2, LatestIs
  <2>4. Lifecycle!Latest(Reports(f)) = p
    BY <2>1, <2>2, LatestIs
  <2> QED BY <1>3, <2>1, <2>3, <2>4
<1> QED BY <1>2, <1>3

\* A stored result decides about the defects it reports, and, when it covers
\* the change, about all; a historical one about none.
LEMMA AppendedResult ==
  ASSUME LifecycleTyped, NEW res \in Result, stored' = Append(stored, res), NEW f \in Fingerprints
  PROVE  LET n == Len(stored) + 1 IN
         /\ n \in Nat /\ stored'[n] = res
         /\ \A i \in Lifecycle!Deciding(f) : i <= n /\ stored'[i] = stored[i]
         /\ Lifecycle!Deciding(f)' =
              Lifecycle!Deciding(f) \cup (IF res.formal /\ (f \in res.found \/ res.covered) THEN {n} ELSE {})
         /\ Reports(f)' =
              Reports(f) \cup (IF res.formal /\ f \in res.found THEN {n} ELSE {})
<1> DEFINE n == Len(stored) + 1
<1>1. stored \in Seq(Result) /\ Len(stored) \in Nat
  BY DEF LifecycleTyped
<1>2. /\ stored' \in Seq(Result) /\ Len(stored') = n
      /\ stored'[n] = res /\ \A i \in 1..Len(stored) : stored'[i] = stored[i]
  BY <1>1
<1>3. DOMAIN stored = 1..Len(stored) /\ DOMAIN stored' = 1..Len(stored) \cup {n}
  BY <1>1, <1>2
<1>4. Lifecycle!Deciding(f)' =
        Lifecycle!Deciding(f) \cup (IF res.formal /\ (f \in res.found \/ res.covered) THEN {n} ELSE {})
  BY <1>1, <1>2, <1>3 DEF Lifecycle!Deciding
<1>5. n \notin Lifecycle!Deciding(f) /\ Lifecycle!Deciding(f) \subseteq 1..Len(stored)
  BY <1>1, <1>3 DEF Lifecycle!Deciding
<1>6. Reports(f)' = Reports(f) \cup (IF res.formal /\ f \in res.found THEN {n} ELSE {})
  <2>1. Reports(f)' = {i \in Lifecycle!Deciding(f)' : f \in stored'[i].found}
    BY DEF Reports
  <2> QED BY <1>2, <1>4, <1>5, <2>1 DEF Reports
<1> QED BY <1>1, <1>2, <1>4, <1>5, <1>6

LEMMA FixedStays ==
  ASSUME FixedInv, UNCHANGED <<lifecycle, stored>>, review' \in [Reviews -> ReviewRow \cup {None}]
  PROVE  FixedInv'
BY DEF FixedInv, LifecycleTyped, FixedAt, Reports, Lifecycle!Deciding

LEMMA FixedStores ==
  ASSUME FixedInv, NEW r \in Reviews, Lifecycle!StoreModelReview(r)
  PROVE  FixedInv'
<1>1. PICK found \in SUBSET Fingerprints, partial \in BOOLEAN, planned \in BOOLEAN :
         LET covered == planned /\ ~partial
             rows == Lifecycle!Reconciled(r, found, covered)
         IN  /\ review' = [review EXCEPT ![r].snapshot = Lifecycle!Historical(r), ![r].completed = ~partial]
             /\ lifecycle' = IF Lifecycle!Historical(r) THEN lifecycle ELSE rows
             /\ stored' = Append(stored, [run |-> r, found |-> found, covered |-> covered,
                                          formal |-> ~Lifecycle!Historical(r)])
  BY DEF Lifecycle!StoreModelReview
<1> DEFINE covered == planned /\ ~partial
           rows == Lifecycle!Reconciled(r, found, covered)
           historical == Lifecycle!Historical(r)
           res == [run |-> r, found |-> found, covered |-> covered, formal |-> ~historical]
           n == Len(stored) + 1
<1>2. LifecycleTyped /\ review[r] \in ReviewRow
  BY DEF FixedInv, LifecycleTyped, Lifecycle!StoreModelReview
<1>3. historical \in BOOLEAN
  BY <1>2 DEF ReviewRow, Lifecycle!Historical, Lifecycle!Overtaken
<1>4. res \in Result /\ covered \in BOOLEAN
  BY <1>3 DEF Result
<1>5. \A f \in Fingerprints :
         /\ n \in Nat /\ stored'[n] = res
         /\ \A i \in Lifecycle!Deciding(f) : i <= n /\ stored'[i] = stored[i]
         /\ Lifecycle!Deciding(f)' =
              Lifecycle!Deciding(f) \cup (IF res.formal /\ (f \in res.found \/ res.covered) THEN {n} ELSE {})
         /\ Reports(f)' =
              Reports(f) \cup (IF res.formal /\ f \in res.found THEN {n} ELSE {})
  BY <1>1, <1>2, <1>4, AppendedResult
<1>6. /\ res.run = r /\ res.found = found /\ res.covered = covered
      /\ res.formal <=> ~historical
  OBVIOUS
<1>7. LifecycleTyped'
  <2>1. review' \in [Reviews -> ReviewRow \cup {None}]
    BY <1>1, <1>2, <1>3 DEF LifecycleTyped, ReviewRow
  <2>2. stored' \in Seq(Result)
    BY <1>1, <1>2, <1>4 DEF LifecycleTyped
  <2>3. rows \in [Fingerprints -> LifecycleRow \cup {None}]
    <3>1. \A f \in Fingerprints : rows[f] \in LifecycleRow \cup {None}
      BY <1>2, <1>4, ReconciledRow
    <3>2. rows = [f \in Fingerprints |-> rows[f]]
      BY DEF Lifecycle!Reconciled
    <3> QED BY <3>1, <3>2
  <2> QED BY <1>1, <1>2, <2>1, <2>2, <2>3 DEF LifecycleTyped
<1>8. ASSUME NEW f \in Fingerprints PROVE FixedAt(f)'
  <2>1. FixedAt(f)
    BY DEF FixedInv
  <2>2. Reports(f) \subseteq Lifecycle!Deciding(f) /\ Lifecycle!Deciding(f) \subseteq Nat
    BY <1>2 DEF Reports, LifecycleTyped, Lifecycle!Deciding
  <2>3. /\ n \in Nat /\ stored'[n].run = r
        /\ \A i \in Lifecycle!Deciding(f) : i <= n /\ stored'[i] = stored[i]
        /\ Lifecycle!Deciding(f)' = Lifecycle!Deciding(f) \cup
                                      (IF ~historical /\ (f \in found \/ covered) THEN {n} ELSE {})
        /\ Reports(f)' = Reports(f) \cup (IF ~historical /\ f \in found THEN {n} ELSE {})
    BY <1>5, <1>6
  <2>4. lifecycle'[f] = IF historical THEN lifecycle[f] ELSE rows[f]
    BY <1>1
  <2>5. /\ rows[f] \in LifecycleRow \cup {None}
        /\ f \in found => /\ rows[f] \in LifecycleRow
                          /\ rows[f].state = "present" /\ rows[f].last = r
        /\ f \notin found /\ lifecycle[f] = None => rows[f] = None
        /\ f \notin found /\ lifecycle[f] # None =>
              /\ rows[f] \in LifecycleRow
              /\ rows[f].last = lifecycle[f].last
              /\ rows[f].state = IF covered THEN "fixed" ELSE lifecycle[f].state
    <3> HIDE DEF covered
    <3> QED BY <1>2, <1>4, ReconciledRow
  <2>6. rows[f] \in LifecycleRow => rows[f] # None
    BY RowsAreSome DEF NoRowIsNone
  <2>7. CASE ~historical /\ f \in found
    BY <2>2, <2>3, <2>4, <2>5, <2>6, <2>7 DEF FixedAt
  <2>8. CASE Reports(f) = {} /\ ~(~historical /\ f \in found)
    BY <2>1, <2>3, <2>4, <2>5, <2>8 DEF FixedAt
  <2>9. CASE Reports(f) # {} /\ ~(~historical /\ f \in found)
    <3>1. PICK d \in Lifecycle!Deciding(f), p \in Reports(f) :
             /\ \A j \in Lifecycle!Deciding(f) : j <= d
             /\ \A j \in Reports(f) : j <= p
             /\ lifecycle[f] # None
             /\ lifecycle[f].state = IF d \in Reports(f) THEN "present" ELSE "fixed"
             /\ lifecycle[f].last = stored[p].run
      BY <2>1, <2>9 DEF FixedAt
    <3>2. Reports(f)' = Reports(f) /\ stored'[p] = stored[p]
      BY <2>2, <2>3, <2>9
    <3>3. n \notin Reports(f)
      BY <2>2, <1>2 DEF LifecycleTyped, Lifecycle!Deciding
    <3>4. CASE historical \/ ~covered
      <4>1. Lifecycle!Deciding(f)' = Lifecycle!Deciding(f)
        BY <2>3, <2>9, <3>4
      <4>2. lifecycle'[f] # None /\ lifecycle'[f].state = lifecycle[f].state
            /\ lifecycle'[f].last = lifecycle[f].last
        BY <2>4, <2>5, <2>6, <2>9, <3>1, <3>4
      <4> QED BY <3>1, <3>2, <4>1, <4>2 DEF FixedAt
    <3>5. CASE ~historical /\ covered
      <4>1. Lifecycle!Deciding(f)' = Lifecycle!Deciding(f) \cup {n}
        BY <2>3, <3>5
      <4>2. lifecycle'[f] # None /\ lifecycle'[f].state = "fixed"
            /\ lifecycle'[f].last = lifecycle[f].last
        BY <2>4, <2>5, <2>6, <2>9, <3>1, <3>5
      <4>3. \A j \in Lifecycle!Deciding(f)' : j <= n
        BY <2>2, <2>3, <4>1
      <4> QED BY <3>1, <3>2, <3>3, <4>1, <4>2, <4>3 DEF FixedAt
    <3> QED BY <3>4, <3>5
  <2> QED BY <2>7, <2>8, <2>9
<1> QED BY <1>7, <1>8 DEF FixedInv

LEMMA FixedInit == OutcomesInit => FixedInv
<1> SUFFICES ASSUME OutcomesInit PROVE FixedInv
  OBVIOUS
<1> USE DEF OutcomesInit, Lifecycle!FindingInit
<1>1. LifecycleTyped
  BY DEF LifecycleTyped
<1>2. stored = <<>> /\ \A f \in Fingerprints : lifecycle[f] = None
  OBVIOUS
<1>3. ASSUME NEW f \in Fingerprints PROVE Reports(f) = {}
  BY <1>2 DEF Reports, Lifecycle!Deciding
<1> QED BY <1>1, <1>2, <1>3 DEF FixedInv, FixedAt

LEMMA FixedSteps == FixedInv /\ [OutcomesNext]_outcomeVars => FixedInv'
<1> SUFFICES ASSUME FixedInv, [OutcomesNext]_outcomeVars PROVE FixedInv'
  OBVIOUS
<1>1. CASE \E r \in Reviews : Lifecycle!CreateRun(r)
  <2>1. PICK r \in Reviews : Lifecycle!CreateRun(r)
    BY <1>1
  <2>2. /\ UNCHANGED <<lifecycle, stored>>
        /\ \E head \in Heads :
             review' = [review EXCEPT ![r] = [head |-> head, snapshot |-> FALSE, completed |-> FALSE]]
    BY <2>1 DEF Lifecycle!CreateRun
  <2>3. review' \in [Reviews -> ReviewRow \cup {None}]
    BY <2>2 DEF FixedInv, LifecycleTyped, ReviewRow
  <2> QED BY <2>2, <2>3, FixedStays
<1>2. CASE \E r \in Reviews : Lifecycle!StoreModelReview(r)
  BY <1>2, FixedStores
<1>3. CASE \E r \in Reviews : Lifecycle!RetryStage(r)
  <2>1. PICK r \in Reviews : Lifecycle!RetryStage(r)
    BY <1>3
  <2>2. /\ UNCHANGED <<lifecycle, stored>> /\ review[r] \in ReviewRow
        /\ review' = [review EXCEPT ![r].completed = FALSE, ![r].snapshot = Lifecycle!Historical(r)]
    BY <2>1 DEF Lifecycle!RetryStage, FixedInv, LifecycleTyped
  <2>3. Lifecycle!Historical(r) \in BOOLEAN
    BY <2>2 DEF ReviewRow, Lifecycle!Historical, Lifecycle!Overtaken
  <2>4. review' \in [Reviews -> ReviewRow \cup {None}]
    BY <2>2, <2>3 DEF FixedInv, LifecycleTyped, ReviewRow
  <2> QED BY <2>2, <2>4, FixedStays
<1>4. CASE \E r \in Reviews, f \in Fingerprints, verdict \in Lifecycle!Verdicts, request \in DecisionKeys :
              Lifecycle!Decide(r, f, verdict, request)
  <2>1. UNCHANGED <<review, lifecycle, stored>>
    BY <1>4 DEF Lifecycle!Decide
  <2> QED BY <2>1, FixedStays DEF FixedInv, LifecycleTyped
<1>5. CASE UNCHANGED findingVars
  <2>1. UNCHANGED <<review, lifecycle, stored>>
    BY <1>5 DEF findingVars
  <2> QED BY <2>1, FixedStays DEF FixedInv, LifecycleTyped
<1> QED BY <1>1, <1>2, <1>3, <1>4, <1>5
        DEF OutcomesNext, FindingStep, WorkbenchStep, outcomeVars, Lifecycle!FindingNext

(* A defect counts as fixed when, and only when, a formal result that covered *)
(* the change did not report it any more (store_model_review).               *)
THEOREM FixedMeansGone == OutcomesSpec => []FixedIsFixed
BY FixedInit, FixedSteps, FixedImplies, PTL DEF OutcomesSpec

-----------------------------------------------------------------------------
(* The samples of the gate.  They are the judgements that stand, one for     *)
(* one: the moment of a sample is the place of its judgement in history.     *)

SampleRow == [verdict : {"valid", "rejected"}, at : Nat]
Judged == [run : Reviews, finding : Fingerprints, verdict : {"valid", "rejected"}, formal : BOOLEAN]

JudgedTyped ==
    /\ review \in [Reviews -> ReviewRow \cup {None}]
    /\ evaluation \in [Reviews -> [Fingerprints -> SampleRow \cup {None}]]
    /\ judged \in Seq(Judged)

\* A stored finding, whatever its lifecycle says.
IsFinding(x) == x = [status |-> x.status, count |-> x.count, adjudication |-> x.adjudication]

FindingsTyped ==
    /\ DOMAIN findings = Reviews /\ findings = [r \in Reviews |-> findings[r]]
    /\ \A r \in Reviews : findings[r] = [f \in Fingerprints |-> findings[r][f]]
    /\ \A r \in Reviews, f \in Fingerprints :
         findings[r][f] # None => review[r] # None /\ IsFinding(findings[r][f])

SamplesStand ==
    /\ \A r \in Reviews, f \in Fingerprints :
         evaluation[r][f] # None =>
            LET i == evaluation[r][f].at IN
            /\ i \in Lifecycle!Standing
            /\ judged[i].run = r /\ judged[i].finding = f
            /\ judged[i].verdict = evaluation[r][f].verdict
    /\ \A i \in Lifecycle!Standing :
         LET s == evaluation[judged[i].run][judged[i].finding] IN s # None /\ s.at = i

ShownStand ==
    \A i \in Lifecycle!Standing :
       LET now == findings[judged[i].run][judged[i].finding] IN
       now # None /\ now.adjudication # "unreviewed" /\ ~review[judged[i].run].snapshot
           => now.adjudication = judged[i].verdict

JudgedInv == JudgedTyped /\ FindingsTyped /\ SamplesStand /\ ShownStand

LEMMA SamplesAreSome == None \notin SampleRow
  BY OutcomesAssumption DEF SampleRow

LEMMA StandingTyped ==
  ASSUME JudgedTyped
  PROVE  /\ Len(judged) \in Nat /\ DOMAIN judged = 1..Len(judged)
         /\ Lifecycle!Standing \subseteq 1..Len(judged)
         /\ \A i \in Lifecycle!Standing : judged[i] \in Judged
<1>1. judged \in Seq(Judged)
  BY DEF JudgedTyped
<1>2. Len(judged) \in Nat /\ DOMAIN judged = 1..Len(judged)
  BY <1>1
<1> QED BY <1>1, <1>2 DEF Lifecycle!Standing

\* A new formal judgement takes the place of the last one on its finding.
LEMMA AppendedJudgement ==
  ASSUME JudgedTyped, NEW j \in Judged, judged' = Append(judged, j)
  PROVE  LET n == Len(judged) + 1
             others == {i \in Lifecycle!Standing : <<judged[i].run, judged[i].finding>> # <<j.run, j.finding>>}
         IN  /\ n \notin Lifecycle!Standing /\ judged'[n] = j
             /\ \A i \in Lifecycle!Standing : judged'[i] = judged[i]
             /\ Lifecycle!Standing' = IF j.formal THEN others \cup {n} ELSE Lifecycle!Standing
<1> DEFINE n == Len(judged) + 1
           others == {i \in Lifecycle!Standing : <<judged[i].run, judged[i].finding>> # <<j.run, j.finding>>}
<1>1. judged \in Seq(Judged) /\ Len(judged) \in Nat /\ Lifecycle!Standing \subseteq 1..Len(judged)
  BY StandingTyped DEF JudgedTyped
<1>2. /\ judged'[n] = j /\ DOMAIN judged' = 1..Len(judged) \cup {n}
      /\ DOMAIN judged = 1..Len(judged)
      /\ \A i \in 1..Len(judged) : judged'[i] = judged[i]
  BY <1>1
<1>3. n \notin Lifecycle!Standing
  BY <1>1
<1>4. n \in Lifecycle!Standing' <=> j.formal
  BY <1>1, <1>2 DEF Lifecycle!Standing
<1>5. ASSUME NEW i \in 1..Len(judged)
      PROVE  i \in Lifecycle!Standing' <=>
               i \in Lifecycle!Standing /\ (j.formal => <<judged[i].run, judged[i].finding>> # <<j.run, j.finding>>)
  <2>1. n > i
    BY <1>1
  <2>2. i \in Lifecycle!Standing <=>
          /\ judged[i].formal
          /\ \A k \in 1..Len(judged) : k > i /\ judged[k].formal =>
               <<judged[k].run, judged[k].finding>> # <<judged[i].run, judged[i].finding>>
    BY <1>2 DEF Lifecycle!Standing
  <2>3. i \in Lifecycle!Standing' <=>
          /\ judged'[i].formal
          /\ \A k \in 1..Len(judged) \cup {n} : k > i /\ judged'[k].formal =>
               <<judged'[k].run, judged'[k].finding>> # <<judged'[i].run, judged'[i].finding>>
    BY <1>2 DEF Lifecycle!Standing
  <2> QED BY <1>2, <2>1, <2>2, <2>3
<1>6. Lifecycle!Standing' \subseteq 1..Len(judged) \cup {n}
  BY <1>2 DEF Lifecycle!Standing
<1>7. Lifecycle!Standing' = IF j.formal THEN others \cup {n} ELSE Lifecycle!Standing
  <2>1. Lifecycle!Standing \subseteq 1..Len(judged) /\ others \subseteq Lifecycle!Standing
    BY <1>1
  <2>2. CASE j.formal
    <3>1. \A i \in 1..Len(judged) : i \in Lifecycle!Standing' <=> i \in others
      BY <1>5, <2>2
    <3> QED BY <1>4, <1>6, <2>1, <2>2, <3>1
  <2>3. CASE ~j.formal
    <3>1. \A i \in 1..Len(judged) : i \in Lifecycle!Standing' <=> i \in Lifecycle!Standing
      BY <1>5, <2>3
    <3>2. n \notin Lifecycle!Standing'
      BY <1>4, <2>3
    <3>3. \A i : i \in Lifecycle!Standing' <=> i \in Lifecycle!Standing
      BY <1>6, <2>1, <3>1, <3>2
    <3> HIDE DEF n, others
    <3>4. Lifecycle!Standing' = Lifecycle!Standing
      BY <3>3
    <3> QED BY <2>3, <3>4
  <2> QED BY <2>2, <2>3
<1> QED BY <1>1, <1>2, <1>3, <1>7

LEMMA JudgedInit == OutcomesInit => JudgedInv
<1> SUFFICES ASSUME OutcomesInit PROVE JudgedInv
  OBVIOUS
<1>1. /\ judged = <<>>
      /\ review = [r \in Reviews |-> None]
      /\ findings = [r \in Reviews |-> Lifecycle!NoFindings]
      /\ evaluation = [r \in Reviews |-> Lifecycle!NoFindings]
      /\ Lifecycle!NoFindings = [f \in Fingerprints |-> None]
  BY DEF OutcomesInit, Lifecycle!FindingInit, Lifecycle!NoFindings
<1>2. JudgedTyped
  BY <1>1 DEF JudgedTyped
<1>3. Lifecycle!Standing = {}
  BY <1>1 DEF Lifecycle!Standing
<1> QED BY <1>1, <1>2, <1>3 DEF JudgedInv, FindingsTyped, SamplesStand, ShownStand

\* The steps that leave the judgements alone.
LEMMA JudgementsStay ==
  ASSUME JudgedInv, UNCHANGED <<evaluation, judged>>,
         review' \in [Reviews -> ReviewRow \cup {None}], FindingsTyped',
         \A r \in Reviews, f \in Fingerprints :
            /\ findings'[r][f] # None
            /\ findings'[r][f].adjudication # "unreviewed" /\ ~review'[r].snapshot
            => findings[r][f] = findings'[r][f] /\ ~review[r].snapshot
  PROVE  JudgedInv'
<1>1. JudgedTyped'
  BY DEF JudgedInv, JudgedTyped
<1>2. Lifecycle!Standing' = Lifecycle!Standing
  BY DEF Lifecycle!Standing
<1>3. \A i \in Lifecycle!Standing : judged[i].run \in Reviews /\ judged[i].finding \in Fingerprints
  BY StandingTyped DEF JudgedInv, Judged
<1>4. SamplesStand'
  BY <1>2 DEF JudgedInv, SamplesStand
<1>5. ShownStand'
  BY <1>2, <1>3 DEF JudgedInv, ShownStand
<1> QED BY <1>1, <1>4, <1>5 DEF JudgedInv

LEMMA JudgedDecides ==
  ASSUME JudgedInv, NEW r \in Reviews, NEW f \in Fingerprints,
         NEW verdict \in {"valid", "rejected"}, NEW request,
         Lifecycle!Decide(r, f, verdict, request)
  PROVE  JudgedInv'
<1> DEFINE j == [run |-> r, finding |-> f, verdict |-> verdict, formal |-> ~review[r].snapshot]
           n == Len(judged) + 1
           one == [verdict |-> verdict, at |-> n]
           others == {i \in Lifecycle!Standing : <<judged[i].run, judged[i].finding>> # <<r, f>>}
<1>1. JudgedTyped /\ FindingsTyped /\ SamplesStand /\ ShownStand
  BY DEF JudgedInv
<1>2. /\ findings[r][f] # None /\ review' = review
      /\ findings' = [findings EXCEPT ![r][f].adjudication = verdict]
      /\ evaluation' = IF review[r].snapshot THEN evaluation ELSE [evaluation EXCEPT ![r][f] = one]
      /\ judged' = Append(judged, j)
  BY DEF Lifecycle!Decide, Lifecycle!Sample, Lifecycle!Judgement
<1>3. review[r] \in ReviewRow /\ review[r].snapshot \in BOOLEAN
  BY <1>1, <1>2 DEF FindingsTyped, JudgedTyped, ReviewRow
<1>4. /\ j \in Judged /\ j.run = r /\ j.finding = f /\ j.verdict = verdict
      /\ j.formal <=> ~review[r].snapshot
  BY <1>3 DEF Judged
<1>5. /\ n \notin Lifecycle!Standing /\ judged'[n] = j
      /\ \A i \in Lifecycle!Standing : judged'[i] = judged[i]
      /\ Lifecycle!Standing' = IF j.formal THEN others \cup {n} ELSE Lifecycle!Standing
  BY <1>1, <1>2, <1>4, AppendedJudgement
<1>6. /\ Len(judged) \in Nat /\ n \in Nat
      /\ \A i \in Lifecycle!Standing : /\ judged[i].run \in Reviews /\ judged[i].finding \in Fingerprints
                                       /\ judged[i].verdict \in {"valid", "rejected"}
  BY <1>1, StandingTyped DEF Judged
<1>7. one \in SampleRow /\ one # None /\ one.at = n /\ one.verdict = verdict
  BY <1>6, SamplesAreSome DEF SampleRow
<1>8. JudgedTyped'
  <2>1. judged' \in Seq(Judged)
    BY <1>1, <1>2, <1>4 DEF JudgedTyped
  <2>2. evaluation' \in [Reviews -> [Fingerprints -> SampleRow \cup {None}]]
    BY <1>1, <1>2, <1>7 DEF JudgedTyped
  <2> QED BY <1>1, <1>2, <2>1, <2>2 DEF JudgedTyped
<1>9. /\ DOMAIN findings = Reviews /\ DOMAIN findings[r] = Fingerprints
      /\ IsFinding(findings[r][f])
  <2>1. findings[r] = [g \in Fingerprints |-> findings[r][g]]
    BY <1>1 DEF FindingsTyped
  <2> QED BY <1>1, <1>2, <2>1 DEF FindingsTyped
<1>10. IsFinding(findings'[r][f]) /\ findings'[r][f].adjudication = verdict
  <2>1. findings'[r][f] = [findings[r][f] EXCEPT !.adjudication = verdict]
    BY <1>2, <1>9
  <2>2. PICK status, count, adjudication :
           findings[r][f] = [status |-> status, count |-> count, adjudication |-> adjudication]
    BY <1>9 DEF IsFinding
  <2>3. findings'[r][f] = [status |-> status, count |-> count, adjudication |-> verdict]
    BY <2>1, <2>2
  <2>4. findings'[r][f].adjudication = verdict
    BY <2>3
  <2>5. \E s, c, a : findings'[r][f] = [status |-> s, count |-> c, adjudication |-> a]
    BY <2>3, Zenon
  <2> QED BY <2>4, <2>5 DEF IsFinding
<1>11. \A s \in Reviews, g \in Fingerprints : <<s, g>> # <<r, f>> => findings'[s][g] = findings[s][g]
  BY <1>2, <1>9
<1>12. FindingsTyped'
  <2>1. \A s \in Reviews, g \in Fingerprints :
          findings'[s][g] # None => review'[s] # None /\ IsFinding(findings'[s][g])
    BY <1>1, <1>2, <1>10, <1>11, SMTT(30) DEF FindingsTyped
  <2>2. DOMAIN findings' = Reviews /\ findings' = [s \in Reviews |-> findings'[s]]
    BY <1>2, <1>9
  <2>3. \A s \in Reviews : findings'[s] = [g \in Fingerprints |-> findings'[s][g]]
    <3>1. \A s \in Reviews : findings[s] = [g \in Fingerprints |-> findings[s][g]]
      BY <1>1 DEF FindingsTyped
    <3>2. \A s \in Reviews : s # r => findings'[s] = findings[s]
      BY <1>2, <1>9
    <3>3. findings'[r] = [findings[r] EXCEPT ![f].adjudication = verdict]
      BY <1>2, <1>9
    <3>4. findings'[r] = [g \in Fingerprints |-> findings'[r][g]]
      BY <3>3, <1>9
    <3> QED BY <3>1, <3>2, <3>4
  <2> QED BY <2>1, <2>2, <2>3 DEF FindingsTyped
<1>13. CASE review[r].snapshot
  <2>1. Lifecycle!Standing' = Lifecycle!Standing /\ evaluation' = evaluation
    BY <1>2, <1>4, <1>5, <1>13
  <2>2. SamplesStand'
    BY <1>1, <1>5, <2>1 DEF SamplesStand
  <2>3. ShownStand'
    <3> SUFFICES ASSUME NEW i \in Lifecycle!Standing',
                        findings'[judged'[i].run][judged'[i].finding] # None,
                        findings'[judged'[i].run][judged'[i].finding].adjudication # "unreviewed",
                        ~review'[judged'[i].run].snapshot
                 PROVE  findings'[judged'[i].run][judged'[i].finding].adjudication = judged'[i].verdict
      BY DEF ShownStand
    <3>1. i \in Lifecycle!Standing /\ judged'[i] = judged[i]
      BY <1>5, <2>1
    <3>2. judged[i].run # r
      BY <1>2, <1>13, <3>1
    <3>3. findings'[judged[i].run][judged[i].finding] = findings[judged[i].run][judged[i].finding]
      BY <1>6, <1>11, <3>1, <3>2
    <3> QED BY <1>1, <1>2, <3>1, <3>3 DEF ShownStand
  <2> QED BY <1>8, <1>12, <2>2, <2>3 DEF JudgedInv
<1>14. CASE ~review[r].snapshot
  <2>1. /\ Lifecycle!Standing' = others \cup {n}
        /\ evaluation' = [evaluation EXCEPT ![r][f] = one]
    BY <1>2, <1>4, <1>5, <1>14
  <2>2. evaluation'[r][f] = one
    BY <1>1, <2>1 DEF JudgedTyped
  <2>3. \A s \in Reviews, g \in Fingerprints : <<s, g>> # <<r, f>> => evaluation'[s][g] = evaluation[s][g]
    BY <1>1, <2>1 DEF JudgedTyped
  <2>4. /\ n \in Lifecycle!Standing'
        /\ \A i \in Lifecycle!Standing' : i # n =>
             /\ i \in Lifecycle!Standing /\ judged'[i] = judged[i]
             /\ <<judged[i].run, judged[i].finding>> # <<r, f>>
    BY <1>5, <2>1
  <2>5. SamplesStand'
    <3>1. ASSUME NEW s \in Reviews, NEW g \in Fingerprints, evaluation'[s][g] # None
          PROVE  /\ evaluation'[s][g].at \in Lifecycle!Standing'
                 /\ judged'[evaluation'[s][g].at].run = s /\ judged'[evaluation'[s][g].at].finding = g
                 /\ judged'[evaluation'[s][g].at].verdict = evaluation'[s][g].verdict
      <4>1. CASE <<s, g>> = <<r, f>>
        BY <1>4, <1>5, <1>7, <2>2, <2>4, <4>1
      <4>2. CASE <<s, g>> # <<r, f>>
        <5> DEFINE i == evaluation[s][g].at
        <5>1. /\ i \in Lifecycle!Standing /\ judged[i].run = s /\ judged[i].finding = g
              /\ judged[i].verdict = evaluation[s][g].verdict
              /\ evaluation'[s][g] = evaluation[s][g]
          BY <1>1, <2>3, <3>1, <4>2 DEF SamplesStand
        <5>2. i \in others
          BY <4>2, <5>1
        <5> QED BY <1>5, <2>1, <5>1, <5>2
      <4> QED BY <4>1, <4>2
    <3>2. ASSUME NEW i \in Lifecycle!Standing'
          PROVE  /\ evaluation'[judged'[i].run][judged'[i].finding] # None
                 /\ evaluation'[judged'[i].run][judged'[i].finding].at = i
      <4>1. CASE i = n
        BY <1>4, <1>5, <1>7, <2>2, <4>1
      <4>2. CASE i # n
        <5>1. /\ i \in Lifecycle!Standing /\ judged'[i] = judged[i]
              /\ <<judged[i].run, judged[i].finding>> # <<r, f>>
          BY <2>4, <4>2
        <5>2. /\ evaluation[judged[i].run][judged[i].finding] # None
              /\ evaluation[judged[i].run][judged[i].finding].at = i
          BY <1>1, <5>1 DEF SamplesStand
        <5> QED BY <1>6, <2>3, <5>1, <5>2
      <4> QED BY <4>1, <4>2
    <3> QED BY <3>1, <3>2 DEF SamplesStand
  <2>6. ShownStand'
    <3> SUFFICES ASSUME NEW i \in Lifecycle!Standing',
                        findings'[judged'[i].run][judged'[i].finding] # None,
                        findings'[judged'[i].run][judged'[i].finding].adjudication # "unreviewed",
                        ~review'[judged'[i].run].snapshot
                 PROVE  findings'[judged'[i].run][judged'[i].finding].adjudication = judged'[i].verdict
      BY DEF ShownStand
    <3>1. CASE i = n
      BY <1>4, <1>5, <1>10, <3>1
    <3>2. CASE i # n
      <4>1. /\ i \in Lifecycle!Standing /\ judged'[i] = judged[i]
            /\ <<judged[i].run, judged[i].finding>> # <<r, f>>
        BY <2>4, <3>2
      <4>2. findings'[judged[i].run][judged[i].finding] = findings[judged[i].run][judged[i].finding]
        BY <1>6, <1>11, <4>1
      <4> QED BY <1>1, <1>2, <4>1, <4>2 DEF ShownStand
    <3> QED BY <3>1, <3>2
  <2> QED BY <1>8, <1>12, <2>5, <2>6 DEF JudgedInv
<1> QED BY <1>3, <1>13, <1>14

\* Results, repetitions and new reviews change no judgement; what they insert
\* is unreviewed, and a historical review stays historical.
LEMMA JudgedStores ==
  ASSUME JudgedInv, NEW r \in Reviews, Lifecycle!StoreModelReview(r)
  PROVE  JudgedInv'
<1>1. PICK found \in SUBSET Fingerprints, partial \in BOOLEAN, planned \in BOOLEAN :
         LET covered == planned /\ ~partial
             rows == Lifecycle!Reconciled(r, found, covered)
         IN  /\ review' = [review EXCEPT ![r].snapshot = Lifecycle!Historical(r), ![r].completed = ~partial]
             /\ findings' = [findings EXCEPT ![r] = [f \in Fingerprints |->
                  IF f \in found /\ @[f] = None THEN Lifecycle!Inserted(r, f, rows) ELSE @[f]]]
  BY ZenonT(30) DEF Lifecycle!StoreModelReview
<1> DEFINE covered == planned /\ ~partial
           rows == Lifecycle!Reconciled(r, found, covered)
           historical == Lifecycle!Historical(r)
<1> HIDE DEF covered, rows
<1>2. JudgedTyped /\ FindingsTyped /\ review[r] # None
  BY DEF JudgedInv, Lifecycle!StoreModelReview
<1>3. review[r] \in ReviewRow
  BY <1>2 DEF JudgedTyped
<1>4. historical \in BOOLEAN /\ (review[r].snapshot => historical)
  BY <1>3 DEF ReviewRow, Lifecycle!Historical, Lifecycle!Overtaken
<1>5. review' \in [Reviews -> ReviewRow \cup {None}]
  BY <1>1, <1>2, <1>4 DEF JudgedTyped, ReviewRow
<1>6. /\ review'[r] \in ReviewRow /\ review'[r] # None
      /\ ~review'[r].snapshot => ~review[r].snapshot
      /\ \A s \in Reviews : s # r => review'[s] = review[s]
  <2>1. review'[r] = [review[r] EXCEPT !.snapshot = historical, !.completed = ~partial]
    BY <1>1, <1>2 DEF JudgedTyped
  <2>2. review'[r].snapshot = historical /\ review'[r] \in ReviewRow
    BY <1>3, <1>4, <2>1 DEF ReviewRow
  <2>3. review'[r] # None
    BY <2>2, OutcomesAssumption DEF ReviewRow
  <2> QED BY <1>1, <1>2, <1>4, <2>2, <2>3 DEF JudgedTyped
<1>7. /\ DOMAIN findings' = Reviews
      /\ \A s \in Reviews : s # r => findings'[s] = findings[s]
      /\ findings'[r] = [f \in Fingerprints |->
            IF f \in found /\ findings[r][f] = None THEN Lifecycle!Inserted(r, f, rows) ELSE findings[r][f]]
  <2> DEFINE inserted == [f \in Fingerprints |->
            IF f \in found /\ findings[r][f] = None THEN Lifecycle!Inserted(r, f, rows) ELSE findings[r][f]]
  <2>1. findings' = [findings EXCEPT ![r] = inserted]
    BY <1>1 DEF rows, covered
  <2>2. DOMAIN findings = Reviews
    BY <1>2 DEF FindingsTyped
  <2> HIDE DEF inserted
  <2>3. /\ DOMAIN findings' = Reviews /\ findings'[r] = inserted
        /\ \A s \in Reviews : s # r => findings'[s] = findings[s]
    BY <2>1, <2>2
  <2> QED BY <2>3 DEF inserted
<1>8. \A f \in Fingerprints : /\ IsFinding(Lifecycle!Inserted(r, f, rows))
                               /\ Lifecycle!Inserted(r, f, rows).adjudication = "unreviewed"
  <2> SUFFICES ASSUME NEW f \in Fingerprints
               PROVE  /\ IsFinding(Lifecycle!Inserted(r, f, rows))
                      /\ Lifecycle!Inserted(r, f, rows).adjudication = "unreviewed"
    OBVIOUS
  <2> DEFINE status == IF historical THEN "new" ELSE rows[f].status
             count == IF historical THEN 1 ELSE rows[f].count
  <2>1. Lifecycle!Inserted(r, f, rows) =
          [status |-> status, count |-> count, adjudication |-> "unreviewed"]
    BY DEF Lifecycle!Inserted
  <2> HIDE DEF status, count
  <2>2. Lifecycle!Inserted(r, f, rows).adjudication = "unreviewed"
    BY <2>1
  <2>3. \E s, c, a : Lifecycle!Inserted(r, f, rows) = [status |-> s, count |-> c, adjudication |-> a]
    BY <2>1, Zenon
  <2> QED BY <2>2, <2>3 DEF IsFinding
<1>9. FindingsTyped'
  <2>1. ASSUME NEW s \in Reviews, NEW f \in Fingerprints, findings'[s][f] # None
        PROVE  review'[s] # None /\ IsFinding(findings'[s][f])
    <3>1. CASE s = r
      BY <1>2, <1>6, <1>7, <1>8, <2>1, <3>1 DEF FindingsTyped
    <3>2. CASE s # r
      BY <1>2, <1>6, <1>7, <2>1, <3>2 DEF FindingsTyped
    <3> QED BY <3>1, <3>2
  <2>2. findings' = [s \in Reviews |-> findings'[s]]
    BY <1>1, <1>2, <1>7 DEF FindingsTyped
  <2>3. ASSUME NEW s \in Reviews PROVE findings'[s] = [f \in Fingerprints |-> findings'[s][f]]
    <3>1. findings[s] = [f \in Fingerprints |-> findings[s][f]]
      BY <1>2 DEF FindingsTyped
    <3>2. CASE s = r
      BY <1>7, <3>2
    <3>3. CASE s # r
      BY <1>7, <3>1, <3>3
    <3> QED BY <3>2, <3>3
  <2> QED BY <1>7, <2>1, <2>2, <2>3 DEF FindingsTyped
<1>10. ASSUME NEW s \in Reviews, NEW f \in Fingerprints,
              findings'[s][f] # None, findings'[s][f].adjudication # "unreviewed", ~review'[s].snapshot
       PROVE  findings[s][f] = findings'[s][f] /\ ~review[s].snapshot
  <2>1. CASE s = r
    BY <1>6, <1>7, <1>8, <1>10, <2>1
  <2>2. CASE s # r
    BY <1>6, <1>7, <1>10, <2>2
  <2> QED BY <2>1, <2>2
<1>11. UNCHANGED <<evaluation, judged>>
  BY DEF Lifecycle!StoreModelReview
<1> QED BY <1>5, <1>9, <1>10, <1>11, JudgementsStay

\* A review that is created, or whose stage is repeated, has no findings.
LEMMA JudgedEmpties ==
  ASSUME JudgedInv, NEW r \in Reviews, NEW row \in ReviewRow,
         review' = [review EXCEPT ![r] = row],
         findings' = [findings EXCEPT ![r] = Lifecycle!NoFindings],
         UNCHANGED <<evaluation, judged>>
  PROVE  JudgedInv'
<1>1. JudgedTyped /\ FindingsTyped
  BY DEF JudgedInv
<1>2. Lifecycle!NoFindings = [f \in Fingerprints |-> None]
  BY DEF Lifecycle!NoFindings
<1>3. /\ review' \in [Reviews -> ReviewRow \cup {None}]
      /\ \A s \in Reviews : s # r => review'[s] = review[s] /\ findings'[s] = findings[s]
      /\ findings'[r] = Lifecycle!NoFindings
      /\ DOMAIN findings' = Reviews /\ findings' = [s \in Reviews |-> findings'[s]]
  BY <1>1 DEF JudgedTyped, FindingsTyped
<1>4. \A s \in Reviews, f \in Fingerprints : findings'[s][f] # None => s # r
  BY <1>2, <1>3
<1>5. \A s \in Reviews : findings'[s] = [f \in Fingerprints |-> findings'[s][f]]
  <2> SUFFICES ASSUME NEW s \in Reviews PROVE findings'[s] = [f \in Fingerprints |-> findings'[s][f]]
    OBVIOUS
  <2>1. findings[s] = [f \in Fingerprints |-> findings[s][f]]
    BY <1>1 DEF FindingsTyped
  <2>2. CASE s = r
    BY <1>2, <1>3, <2>2
  <2>3. CASE s # r
    BY <1>3, <2>1, <2>3
  <2> QED BY <2>2, <2>3
<1>6. FindingsTyped'
  BY <1>1, <1>3, <1>4, <1>5 DEF FindingsTyped
<1> QED BY <1>3, <1>4, <1>6, JudgementsStay

LEMMA JudgedSteps == JudgedInv /\ [OutcomesNext]_outcomeVars => JudgedInv'
<1> SUFFICES ASSUME JudgedInv, [OutcomesNext]_outcomeVars PROVE JudgedInv'
  OBVIOUS
<1>1. JudgedTyped /\ FindingsTyped
  BY DEF JudgedInv
<1>2. CASE \E r \in Reviews : Lifecycle!CreateRun(r)
  <2>1. PICK r \in Reviews : Lifecycle!CreateRun(r)
    BY <1>2
  <2>2. PICK head \in Heads :
           review' = [review EXCEPT ![r] = [head |-> head, snapshot |-> FALSE, completed |-> FALSE]]
    BY <2>1 DEF Lifecycle!CreateRun
  <2>3. [head |-> head, snapshot |-> FALSE, completed |-> FALSE] \in ReviewRow
    BY DEF ReviewRow
  <2>4. review[r] = None /\ UNCHANGED <<findings, evaluation, judged>>
    BY <2>1 DEF Lifecycle!CreateRun
  <2>5. /\ findings[r] = [f \in Fingerprints |-> findings[r][f]]
        /\ \A f \in Fingerprints : findings[r][f] = None
        /\ findings = [s \in Reviews |-> findings[s]]
    BY <1>1, <2>4 DEF FindingsTyped
  <2>6. findings[r] = Lifecycle!NoFindings
    BY <2>5 DEF Lifecycle!NoFindings
  <2>7. findings' = [findings EXCEPT ![r] = Lifecycle!NoFindings]
    BY <2>4, <2>5, <2>6
  <2> QED BY <2>2, <2>3, <2>4, <2>7, JudgedEmpties
<1>3. CASE \E r \in Reviews : Lifecycle!StoreModelReview(r)
  BY <1>3, JudgedStores
<1>4. CASE \E r \in Reviews : Lifecycle!RetryStage(r)
  <2>1. PICK r \in Reviews : Lifecycle!RetryStage(r)
    BY <1>4
  <2> DEFINE row == [review[r] EXCEPT !.completed = FALSE, !.snapshot = Lifecycle!Historical(r)]
  <2>2. /\ review[r] \in ReviewRow
        /\ review' = [review EXCEPT ![r].completed = FALSE, ![r].snapshot = Lifecycle!Historical(r)]
    BY <1>1, <2>1 DEF Lifecycle!RetryStage, JudgedTyped
  <2>3. Lifecycle!Historical(r) \in BOOLEAN
    BY <2>2 DEF ReviewRow, Lifecycle!Historical, Lifecycle!Overtaken
  <2>4. row \in ReviewRow /\ review' = [review EXCEPT ![r] = row]
    BY <1>1, <2>2, <2>3 DEF ReviewRow, JudgedTyped
  <2>5. /\ findings' = [findings EXCEPT ![r] = Lifecycle!NoFindings]
        /\ UNCHANGED <<evaluation, judged>>
    BY <2>1 DEF Lifecycle!RetryStage
  <2> HIDE DEF row
  <2> QED BY <2>4, <2>5, JudgedEmpties
<1>5. CASE \E r \in Reviews, f \in Fingerprints, verdict \in Lifecycle!Verdicts, request \in DecisionKeys :
              Lifecycle!Decide(r, f, verdict, request)
  BY <1>5, JudgedDecides DEF Lifecycle!Verdicts
<1>6. CASE UNCHANGED findingVars
  <2>1. UNCHANGED <<review, findings, evaluation, judged>>
    BY <1>6 DEF findingVars
  <2>2. FindingsTyped'
    BY <1>1, <2>1 DEF FindingsTyped
  <2>3. review' \in [Reviews -> ReviewRow \cup {None}]
    BY <1>1, <2>1 DEF JudgedTyped
  <2> QED BY <2>1, <2>2, <2>3, JudgementsStay
<1> QED BY <1>2, <1>3, <1>4, <1>5, <1>6
        DEF OutcomesNext, FindingStep, WorkbenchStep, outcomeVars, Lifecycle!FindingNext

\* The moments of the samples are the places of the judgements that stand.
LEMMA MomentsStand ==
  ASSUME JudgedInv
  PROVE  /\ \A s \in Lifecycle!Samples :
              /\ Lifecycle!At(s) \in Lifecycle!Standing
              /\ <<judged[Lifecycle!At(s)].run, judged[Lifecycle!At(s)].finding>> = s
              /\ judged[Lifecycle!At(s)].verdict = evaluation[s[1]][s[2]].verdict
         /\ \A i \in Lifecycle!Standing : \E s \in Lifecycle!Samples : Lifecycle!At(s) = i
         /\ \A s, t \in Lifecycle!Samples : Lifecycle!At(s) = Lifecycle!At(t) => s = t
<1>1. JudgedTyped /\ SamplesStand
  BY DEF JudgedInv
<1>2. ASSUME NEW s \in Lifecycle!Samples
      PROVE  /\ Lifecycle!At(s) \in Lifecycle!Standing
             /\ <<judged[Lifecycle!At(s)].run, judged[Lifecycle!At(s)].finding>> = s
             /\ judged[Lifecycle!At(s)].verdict = evaluation[s[1]][s[2]].verdict
  <2>1. s = <<s[1], s[2]>> /\ s[1] \in Reviews /\ s[2] \in Fingerprints /\ evaluation[s[1]][s[2]] # None
    BY DEF Lifecycle!Samples
  <2>2. /\ evaluation[s[1]][s[2]].at \in Lifecycle!Standing
        /\ judged[evaluation[s[1]][s[2]].at].run = s[1] /\ judged[evaluation[s[1]][s[2]].at].finding = s[2]
        /\ judged[evaluation[s[1]][s[2]].at].verdict = evaluation[s[1]][s[2]].verdict
    BY <1>1, <2>1 DEF SamplesStand
  <2> QED BY <2>1, <2>2 DEF Lifecycle!At
<1>3. ASSUME NEW i \in Lifecycle!Standing
      PROVE  \E s \in Lifecycle!Samples : Lifecycle!At(s) = i
  <2> DEFINE s == <<judged[i].run, judged[i].finding>>
  <2>1. judged[i].run \in Reviews /\ judged[i].finding \in Fingerprints
    BY <1>1, StandingTyped DEF Judged
  <2>2. evaluation[judged[i].run][judged[i].finding] # None /\ evaluation[judged[i].run][judged[i].finding].at = i
    BY <1>1 DEF SamplesStand
  <2>3. s \in Lifecycle!Samples /\ Lifecycle!At(s) = i
    BY <2>1, <2>2 DEF Lifecycle!Samples, Lifecycle!At
  <2> QED BY <2>3
<1>4. ASSUME NEW s \in Lifecycle!Samples, NEW t \in Lifecycle!Samples, Lifecycle!At(s) = Lifecycle!At(t)
      PROVE  s = t
  BY <1>2, <1>4
<1> QED BY <1>2, <1>3, <1>4

\* As many samples as judgements are later than a sample.
LEMMA AsManyLater ==
  ASSUME JudgedInv, NEW s \in Lifecycle!Samples
  PROVE  Lifecycle!Cardinality({t \in Lifecycle!Samples : Lifecycle!At(t) > Lifecycle!At(s)})
           = Lifecycle!Cardinality({j \in Lifecycle!Standing : j > Lifecycle!At(s)})
<1> DEFINE newer == {t \in Lifecycle!Samples : Lifecycle!At(t) > Lifecycle!At(s)}
           later == {j \in Lifecycle!Standing : j > Lifecycle!At(s)}
           moment == [t \in newer |-> Lifecycle!At(t)]
           back == [j \in later |-> CHOOSE t \in Lifecycle!Samples : Lifecycle!At(t) = j]
<1>1. Lifecycle!Standing \subseteq 1..Len(judged) /\ Len(judged) \in Nat
  BY StandingTyped DEF JudgedInv
<1>2. IsFiniteSet(later)
  <2>1. IsFiniteSet(1..Len(judged))
    BY <1>1, FS_Interval
  <2> QED BY <1>1, <2>1, FS_Subset
<1>3. moment \in [newer -> later] /\ \A t \in newer : moment[t] = Lifecycle!At(t)
  BY MomentsStand
<1>4. \A t, u \in newer : moment[t] = moment[u] => t = u
  BY <1>3, MomentsStand
<1>5. \A j \in later : \E t \in newer : moment[t] = j
  <2> SUFFICES ASSUME NEW j \in later PROVE \E t \in newer : moment[t] = j
    OBVIOUS
  <2>1. PICK t \in Lifecycle!Samples : Lifecycle!At(t) = j
    BY MomentsStand
  <2> QED BY <2>1
<1> HIDE DEF newer, later, moment
<1>6. moment \in Bijection(newer, later)
  BY <1>3, <1>4, <1>5 DEF Bijection, Injection, Surjection, IsInjective
<1>7. ExistsBijection(later, newer)
  BY <1>6, Fun_ExistsBijSymmetric DEF ExistsBijection
<1>8. Cardinality(newer) = Cardinality(later)
  BY <1>2, <1>7, FS_Bijection
<1>9. \A S : Lifecycle!Cardinality(S) = Cardinality(S)
  BY DEF Lifecycle!Cardinality, Cardinality
<1> QED BY <1>8, <1>9 DEF newer, later

LEMMA JudgedImplies == JudgedInv => JudgementsCount
<1> SUFFICES ASSUME JudgedInv PROVE JudgementsCount
  OBVIOUS
<1> DEFINE latest == Lifecycle!LatestStanding
           judgedValid == {i \in latest : judged[i].verdict = "valid"}
           sampledValid == {s \in Lifecycle!Recent : evaluation[s[1]][s[2]].verdict = "valid"}
<1>1. ASSUME NEW s \in Lifecycle!Samples
      PROVE  s \in Lifecycle!Recent <=> Lifecycle!At(s) \in latest
  BY AsManyLater, MomentsStand DEF Lifecycle!Recent, Lifecycle!LatestStanding
<1>2. ASSUME NEW i \in Lifecycle!Standing
      PROVE  \E s \in Lifecycle!Samples : /\ Lifecycle!At(s) = i
                                          /\ s = <<judged[i].run, judged[i].finding>>
                                          /\ judged[i].verdict = evaluation[s[1]][s[2]].verdict
  <2>1. PICK s \in Lifecycle!Samples : Lifecycle!At(s) = i
    BY MomentsStand
  <2> QED BY <2>1, MomentsStand
<1>3. Lifecycle!Recent \subseteq Lifecycle!Samples /\ latest \subseteq Lifecycle!Standing
  BY DEF Lifecycle!Recent, Lifecycle!LatestStanding
<1>4. Lifecycle!Recent = Lifecycle!About(latest)
  <2>1. ASSUME NEW s \in Lifecycle!Recent PROVE s \in Lifecycle!About(latest)
    <3>1. s \in Lifecycle!Samples /\ Lifecycle!At(s) \in latest
      BY <1>1, <1>3
    <3>2. s = <<judged[Lifecycle!At(s)].run, judged[Lifecycle!At(s)].finding>>
      BY <3>1, MomentsStand
    <3> HIDE DEF latest
    <3> QED BY <3>1, <3>2 DEF Lifecycle!About
  <2>2. ASSUME NEW s \in Lifecycle!About(latest) PROVE s \in Lifecycle!Recent
    <3> HIDE DEF latest
    <3>1. PICK i \in latest : s = <<judged[i].run, judged[i].finding>>
      BY DEF Lifecycle!About
    <3>2. s \in Lifecycle!Samples /\ Lifecycle!At(s) = i
      BY <1>2, <1>3, <3>1
    <3> QED BY <1>1, <3>1, <3>2
  <2> QED BY <2>1, <2>2
<1>5. sampledValid = Lifecycle!About(judgedValid)
  <2>1. ASSUME NEW s \in sampledValid PROVE s \in Lifecycle!About(judgedValid)
    <3>1. s \in Lifecycle!Samples /\ Lifecycle!At(s) \in latest
      BY <1>1, <1>3
    <3>2. /\ s = <<judged[Lifecycle!At(s)].run, judged[Lifecycle!At(s)].finding>>
          /\ judged[Lifecycle!At(s)].verdict = "valid"
      BY <3>1, MomentsStand
    <3>3. Lifecycle!At(s) \in judgedValid
      BY <3>1, <3>2
    <3> HIDE DEF judgedValid
    <3> QED BY <3>2, <3>3 DEF Lifecycle!About
  <2>2. ASSUME NEW s \in Lifecycle!About(judgedValid) PROVE s \in sampledValid
    <3>1. PICK i \in judgedValid : s = <<judged[i].run, judged[i].finding>>
      BY DEF Lifecycle!About
    <3>2. i \in latest /\ judged[i].verdict = "valid"
      BY <3>1
    <3> HIDE DEF latest, judgedValid
    <3>3. /\ s \in Lifecycle!Samples /\ Lifecycle!At(s) = i
          /\ judged[i].verdict = evaluation[s[1]][s[2]].verdict
      BY <1>2, <1>3, <3>1, <3>2
    <3>4. s \in Lifecycle!Recent
      BY <1>1, <3>2, <3>3
    <3> QED BY <3>2, <3>3, <3>4
  <2> QED BY <2>1, <2>2
<1>6. Lifecycle!Admitted <=> Lifecycle!Passes(Lifecycle!About(latest), Lifecycle!About(judgedValid))
  <2>1. Lifecycle!Admitted <=> Lifecycle!Passes(Lifecycle!Recent, sampledValid)
    BY DEF Lifecycle!Admitted
  <2> HIDE DEF latest, judgedValid, sampledValid
  <2> QED BY <1>4, <1>5, <2>1
<1>7. ShownStand
  BY DEF JudgedInv
<1> QED BY <1>6, <1>7 DEF JudgementsCount, Lifecycle!JudgementsCount, ShownStand

(* The gate of inline comments stands on what people decided last about      *)
(* formal reviews, whatever was delivered again, repeated or overtaken       *)
(* (review_finding, the samples of the gate).                                *)
THEOREM GateStandsOnJudgements == OutcomesSpec => []JudgementsCount
BY JudgedInit, JudgedSteps, JudgedImplies, PTL DEF OutcomesSpec

-----------------------------------------------------------------------------
(* Pages.  An open page of a sample or of an observation is fresh: a write   *)
(* that changes what it shows revises its record, and takes the page away.   *)

DatasetRow == [mode : Modes, archived : BOOLEAN]
PageRow == [of : Workbench!Records, fresh : BOOLEAN]

DatasetTyped ==
    /\ dataset \in DatasetRow \cup {None}
    /\ DOMAIN observation = Workbench!Variants
    /\ dataset = None => sample = None /\ \A v \in Workbench!Variants : observation[v] = None

PagesFresh ==
    /\ page \in [Members -> PageRow \cup {None}]
    /\ \A m \in Members : page[m] # None => /\ Workbench!Exists(page[m].of)
                                            /\ page[m].of # "dataset" => page[m].fresh

PageInv == DatasetTyped /\ PagesFresh

LEMMA DatasetIsSome == None \notin DatasetRow
  BY OutcomesAssumption DEF DatasetRow

LEMMA RecordNames ==
  /\ Workbench!Records = {"dataset", "case", "baseline", "candidate"}
  /\ Workbench!Variants = {"baseline", "candidate"}
BY DEF Workbench!Records, Workbench!Variants

\* Exactly the pages of records that neither change nor are revised stay.
LEMMA RevisedPages ==
  ASSUME PageInv, NEW m, NEW revised, Workbench!Revise(m, revised),
         \A of \in Workbench!Records \ revised :
            Workbench!Exists(of) => /\ Workbench!Exists(of)'
                                    /\ of # "dataset" => Workbench!Shown(of)' = Workbench!Shown(of)
  PROVE  PagesFresh'
<1> DEFINE changed == {of \in Workbench!Records : Workbench!Shown(of)' # Workbench!Shown(of)}
<1>1. page' = [n \in Members |->
                 IF n = m \/ page[n] = None THEN None
                 ELSE IF page[n].of \in revised THEN None
                 ELSE [page[n] EXCEPT !.fresh = @ /\ page[n].of \notin changed]]
  BY DEF Workbench!Revise
<1> HIDE DEF changed
<1>2. ASSUME NEW n \in Members, page'[n] # None
      PROVE  /\ page'[n] \in PageRow /\ page[n] # None /\ page'[n].of = page[n].of
             /\ page[n].of \notin revised /\ page[n] \in PageRow
             /\ page'[n].fresh <=> page[n].fresh /\ page[n].of \notin changed
  <2>1. /\ page[n] # None /\ page[n].of \notin revised
        /\ page'[n] = [page[n] EXCEPT !.fresh = @ /\ page[n].of \notin changed]
    BY <1>1, <1>2
  <2>2. page[n] \in PageRow
    BY <2>1 DEF PageInv, PagesFresh
  <2> QED BY <2>1, <2>2 DEF PageRow
<1>3. page' \in [Members -> PageRow \cup {None}]
  <2>1. \A n \in Members : page'[n] \in PageRow \cup {None}
    BY <1>2
  <2>2. page' = [n \in Members |-> page'[n]]
    BY <1>1
  <2> QED BY <2>1, <2>2
<1>4. ASSUME NEW n \in Members, page'[n] # None
      PROVE  (Workbench!Exists(page[n].of) /\ (page[n].of # "dataset" => page[n].fresh))'
  <2>1. PICK of \in Workbench!Records \ revised :
           /\ of = page[n].of /\ of = page'[n].of /\ Workbench!Exists(of)
           /\ of # "dataset" => page[n].fresh
    BY <1>2, <1>4 DEF PageInv, PagesFresh, PageRow
  <2>2. /\ Workbench!Exists(of)'
        /\ of # "dataset" => Workbench!Shown(of)' = Workbench!Shown(of)
    BY <2>1
  <2>3. of # "dataset" => of \notin changed
    BY <2>2 DEF changed
  <2>4. of # "dataset" => page'[n].fresh
    BY <1>2, <1>4, <2>1, <2>3
  <2>5. Workbench!Exists(page[n].of)'
    BY <2>1, <2>2 DEF Workbench!Exists
  <2> QED BY <2>1, <2>4, <2>5
<1> QED BY <1>3, <1>4 DEF PagesFresh

LEMMA PageInit == OutcomesInit => PageInv
<1> SUFFICES ASSUME OutcomesInit PROVE PageInv
  OBVIOUS
<1>1. /\ dataset = None /\ sample = None /\ observation = [v \in Workbench!Variants |-> None]
      /\ page = [m \in Members |-> None]
  BY DEF OutcomesInit, Workbench!EvaluationInit
<1> QED BY <1>1 DEF PageInv, DatasetTyped, PagesFresh

\* The state of the records is all that pages depend on.
LEMMA PagesStay ==
  ASSUME PageInv, UNCHANGED <<dataset, sample, observation, page>>
  PROVE  PageInv'
BY DEF PageInv, DatasetTyped, PagesFresh, Workbench!Exists

LEMMA PagesOpen ==
  ASSUME PageInv, NEW m \in Members,
         (\E of \in Workbench!Records : Workbench!Open(m, of)) \/ Workbench!Close(m)
  PROVE  PageInv'
<1>1. UNCHANGED <<dataset, sample, observation>>
  BY DEF Workbench!Open, Workbench!Close
<1>2. DatasetTyped'
  BY <1>1 DEF PageInv, DatasetTyped
<1>3. \A of : Workbench!Exists(of)' <=> Workbench!Exists(of)
  BY <1>1 DEF Workbench!Exists
<1>4. CASE \E of \in Workbench!Records : Workbench!Open(m, of)
  <2>1. PICK of \in Workbench!Records : Workbench!Open(m, of)
    BY <1>4
  <2>2. /\ Workbench!Exists(of)
        /\ page' = [page EXCEPT ![m] = [of |-> of, fresh |-> TRUE]]
    BY <2>1 DEF Workbench!Open
  <2> DEFINE new == [of |-> of, fresh |-> TRUE]
  <2>3. new \in PageRow /\ new.of = of /\ new.fresh
    BY DEF PageRow
  <2> HIDE DEF new
  <2>4. page' \in [Members -> PageRow \cup {None}]
    BY <2>2, <2>3 DEF PageInv, PagesFresh, new
  <2>5. ASSUME NEW n \in Members, page'[n] # None
        PROVE  (Workbench!Exists(page[n].of) /\ (page[n].of # "dataset" => page[n].fresh))'
    <3>1. CASE n = m
      <4>1. page'[n] = new
        BY <2>2, <3>1 DEF PageInv, PagesFresh, new
      <4> QED BY <1>3, <2>2, <2>3, <4>1 DEF Workbench!Exists
    <3>2. CASE n # m
      <4>1. page'[n] = page[n]
        BY <2>2, <3>2 DEF PageInv, PagesFresh
      <4> QED BY <1>1, <2>5, <4>1 DEF PageInv, PagesFresh, Workbench!Exists
    <3> QED BY <3>1, <3>2
  <2> QED BY <1>2, <2>4, <2>5 DEF PageInv, PagesFresh
<1>5. CASE Workbench!Close(m)
  <2>1. page' = [page EXCEPT ![m] = None]
    BY <1>5 DEF Workbench!Close
  <2> QED BY <1>1, <1>2, <2>1 DEF PageInv, PagesFresh, Workbench!Exists
<1> QED BY <1>4, <1>5

LEMMA PagesImport ==
  ASSUME PageInv, NEW m \in Members, NEW v \in Workbench!Variants, NEW r \in Sampled,
         \/ \E mode \in Modes : Workbench!CreateDataset(m, mode, v, r)
         \/ Workbench!ImportObservation(m, v, r)
  PROVE  PageInv'
<1> DEFINE captured == Workbench!Captured(r)
<1> HIDE DEF captured
<1>1. CASE \E mode \in Modes : Workbench!CreateDataset(m, mode, v, r)
  <2>1. PICK mode \in Modes : Workbench!CreateDataset(m, mode, v, r)
    BY <1>1
  <2>2. /\ dataset = None /\ dataset' = [mode |-> mode, archived |-> FALSE]
        /\ observation' = [observation EXCEPT ![v] = captured]
        /\ Workbench!Revise(m, {"dataset"})
    BY <2>1 DEF Workbench!CreateDataset, captured
  <2>3. dataset' \in DatasetRow /\ dataset' # None
    <3>1. [mode |-> mode, archived |-> FALSE] \in DatasetRow
      BY DEF DatasetRow
    <3> QED BY <2>2, <3>1, DatasetIsSome
  <2>4. DatasetTyped'
    BY <2>2, <2>3 DEF PageInv, DatasetTyped
  <2>5. \A of \in Workbench!Records : ~Workbench!Exists(of)
    BY <2>2 DEF PageInv, DatasetTyped, Workbench!Exists, Workbench!Records
  <2>6. PagesFresh'
    BY <2>2, <2>5, RevisedPages
  <2> QED BY <2>4, <2>6 DEF PageInv
<1>2. CASE Workbench!ImportObservation(m, v, r)
  <2>1. /\ dataset # None /\ UNCHANGED <<dataset, sample>> /\ observation[v] = None
        /\ observation' = [observation EXCEPT ![v] = captured]
        /\ Workbench!Revise(m, {"dataset", "case"})
    BY <1>2 DEF Workbench!ImportObservation, captured
  <2>2. DatasetTyped'
    BY <2>1 DEF PageInv, DatasetTyped
  <2>3. ASSUME NEW of \in Workbench!Records \ {"dataset", "case"}, Workbench!Exists(of)
        PROVE  Workbench!Exists(of)' /\ Workbench!Shown(of)' = Workbench!Shown(of)
    <3>1. of \in Workbench!Variants /\ of # v /\ observation[of] # None
      BY <2>1, <2>3, RecordNames DEF Workbench!Exists
    <3>2. observation'[of] = observation[of]
      BY <2>1, <3>1 DEF PageInv, DatasetTyped
    <3> QED BY <3>1, <3>2, RecordNames DEF Workbench!Exists, Workbench!Shown
  <2>4. PagesFresh'
    BY <2>1, <2>3, RevisedPages
  <2> QED BY <2>2, <2>4 DEF PageInv
<1> QED BY <1>1, <1>2

LEMMA PagesArchive ==
  ASSUME PageInv, NEW m \in Members, Workbench!Archive(m)
  PROVE  PageInv'
<1>1. /\ Workbench!Holds(m, "dataset") /\ UNCHANGED <<sample, observation>>
      /\ dataset' = [dataset EXCEPT !.archived = ~@]
      /\ Workbench!Revise(m, {"dataset"})
  BY DEF Workbench!Archive
<1>2. dataset # None
  BY <1>1 DEF Workbench!Holds, PageInv, PagesFresh, Workbench!Exists, DatasetTyped, PageRow, Workbench!Records
<1>3. dataset' \in DatasetRow /\ dataset' # None
  <2>1. dataset \in DatasetRow
    BY <1>2 DEF PageInv, DatasetTyped
  <2>2. dataset' \in DatasetRow
    BY <1>1, <2>1 DEF DatasetRow
  <2> QED BY <2>2, DatasetIsSome
<1>4. DatasetTyped'
  BY <1>1, <1>3 DEF PageInv, DatasetTyped
<1>5. ASSUME NEW of \in Workbench!Records \ {"dataset"}, Workbench!Exists(of)
      PROVE  Workbench!Exists(of)' /\ Workbench!Shown(of)' = Workbench!Shown(of)
  BY <1>1, <1>5 DEF Workbench!Exists, Workbench!Shown, Workbench!Records
<1>6. PagesFresh'
  BY <1>1, <1>5, RevisedPages
<1> QED BY <1>4, <1>6 DEF PageInv

\* A write to the observation of a variant, or to all observations.
LEMMA PagesWrite ==
  ASSUME PageInv, NEW m \in Members, NEW v \in Workbench!Variants, dataset' = dataset,
         dataset # None, DOMAIN observation' = Workbench!Variants,
         \A w \in Workbench!Variants : w # v => observation'[w] = observation[w],
         NEW revised, {v, "case"} \subseteq revised, Workbench!Revise(m, revised)
  PROVE  PageInv'
<1>1. DatasetTyped'
  BY DEF PageInv, DatasetTyped
<1>2. ASSUME NEW of \in Workbench!Records \ revised, Workbench!Exists(of)
      PROVE  Workbench!Exists(of)' /\ (of # "dataset" => Workbench!Shown(of)' = Workbench!Shown(of))
  <2>1. CASE of = "dataset"
    BY <2>1 DEF Workbench!Exists
  <2>2. CASE of # "dataset"
    <3>1. of \in Workbench!Variants /\ of # v
      BY <2>2, RecordNames
    <3>2. observation'[of] = observation[of]
      BY <3>1
    <3> QED BY <1>2, <3>1, <3>2, RecordNames DEF Workbench!Exists, Workbench!Shown
  <2> QED BY <2>1, <2>2
<1>3. PagesFresh'
  BY <1>2, RevisedPages
<1> QED BY <1>1, <1>3 DEF PageInv

LEMMA PagesJudge ==
  ASSUME PageInv, NEW m \in Members, Workbench!Judge(m)
  PROVE  PageInv'
<1>1. CASE \E references \in {None} \union SUBSET Defects, reset \in BOOLEAN :
              Workbench!UpdateReference(m, references, reset)
  <2>1. /\ Workbench!Writable(m, "case") /\ dataset' = dataset
        /\ observation' = [v \in Workbench!Variants |->
                             IF observation[v] = None THEN None
                             ELSE [observation[v] EXCEPT !.ballots = <<>>, !.latest = 0,
                                     !.counts = Workbench!Zero, !.status = "pending"]]
        /\ Workbench!Revise(m, {"case"} \union Workbench!Variants)
    BY <1>1 DEF Workbench!UpdateReference
  <2>2. dataset # None
    BY <2>1 DEF Workbench!Writable, Workbench!Holds, PageInv, PagesFresh, DatasetTyped, Workbench!Exists
  <2>3. DatasetTyped'
    BY <2>1, <2>2 DEF PageInv, DatasetTyped
  <2>4. ASSUME NEW of \in Workbench!Records \ ({"case"} \union Workbench!Variants), Workbench!Exists(of)
        PROVE  Workbench!Exists(of)' /\ (of # "dataset" => Workbench!Shown(of)' = Workbench!Shown(of))
    <3>1. of = "dataset"
      BY RecordNames
    <3> QED BY <2>1, <2>2, <3>1 DEF Workbench!Exists
  <2>5. PagesFresh'
    BY <2>1, <2>4, RevisedPages
  <2> QED BY <2>3, <2>5 DEF PageInv
<1>2. CASE \E agrees \in BOOLEAN : Workbench!ReviewReference(m, agrees)
  <2>1. /\ Workbench!Writable(m, "case") /\ UNCHANGED <<dataset, observation>>
        /\ Workbench!Revise(m, {"case"})
    BY <1>2 DEF Workbench!ReviewReference
  <2>2. dataset # None
    BY <2>1 DEF Workbench!Writable, Workbench!Holds, PageInv, PagesFresh, DatasetTyped, Workbench!Exists
  <2>3. DatasetTyped'
    BY <2>1, <2>2 DEF PageInv, DatasetTyped
  <2>4. ASSUME NEW of \in Workbench!Records \ {"case"}, Workbench!Exists(of)
        PROVE  Workbench!Exists(of)' /\ (of # "dataset" => Workbench!Shown(of)' = Workbench!Shown(of))
    BY <2>1, <2>4, RecordNames DEF Workbench!Exists, Workbench!Shown
  <2>5. PagesFresh'
    BY <2>1, <2>4, RevisedPages
  <2> QED BY <2>3, <2>5 DEF PageInv
<1>3. ASSUME NEW v \in Workbench!Variants, Workbench!SubmitReview(m, v)
      PROVE  PageInv'
  <2>1. PICK i, ballot : Workbench!Writable(m, v) /\ Workbench!SaveBallot(m, v, i, ballot)
    BY <1>3 DEF Workbench!SubmitReview
  <2>2. dataset # None
    BY <2>1, RecordNames DEF Workbench!Writable, Workbench!Holds, PageInv, PagesFresh, DatasetTyped, Workbench!Exists
  <2>3. /\ dataset' = dataset /\ Workbench!Revise(m, {v, "case"})
        /\ DOMAIN observation' = Workbench!Variants
        /\ \A w \in Workbench!Variants : w # v => observation'[w] = observation[w]
    BY <2>1 DEF Workbench!SaveBallot, Workbench!RevisedBy, PageInv, DatasetTyped
  <2> QED BY <2>2, <2>3, PagesWrite
<1>4. ASSUME NEW v \in Workbench!Variants, NEW r \in Sampled, NEW reset \in BOOLEAN,
             Workbench!ReplaceObservation(m, v, r, reset)
      PROVE  PageInv'
  <2>1. /\ Workbench!Writable(m, v) /\ dataset' = dataset /\ Workbench!Revise(m, {v, "case"})
        /\ observation' = [observation EXCEPT ![v] = Workbench!Captured(r)]
    BY <1>4 DEF Workbench!ReplaceObservation
  <2>2. dataset # None
    BY <2>1, RecordNames DEF Workbench!Writable, Workbench!Holds, PageInv, PagesFresh, DatasetTyped, Workbench!Exists
  <2>3. /\ DOMAIN observation' = Workbench!Variants
        /\ \A w \in Workbench!Variants : w # v => observation'[w] = observation[w]
    BY <2>1 DEF PageInv, DatasetTyped
  <2> QED BY <2>1, <2>2, <2>3, PagesWrite
<1>5. ASSUME NEW v \in Workbench!Variants, NEW f \in Workbench!Found, NEW d \in Decisions,
             Workbench!ReviewFinding(m, v, f, d)
      PROVE  PageInv'
  <2>1. PICK i, ballot : Workbench!Writable(m, v) /\ Workbench!SaveBallot(m, v, i, ballot)
    BY <1>5 DEF Workbench!ReviewFinding
  <2>2. dataset # None
    BY <2>1, RecordNames DEF Workbench!Writable, Workbench!Holds, PageInv, PagesFresh, DatasetTyped, Workbench!Exists
  <2>3. /\ dataset' = dataset /\ Workbench!Revise(m, {v, "case"})
        /\ DOMAIN observation' = Workbench!Variants
        /\ \A w \in Workbench!Variants : w # v => observation'[w] = observation[w]
    BY <2>1 DEF Workbench!SaveBallot, Workbench!RevisedBy, PageInv, DatasetTyped
  <2> QED BY <2>2, <2>3, PagesWrite
<1> QED BY <1>1, <1>2, <1>3, <1>4, <1>5 DEF Workbench!Judge

LEMMA PageSteps == PageInv /\ [OutcomesNext]_outcomeVars => PageInv'
<1> SUFFICES ASSUME PageInv, [OutcomesNext]_outcomeVars PROVE PageInv'
  OBVIOUS
<1>1. CASE UNCHANGED workbenchVars
  BY <1>1, PagesStay DEF workbenchVars
<1>2. CASE \E r \in Sampled : Workbench!Retry(r) \/ Workbench!Complete(r)
  BY <1>2, PagesStay DEF Workbench!Retry, Workbench!Complete
<1>3. ASSUME NEW m \in Members,
             (\E of \in Workbench!Records : Workbench!Open(m, of)) \/ Workbench!Close(m)
      PROVE  PageInv'
  BY <1>3, PagesOpen
<1>4. ASSUME NEW m \in Members, NEW v \in Workbench!Variants, NEW r \in Sampled,
             \/ \E mode \in Modes : Workbench!CreateDataset(m, mode, v, r)
             \/ Workbench!ImportObservation(m, v, r)
      PROVE  PageInv'
  BY <1>4, PagesImport
<1>5. ASSUME NEW m \in Members, Workbench!Archive(m) \/ Workbench!Judge(m)
      PROVE  PageInv'
  BY <1>5, PagesArchive, PagesJudge
<1> QED BY <1>1, <1>2, <1>3, <1>4, <1>5
        DEF OutcomesNext, FindingStep, WorkbenchStep, outcomeVars, Workbench!EvaluationNext

\* A page that a judgement, a confirmation or a replacement is written from
\* is one of the sample or of an observation.
LEMMA JudgesFresh ==
  ASSUME PageInv, NEW m \in Members, page[m] # None, ~page[m].fresh
  PROVE  ~Workbench!Judge(m)
<1>1. page[m].of = "dataset"
  BY DEF PageInv, PagesFresh
<1>2. \A of \in {"case"} \cup Workbench!Variants : ~Workbench!Writable(m, of)
  BY <1>1, RecordNames DEF Workbench!Writable, Workbench!Holds
<1> QED BY <1>2 DEF Workbench!Judge, Workbench!UpdateReference, Workbench!ReviewReference,
                    Workbench!SubmitReview, Workbench!ReplaceObservation, Workbench!ReviewFinding

(* What is saved was decided on what stands: no write is accepted from a     *)
(* page that no longer shows the record (the revision checks of the          *)
(* evaluation service).                                                      *)
THEOREM SavedOnFreshPages == OutcomesSpec => SavedAsRead
<1>1. PageInv => [\A m \in Members : page[m] # None /\ ~page[m].fresh => ~Workbench!Judge(m)]_workbenchVars
  BY JudgesFresh
<1> QED BY <1>1, PageInit, PageSteps, PTL
        DEF OutcomesSpec, SavedAsRead, Workbench!SavedAsRead, Workbench!evaluationVars, workbenchVars

-----------------------------------------------------------------------------
(* The report.  What an observation says of its ballots was computed from    *)
(* the ballots and the references that stand, and a status of the references *)
(* from the reviews that stand; in dual mode nobody sees another's verdicts  *)
(* before the own.                                                           *)

Fields == {"run", "findings", "whole", "ballots", "latest", "counts", "status"}
LeftOf(o, mode) == Workbench!Left(o.ballots, mode, o.latest)
RightOf(o, mode) == Workbench!Right(o.ballots, mode, o.latest)
CountsOf(o, references, mode) ==
    Workbench!Counts(o.findings, LeftOf(o, mode), RightOf(o, mode), references, mode)

ObservationGood(o, references, mode) ==
    /\ DOMAIN o = Fields
    /\ IsFiniteSet(o.findings)
    /\ o.status = "complete" =>
         /\ Workbench!Settled(o.ballots, mode)
         /\ o.counts = CountsOf(o, references, mode)
         /\ mode = "single" => LeftOf(o, mode).submitted

ReviewRows == [by : Members, agrees : BOOLEAN]

SampleGood(s, mode) ==
    /\ DOMAIN s = {"references", "reviews", "latest", "status"}
    /\ s.references = None \/ s.references \in SUBSET Defects
    /\ s.references = None => s.reviews = <<>>
    /\ s.reviews \in Seq(ReviewRows)
    /\ \A i, j \in 1..Len(s.reviews) : s.reviews[i].by = s.reviews[j].by => i = j
    /\ s.status = Workbench!ReferenceStatus(s.reviews, s.latest, mode)

OutcomeTyped ==
    /\ outcome \in [Sampled -> [number : Nat, done : BOOLEAN]]
    /\ \A r \in Sampled : outcome[r].number \in 1..Len(Results[r])

ReportGood ==
    /\ dataset # None => SampleGood(sample, dataset.mode)
    /\ \A v \in Workbench!Variants : observation[v] # None =>
          ObservationGood(observation[v], Workbench!References, dataset.mode)
    /\ DOMAIN informed = Workbench!Variants
    /\ dataset = None \/ dataset.mode = "dual" => \A v \in Workbench!Variants : informed[v] = {}

ReportInv == PageInv /\ OutcomeTyped /\ ReportGood

LEMMA ReportInit == OutcomesInit => ReportInv
<1> SUFFICES ASSUME OutcomesInit PROVE ReportInv
  OBVIOUS
<1>1. /\ dataset = None
      /\ observation = [v \in Workbench!Variants |-> None]
      /\ outcome = [r \in Sampled |-> [number |-> 1, done |-> TRUE]]
      /\ informed = [v \in Workbench!Variants |-> {}]
  BY DEF OutcomesInit, Workbench!EvaluationInit
<1>2. OutcomeTyped
  <2>1. [number |-> 1, done |-> TRUE] \in [number : Nat, done : BOOLEAN]
    OBVIOUS
  <2>2. [number |-> 1, done |-> TRUE].number = 1
    OBVIOUS
  <2>3. outcome \in [Sampled -> [number : Nat, done : BOOLEAN]]
    BY <1>1, <2>1
  <2>4. \A r \in Sampled : outcome[r].number = 1 /\ Len(Results[r]) \in Nat \ {0}
    BY <1>1, <2>2, OutcomesAssumption
  <2>5. \A r \in Sampled : outcome[r].number \in 1..Len(Results[r])
    BY <2>4
  <2> QED BY <2>3, <2>5 DEF OutcomeTyped
<1> QED BY <1>1, <1>2, PageInit DEF ReportInv, ReportGood

LEMMA CapturedGood ==
  ASSUME OutcomeTyped, NEW r \in Sampled, NEW references, NEW mode
  PROVE  ObservationGood(Workbench!Captured(r), references, mode)
<1> DEFINE o == Workbench!Captured(r)
           findings0 == Results[r][outcome[r].number]
           whole == r \in Independent
<1>1. o = [run |-> r, findings |-> findings0, whole |-> whole,
           ballots |-> <<>>, latest |-> 0, counts |-> Workbench!Zero, status |-> "pending"]
  BY DEF Workbench!Captured
<1>2. IsFiniteSet(findings0)
  BY OutcomesAssumption DEF OutcomeTyped
<1> HIDE DEF o, findings0, whole
<1>3. DOMAIN o = Fields /\ o.findings = findings0 /\ o.status = "pending"
  BY <1>1 DEF Fields
<1> QED BY <1>2, <1>3 DEF ObservationGood, o

\* The status of an assessment agrees with its counts.
LEMMA AssessedGood ==
  ASSUME NEW o, DOMAIN o = Fields, IsFiniteSet(o.findings), NEW ballots, NEW latest,
         NEW references, NEW mode
  PROVE  ObservationGood(Workbench!Assessed(o, ballots, latest, references, mode), references, mode)
<1> DEFINE p == Workbench!Assessed(o, ballots, latest, references, mode)
           l == Workbench!Left(ballots, mode, latest)
           counts == Workbench!Counts(o.findings, l, Workbench!Right(ballots, mode, latest), references, mode)
<1>1. CASE ~Workbench!Settled(ballots, mode)
  <2>1. p = [o EXCEPT !.ballots = ballots, !.latest = latest, !.counts = Workbench!Zero, !.status = "partial"]
    BY <1>1 DEF Workbench!Assessed
  <2> HIDE DEF p
  <2>2. DOMAIN p = Fields /\ p.findings = o.findings /\ p.status = "partial"
    BY <2>1 DEF Fields
  <2> QED BY <2>2 DEF ObservationGood, p
<1>2. CASE Workbench!Settled(ballots, mode)
  <2> DEFINE whole == IF mode = "single" THEN l.submitted
                      ELSE counts.adjudicated = Workbench!Cardinality(o.findings)
             status == IF mode # "single" /\ counts.disagreement > 0 THEN "disputed"
                       ELSE IF whole THEN "complete" ELSE "partial"
  <2>0. mode = "single" /\ status = "complete" => l.submitted
    OBVIOUS
  <2>1. p = [o EXCEPT !.ballots = ballots, !.latest = latest, !.counts = counts, !.status = status]
    BY <1>2 DEF Workbench!Assessed
  <2> HIDE DEF p, counts, l, status
  <2>2. /\ DOMAIN p = Fields /\ p.findings = o.findings /\ p.status = status
        /\ p.ballots = ballots /\ p.latest = latest /\ p.counts = counts
    BY <2>1 DEF Fields
  <2>3. LeftOf(p, mode) = l /\ CountsOf(p, references, mode) = counts
    BY <2>2 DEF LeftOf, RightOf, CountsOf, l, counts
  <2> QED BY <1>2, <2>0, <2>2, <2>3 DEF ObservationGood, p
<1> QED BY <1>1, <1>2

\* A write that revises the observation of one variant, all else being kept.
LEMMA ReportWrite ==
  ASSUME ReportInv, NEW v \in Workbench!Variants, dataset # None,
         UNCHANGED <<dataset, sample, outcome>>,
         \A w \in Workbench!Variants : w # v => observation'[w] = observation[w],
         NEW o, observation'[v] = o, ObservationGood(o, Workbench!References, dataset.mode),
         informed' = informed \/ informed' = [informed EXCEPT ![v] = {}]
  PROVE  OutcomeTyped' /\ ReportGood'
<1>1. OutcomeTyped'
  BY DEF ReportInv, OutcomeTyped
<1>2. Workbench!References' = Workbench!References /\ dataset'.mode = dataset.mode
  BY DEF Workbench!References
<1>3. (dataset # None => SampleGood(sample, dataset.mode))'
  BY DEF ReportInv, ReportGood, SampleGood
<1>4. ASSUME NEW w \in Workbench!Variants, observation'[w] # None
      PROVE  ObservationGood(observation'[w], Workbench!References, dataset.mode)
  BY <1>4 DEF ReportInv, ReportGood
<1>5. \A w \in Workbench!Variants : observation'[w] # None =>
         ObservationGood(observation'[w], Workbench!References', dataset'.mode)
  BY <1>2, <1>4
<1>6. /\ DOMAIN informed' = Workbench!Variants
      /\ dataset.mode = "dual" => \A w \in Workbench!Variants : informed'[w] = {}
  BY DEF ReportInv, ReportGood
<1> QED BY <1>1, <1>3, <1>5, <1>6 DEF ReportGood

LEMMA ReportOpen ==
  ASSUME ReportInv, NEW m \in Members,
         (\E of \in Workbench!Records : Workbench!Open(m, of)) \/ Workbench!Close(m)
  PROVE  OutcomeTyped' /\ ReportGood'
<1>1. UNCHANGED <<dataset, sample, observation, outcome>>
  BY DEF Workbench!Open, Workbench!Close
<1>2. OutcomeTyped' /\ (dataset # None => SampleGood(sample, dataset.mode))'
  BY <1>1 DEF ReportInv, ReportGood, OutcomeTyped, SampleGood
<1>3. (\A v \in Workbench!Variants : observation[v] # None =>
          ObservationGood(observation[v], Workbench!References, dataset.mode))'
  BY <1>1 DEF ReportInv, ReportGood, ObservationGood, Workbench!References
<1>4. CASE Workbench!Close(m)
  BY <1>1, <1>2, <1>3, <1>4 DEF Workbench!Close, ReportInv, ReportGood
<1>5. CASE \E of \in Workbench!Records : Workbench!Open(m, of)
  <2>1. PICK of \in Workbench!Records : Workbench!Open(m, of)
    BY <1>5
  <2> DEFINE own(v) == {i \in Workbench!ByMember(observation[v].ballots, m) : observation[v].ballots[i].first}
             sees(v) == \E i \in Workbench!VisibleBallots(v, m) : observation[v].ballots[i].by # m
  <2>2. /\ Workbench!Exists(of)
        /\ informed' = [v \in Workbench!Variants |->
                          IF of = v /\ sees(v) /\ own(v) = {} THEN informed[v] \cup {m} ELSE informed[v]]
    BY <2>1 DEF Workbench!Open
  <2>3. ASSUME NEW v \in Workbench!Variants, dataset = None \/ dataset.mode = "dual", of = v, own(v) = {}
        PROVE  ~sees(v)
    <3>1. dataset # None
      BY <2>2, <2>3, RecordNames DEF Workbench!Exists, ReportInv, PageInv, DatasetTyped
    <3>2. Workbench!VisibleBallots(v, m) = Workbench!ByMember(observation[v].ballots, m)
      BY <2>3, <3>1 DEF Workbench!VisibleBallots
    <3> QED BY <3>2 DEF Workbench!ByMember
  <2>4. ASSUME NEW v \in Workbench!Variants, dataset = None \/ dataset.mode = "dual"
        PROVE  informed'[v] = {}
    <3>1. informed[v] = {} /\ informed'[v] = informed[v]
      <4> HIDE DEF own, sees
      <4> QED BY <2>2, <2>3, <2>4 DEF ReportInv, ReportGood
    <3> QED BY <3>1
  <2> HIDE DEF own, sees
  <2>5. DOMAIN informed' = Workbench!Variants
    BY <2>2
  <2> QED BY <1>1, <1>2, <1>3, <2>4, <2>5 DEF ReportGood
<1> QED BY <1>4, <1>5

LEMMA ReportImport ==
  ASSUME ReportInv, NEW m \in Members, NEW v \in Workbench!Variants, NEW r \in Sampled,
         \/ \E mode \in Modes : Workbench!CreateDataset(m, mode, v, r)
         \/ Workbench!ImportObservation(m, v, r)
  PROVE  OutcomeTyped' /\ ReportGood'
<1> DEFINE captured == Workbench!Captured(r)
<1>1. \A references, mode : ObservationGood(captured, references, mode)
  BY CapturedGood DEF ReportInv
<1> HIDE DEF captured
<1>2. CASE \E mode \in Modes : Workbench!CreateDataset(m, mode, v, r)
  <2>1. PICK mode \in Modes : Workbench!CreateDataset(m, mode, v, r)
    BY <1>2
  <2>2. /\ dataset = None /\ UNCHANGED <<outcome, informed>> /\ sample' = Workbench!NewSample
        /\ observation' = [observation EXCEPT ![v] = captured]
    BY <2>1 DEF Workbench!CreateDataset, captured
  <2>3. OutcomeTyped'
    BY <2>2 DEF ReportInv, OutcomeTyped
  <2>4. \A any : SampleGood(Workbench!NewSample, any)
    BY DEF SampleGood, Workbench!NewSample, Workbench!ReferenceStatus
  <2>5. \A w \in Workbench!Variants : observation'[w] # None => observation'[w] = captured
    BY <2>2 DEF ReportInv, PageInv, DatasetTyped
  <2>6. DOMAIN informed' = Workbench!Variants /\ \A w \in Workbench!Variants : informed'[w] = {}
    BY <2>2 DEF ReportInv, ReportGood
  <2> QED BY <1>1, <2>2, <2>3, <2>4, <2>5, <2>6 DEF ReportGood
<1>3. CASE Workbench!ImportObservation(m, v, r)
  <2>1. /\ dataset # None /\ UNCHANGED <<dataset, sample, outcome, informed>>
        /\ observation' = [observation EXCEPT ![v] = captured]
    BY <1>3 DEF Workbench!ImportObservation, captured
  <2>2. observation'[v] = captured /\ \A w \in Workbench!Variants : w # v => observation'[w] = observation[w]
    BY <2>1 DEF ReportInv, PageInv, DatasetTyped
  <2> QED BY <1>1, <2>1, <2>2, ReportWrite
<1> QED BY <1>2, <1>3

LEMMA ReportArchive ==
  ASSUME ReportInv, NEW m \in Members, Workbench!Archive(m)
  PROVE  OutcomeTyped' /\ ReportGood'
<1>1. /\ Workbench!Holds(m, "dataset") /\ UNCHANGED <<sample, observation, outcome, informed>>
      /\ dataset' = [dataset EXCEPT !.archived = ~@]
  BY DEF Workbench!Archive
<1>2. dataset # None
  BY <1>1 DEF Workbench!Holds, ReportInv, PageInv, PagesFresh, Workbench!Exists, DatasetTyped, PageRow, Workbench!Records
<1>3. dataset'.mode = dataset.mode /\ Workbench!References' = Workbench!References
  <2>1. dataset \in DatasetRow
    BY <1>2 DEF ReportInv, PageInv, DatasetTyped
  <2> QED BY <1>1, <2>1 DEF DatasetRow, Workbench!References
<1>4. OutcomeTyped'
  BY <1>1 DEF ReportInv, OutcomeTyped
<1>5. SampleGood(sample', dataset'.mode)
  BY <1>1, <1>2, <1>3 DEF ReportInv, ReportGood
<1>6. \A w \in Workbench!Variants : observation'[w] # None =>
         ObservationGood(observation'[w], Workbench!References', dataset'.mode)
  BY <1>1, <1>3 DEF ReportInv, ReportGood
<1>7. /\ DOMAIN informed' = Workbench!Variants
      /\ dataset'.mode = "dual" => \A w \in Workbench!Variants : informed'[w] = {}
  BY <1>1, <1>3 DEF ReportInv, ReportGood
<1>8. dataset' # None
  BY <1>2, PagesArchive, <1>1, DatasetIsSome DEF ReportInv, PageInv, DatasetTyped, DatasetRow
<1> QED BY <1>4, <1>5, <1>6, <1>7, <1>8 DEF ReportGood

\* The row of a member is replaced, or the first of the member is appended.
LEMMA ReviewPut ==
  ASSUME NEW rows \in Seq(ReviewRows), NEW m \in Members, NEW agrees \in BOOLEAN,
         \A i, j \in 1..Len(rows) : rows[i].by = rows[j].by => i = j,
         NEW i \in Workbench!Place(rows, m)
  PROVE  LET put == Workbench!Put(rows, i, [by |-> m, agrees |-> agrees])
         IN  /\ put \in Seq(ReviewRows)
             /\ \A j, k \in 1..Len(put) : put[j].by = put[k].by => j = k
<1> DEFINE row == [by |-> m, agrees |-> agrees]
           put == Workbench!Put(rows, i, row)
<1>1. row \in ReviewRows /\ row.by = m
  BY DEF ReviewRows
<1> HIDE DEF row
<1>2. CASE Workbench!ByMember(rows, m) # {}
  <2>1. i \in 1..Len(rows) /\ rows[i].by = m
    BY <1>2 DEF Workbench!Place, Workbench!ByMember
  <2>2. put = [rows EXCEPT ![i] = row]
    BY <2>1 DEF Workbench!Put
  <2> HIDE DEF put
  <2>3. put \in Seq(ReviewRows) /\ Len(put) = Len(rows)
    BY <1>1, <2>1, <2>2
  <2>4. \A j \in 1..Len(rows) : put[j].by = rows[j].by
    BY <1>1, <2>1, <2>2
  <2>5. \A j, k \in 1..Len(put) : put[j].by = put[k].by => j = k
    BY <2>3, <2>4
  <2> QED BY <2>3, <2>5 DEF put, row
<1>3. CASE Workbench!ByMember(rows, m) = {}
  <2>1. i = Len(rows) + 1 /\ \A j \in 1..Len(rows) : rows[j].by # m
    BY <1>3 DEF Workbench!Place, Workbench!ByMember
  <2>2. put = Append(rows, row)
    BY <2>1 DEF Workbench!Put
  <2> HIDE DEF put
  <2>3. put \in Seq(ReviewRows) /\ Len(put) = Len(rows) + 1
    BY <1>1, <2>2
  <2>4. put[Len(rows) + 1].by = m /\ \A j \in 1..Len(rows) : put[j].by = rows[j].by
    BY <1>1, <2>2
  <2>5. \A j, k \in 1..Len(put) : put[j].by = put[k].by => j = k
    BY <2>1, <2>3, <2>4
  <2> QED BY <2>3, <2>5 DEF put, row
<1> QED BY <1>2, <1>3

LEMMA ReportReference ==
  ASSUME ReportInv, NEW m \in Members, NEW agrees \in BOOLEAN,
         Workbench!ReviewReference(m, agrees)
  PROVE  OutcomeTyped' /\ ReportGood'
<1>1. /\ Workbench!Writable(m, "case") /\ sample.references # None
      /\ UNCHANGED <<dataset, observation, outcome, informed>>
  BY DEF Workbench!ReviewReference
<1>2. dataset # None
  BY <1>1 DEF Workbench!Writable, Workbench!Holds, ReportInv, PageInv, PagesFresh, DatasetTyped, Workbench!Exists
<1>3. PICK i \in Workbench!Place(sample.reviews, m) :
         sample' = [sample EXCEPT !.reviews = Workbench!Put(sample.reviews, i, [by |-> m, agrees |-> agrees]),
                                  !.latest = i,
                                  !.status = Workbench!ReferenceStatus(
                                      Workbench!Put(sample.reviews, i, [by |-> m, agrees |-> agrees]),
                                      i, dataset.mode)]
  BY DEF Workbench!ReviewReference
<1> DEFINE put == Workbench!Put(sample.reviews, i, [by |-> m, agrees |-> agrees])
           status == Workbench!ReferenceStatus(put, i, dataset.mode)
<1>4. SampleGood(sample, dataset.mode)
  BY <1>2 DEF ReportInv, ReportGood
<1>5. put \in Seq(ReviewRows) /\ \A j, k \in 1..Len(put) : put[j].by = put[k].by => j = k
  BY <1>4, ReviewPut DEF SampleGood
<1>6. sample' = [sample EXCEPT !.reviews = put, !.latest = i, !.status = status]
  BY <1>3
<1>7. status = Workbench!ReferenceStatus(put, i, dataset.mode)
  OBVIOUS
<1> HIDE DEF put, status
<1>8. /\ DOMAIN sample' = {"references", "reviews", "latest", "status"}
      /\ sample'.references = sample.references /\ sample'.reviews = put
      /\ sample'.latest = i /\ sample'.status = status
  BY <1>4, <1>6 DEF SampleGood
<1>9. SampleGood(sample', dataset'.mode)
  BY <1>1, <1>4, <1>5, <1>7, <1>8 DEF SampleGood
<1>10. Workbench!References' = Workbench!References
  BY <1>8 DEF Workbench!References
<1>11. OutcomeTyped' /\ (DOMAIN informed = Workbench!Variants)'
  BY <1>1 DEF ReportInv, OutcomeTyped, ReportGood
<1>12. \A w \in Workbench!Variants : observation'[w] # None =>
         ObservationGood(observation'[w], Workbench!References', dataset'.mode)
  BY <1>1, <1>10 DEF ReportInv, ReportGood
<1>13. dataset' = None \/ dataset'.mode = "dual" => \A w \in Workbench!Variants : informed'[w] = {}
  BY <1>1 DEF ReportInv, ReportGood
<1> QED BY <1>9, <1>11, <1>12, <1>13 DEF ReportGood

LEMMA ReportUpdate ==
  ASSUME ReportInv, NEW m \in Members, NEW references \in {None} \cup SUBSET Defects,
         NEW reset \in BOOLEAN, Workbench!UpdateReference(m, references, reset)
  PROVE  OutcomeTyped' /\ ReportGood'
<1>1. /\ UNCHANGED <<dataset, outcome>>
      /\ sample' = [Workbench!NewSample EXCEPT !.references = references]
      /\ observation' = [v \in Workbench!Variants |->
                           IF observation[v] = None THEN None
                           ELSE [observation[v] EXCEPT !.ballots = <<>>, !.latest = 0,
                                   !.counts = Workbench!Zero, !.status = "pending"]]
      /\ informed' = [v \in Workbench!Variants |-> {}]
  BY DEF Workbench!UpdateReference
<1>2. OutcomeTyped'
  BY <1>1 DEF ReportInv, OutcomeTyped
<1>3. sample' = [references |-> references, reviews |-> <<>>, latest |-> 0, status |-> "pending"]
  BY <1>1 DEF Workbench!NewSample
<1>4. SampleGood(sample', dataset'.mode)
  BY <1>3 DEF SampleGood, Workbench!ReferenceStatus
<1>5. ASSUME NEW w \in Workbench!Variants, observation'[w] # None
      PROVE  ObservationGood(observation'[w], Workbench!References', dataset'.mode)
  <2>1. /\ observation[w] # None
        /\ observation'[w] = [observation[w] EXCEPT !.ballots = <<>>, !.latest = 0,
                                !.counts = Workbench!Zero, !.status = "pending"]
    BY <1>1, <1>5
  <2>2. ObservationGood(observation[w], Workbench!References, dataset.mode)
    BY <2>1 DEF ReportInv, ReportGood
  <2>3. /\ DOMAIN observation'[w] = Fields /\ observation'[w].findings = observation[w].findings
        /\ observation'[w].status = "pending"
    BY <2>1, <2>2 DEF ObservationGood, Fields
  <2> QED BY <2>2, <2>3 DEF ObservationGood
<1>6. DOMAIN informed' = Workbench!Variants /\ \A w \in Workbench!Variants : informed'[w] = {}
  BY <1>1
<1> QED BY <1>2, <1>4, <1>5, <1>6 DEF ReportGood

LEMMA ReportSave ==
  ASSUME ReportInv, NEW m \in Members, NEW v \in Workbench!Variants, NEW i, NEW ballot,
         Workbench!Writable(m, v), Workbench!SaveBallot(m, v, i, ballot)
  PROVE  OutcomeTyped' /\ ReportGood'
<1>1. dataset # None /\ observation[v] # None
  BY RecordNames DEF Workbench!Writable, Workbench!Holds, ReportInv, PageInv, PagesFresh,
                     DatasetTyped, Workbench!Exists
<1> DEFINE o == observation[v]
           ballots == Workbench!Put(o.ballots, i, ballot)
           assessed == Workbench!Assessed(o, ballots, i, Workbench!References, dataset.mode)
<1>2. DOMAIN o = Fields /\ IsFiniteSet(o.findings)
  BY <1>1 DEF ReportInv, ReportGood, ObservationGood
<1> HIDE DEF ballots
<1>3. ObservationGood(assessed, Workbench!References, dataset.mode)
  BY <1>2, AssessedGood
<1>4. /\ observation' = [observation EXCEPT ![v] = assessed]
      /\ UNCHANGED <<dataset, sample, outcome, informed>>
  BY DEF Workbench!SaveBallot, ballots
<1> HIDE DEF assessed
<1>5. observation'[v] = assessed /\ \A w \in Workbench!Variants : w # v => observation'[w] = observation[w]
  BY <1>4 DEF ReportInv, PageInv, DatasetTyped
<1> QED BY <1>1, <1>3, <1>4, <1>5, ReportWrite

LEMMA ReportReplace ==
  ASSUME ReportInv, NEW m \in Members, NEW v \in Workbench!Variants, NEW r \in Sampled,
         NEW reset \in BOOLEAN, Workbench!ReplaceObservation(m, v, r, reset)
  PROVE  OutcomeTyped' /\ ReportGood'
<1> DEFINE captured == Workbench!Captured(r)
<1>1. ObservationGood(captured, Workbench!References, dataset.mode)
  BY CapturedGood DEF ReportInv
<1> HIDE DEF captured
<1>2. /\ Workbench!Writable(m, v) /\ UNCHANGED <<dataset, sample, outcome>>
      /\ observation' = [observation EXCEPT ![v] = captured]
      /\ informed' = [informed EXCEPT ![v] = {}]
  BY DEF Workbench!ReplaceObservation, captured
<1>3. dataset # None
  BY <1>2, RecordNames DEF Workbench!Writable, Workbench!Holds, ReportInv, PageInv, PagesFresh,
                     DatasetTyped, Workbench!Exists
<1>4. observation'[v] = captured /\ \A w \in Workbench!Variants : w # v => observation'[w] = observation[w]
  BY <1>2 DEF ReportInv, PageInv, DatasetTyped
<1> QED BY <1>1, <1>2, <1>3, <1>4, ReportWrite

LEMMA ReportRetry ==
  ASSUME ReportInv, NEW r \in Sampled, Workbench!Retry(r) \/ Workbench!Complete(r)
  PROVE  OutcomeTyped' /\ ReportGood'
<1>1. UNCHANGED <<dataset, sample, observation, informed>>
  BY DEF Workbench!Retry, Workbench!Complete
<1>2. ReportGood'
  BY <1>1 DEF ReportInv, ReportGood, SampleGood, ObservationGood, Workbench!References
<1>3. PICK new \in [number : Nat, done : BOOLEAN] :
         /\ new.number \in 1..Len(Results[r])
         /\ outcome' = [outcome EXCEPT ![r] = new]
  <2> DEFINE n0 == outcome[r].number
  <2>1. n0 \in 1..Len(Results[r]) /\ outcome[r] \in [number : Nat, done : BOOLEAN]
    BY DEF ReportInv, OutcomeTyped
  <2>2. CASE Workbench!Retry(r)
    <3>1. /\ n0 < Len(Results[r])
          /\ outcome' = [outcome EXCEPT ![r] = [number |-> n0 + 1, done |-> FALSE]]
      BY <2>2 DEF Workbench!Retry
    <3>2. n0 + 1 \in 1..Len(Results[r]) /\ Len(Results[r]) \in Nat
      BY <2>1, <3>1, OutcomesAssumption
    <3>3. /\ [number |-> n0 + 1, done |-> FALSE] \in [number : Nat, done : BOOLEAN]
          /\ [number |-> n0 + 1, done |-> FALSE].number = n0 + 1
      BY <2>1
    <3> HIDE DEF n0
    <3> QED BY <3>1, <3>2, <3>3
  <2>3. CASE Workbench!Complete(r)
    <3> DEFINE kept == [outcome[r] EXCEPT !.done = TRUE]
    <3>1. outcome' = [outcome EXCEPT ![r] = kept]
      BY <2>3 DEF Workbench!Complete
    <3>2. kept \in [number : Nat, done : BOOLEAN] /\ kept.number = n0
      BY <2>1
    <3> HIDE DEF n0, kept
    <3> QED BY <2>1, <3>1, <3>2
  <2> QED BY <2>2, <2>3
<1>4. OutcomeTyped'
  BY <1>3 DEF ReportInv, OutcomeTyped
<1> QED BY <1>2, <1>4

LEMMA ReportSteps == ReportInv /\ [OutcomesNext]_outcomeVars => ReportInv'
<1> SUFFICES ASSUME ReportInv, [OutcomesNext]_outcomeVars PROVE OutcomeTyped' /\ ReportGood'
  BY PageSteps DEF ReportInv
<1>1. CASE UNCHANGED workbenchVars
  <2>1. UNCHANGED <<dataset, sample, observation, outcome, informed>>
    BY <1>1 DEF workbenchVars
  <2> QED BY <2>1 DEF ReportInv, OutcomeTyped, ReportGood, SampleGood, ObservationGood, Workbench!References
<1>2. CASE \E r \in Sampled : Workbench!Retry(r) \/ Workbench!Complete(r)
  BY <1>2, ReportRetry
<1>3. ASSUME NEW m \in Members,
             (\E of \in Workbench!Records : Workbench!Open(m, of)) \/ Workbench!Close(m)
      PROVE  OutcomeTyped' /\ ReportGood'
  BY <1>3, ReportOpen
<1>4. ASSUME NEW m \in Members, NEW v \in Workbench!Variants, NEW r \in Sampled,
             \/ \E mode \in Modes : Workbench!CreateDataset(m, mode, v, r)
             \/ Workbench!ImportObservation(m, v, r)
      PROVE  OutcomeTyped' /\ ReportGood'
  BY <1>4, ReportImport
<1>5. ASSUME NEW m \in Members, Workbench!Archive(m)
      PROVE  OutcomeTyped' /\ ReportGood'
  BY <1>5, ReportArchive
<1>6. ASSUME NEW m \in Members, Workbench!Judge(m)
      PROVE  OutcomeTyped' /\ ReportGood'
  <2>1. ASSUME NEW references \in {None} \union SUBSET Defects, NEW reset \in BOOLEAN,
               Workbench!UpdateReference(m, references, reset)
        PROVE  OutcomeTyped' /\ ReportGood'
    BY <2>1, ReportUpdate
  <2>2. ASSUME NEW agrees \in BOOLEAN, Workbench!ReviewReference(m, agrees)
        PROVE  OutcomeTyped' /\ ReportGood'
    BY <2>2, ReportReference
  <2>3. ASSUME NEW v \in Workbench!Variants, Workbench!SubmitReview(m, v)
        PROVE  OutcomeTyped' /\ ReportGood'
    <3>1. PICK i, ballot : Workbench!Writable(m, v) /\ Workbench!SaveBallot(m, v, i, ballot)
      BY <2>3 DEF Workbench!SubmitReview
    <3> QED BY <3>1, ReportSave
  <2>4. ASSUME NEW v \in Workbench!Variants, NEW r \in Sampled, NEW reset \in BOOLEAN,
               Workbench!ReplaceObservation(m, v, r, reset)
        PROVE  OutcomeTyped' /\ ReportGood'
    BY <2>4, ReportReplace
  <2>5. ASSUME NEW v \in Workbench!Variants, NEW f \in Workbench!Found, NEW d \in Decisions,
               Workbench!ReviewFinding(m, v, f, d)
        PROVE  OutcomeTyped' /\ ReportGood'
    <3>1. PICK i, ballot : Workbench!Writable(m, v) /\ Workbench!SaveBallot(m, v, i, ballot)
      BY <2>5 DEF Workbench!ReviewFinding
    <3> QED BY <3>1, ReportSave
  <2> QED BY <1>6, <2>1, <2>2, <2>3, <2>4, <2>5 DEF Workbench!Judge
<1> QED BY <1>1, <1>2, <1>3, <1>4, <1>5, <1>6
        DEF OutcomesNext, FindingStep, WorkbenchStep, outcomeVars, Workbench!EvaluationNext

\* As many in agreement as there are: all agree.
LEMMA WholeIsAll ==
  ASSUME NEW whole, IsFiniteSet(whole), NEW part, part \subseteq whole,
         Workbench!Cardinality(part) = Workbench!Cardinality(whole)
  PROVE  part = whole
<1>1. \A S : Workbench!Cardinality(S) = Cardinality(S)
  BY DEF Workbench!Cardinality, Cardinality
<1>2. Cardinality(part) = Cardinality(whole)
  BY <1>1
<1> QED BY <1>2, FS_Subset

\* The values found are no more than there are.
LEMMA FoundAmong ==
  ASSUME NEW found, NEW references, IsFiniteSet(references), found \subseteq references
  PROVE  Workbench!Cardinality(references) - Workbench!Cardinality(found) >= 0
<1>1. \A S : Workbench!Cardinality(S) = Cardinality(S)
  BY DEF Workbench!Cardinality, Cardinality
<1>2. /\ IsFiniteSet(found) /\ Cardinality(found) <= Cardinality(references)
      /\ Cardinality(found) \in Nat /\ Cardinality(references) \in Nat
  BY FS_Subset, FS_CardinalityType
<1> QED BY <1>1, <1>2

\* Two ballots judge a finding without doubt and alike.
Alike(l, r, f) ==
    /\ Workbench!Has(l, f) /\ Workbench!Has(r, f)
    /\ l.decisions[f].verdict # "uncertain"
    /\ l.decisions[f].verdict = r.decisions[f].verdict

\* What the counts of a completed assessment say of the ballots they came from.
LEMMA CountsSay ==
  ASSUME NEW findings0, IsFiniteSet(findings0), NEW l, NEW r, NEW references, IsFiniteSet(references),
         NEW mode, NEW counts, counts = Workbench!Counts(findings0, l, r, references, mode)
  PROVE  /\ Workbench!Cardinality(references) - counts.found >= 0
         /\ counts.adjudicated = Workbench!Cardinality(findings0) =>
              \A f \in findings0 : Alike(l, r, f)
<1> DEFINE both == {f \in findings0 : Workbench!Has(l, f) /\ Workbench!Has(r, f)}
           sure == {f \in both : "uncertain" \notin {l.decisions[f].verdict, r.decisions[f].verdict}}
           agreed == {f \in sure : l.decisions[f].verdict = r.decisions[f].verdict}
           valid == {f \in agreed : l.decisions[f].verdict = "valid"}
           matching == {f \in valid : l.decisions[f].key = r.decisions[f].key}
           expected == {f \in matching : l.decisions[f].key \in references}
           found == {l.decisions[f].key : f \in expected}
           doubted == IF mode = "dual" THEN both \ sure
                      ELSE {f \in DOMAIN l.decisions : l.decisions[f].verdict = "uncertain"}
<1>1. counts = [adjudicated |-> Workbench!Cardinality(agreed),
                disagreement |-> Workbench!Cardinality(sure \ agreed),
                uncertain |-> Workbench!Cardinality(doubted), valid |-> Workbench!Cardinality(valid),
                found |-> Workbench!Cardinality(found),
                unexpected |-> Workbench!Cardinality(matching \ expected),
                mismatched |-> Workbench!Cardinality(valid \ matching)]
  BY DEF Workbench!Counts
<1>2. found \subseteq references
  OBVIOUS
<1>3. agreed \subseteq findings0
  OBVIOUS
<1>4. agreed = findings0 => \A f \in findings0 : Alike(l, r, f)
  BY DEF Alike
<1> HIDE DEF both, sure, agreed, valid, matching, expected, found, doubted
<1>5. counts.found = Workbench!Cardinality(found) /\ counts.adjudicated = Workbench!Cardinality(agreed)
  BY <1>1
<1>6. Workbench!Cardinality(references) - counts.found >= 0
  BY <1>2, <1>5, FoundAmong
<1>7. counts.adjudicated = Workbench!Cardinality(findings0) => agreed = findings0
  BY <1>3, <1>5, WholeIsAll
<1> QED BY <1>4, <1>6, <1>7

LEMMA ReportImplies == ReportInv => PairsComparable
<1> SUFFICES ASSUME ReportInv, Workbench!QualityPair PROVE PairsComparable
  BY DEF PairsComparable, Workbench!PairsComparable
<1>1. \A v \in Workbench!Variants : observation[v] # None
  BY DEF Workbench!QualityPair, Workbench!Paired
<1>2. dataset # None /\ dataset.mode \in {"single", "dual"}
  BY <1>1, OutcomesAssumption, RecordNames DEF ReportInv, PageInv, DatasetTyped, DatasetRow
<1>3. SampleGood(sample, dataset.mode)
  BY <1>2 DEF ReportInv, ReportGood
<1> DEFINE references == Workbench!References
<1>4. IsFiniteSet(references)
  BY <1>3, FS_Subset, FS_EmptySet, OutcomesAssumption DEF SampleGood, Workbench!References
<1> HIDE DEF references
<1> DEFINE judges(o) == IF dataset.mode = "dual" THEN {1, 2} ELSE {o.latest}
<1>5. ASSUME NEW v \in Workbench!Variants, NEW o, o = observation[v]
      PROVE  /\ \A i \in judges(o) : /\ o.ballots[i].submitted
                                     /\ dataset.mode = "dual" => o.ballots[i].by \notin informed[v]
                                     /\ \A f \in o.findings : Workbench!Has(o.ballots[i], f)
                                          /\ o.ballots[i].decisions[f].verdict # "uncertain"
             /\ \A i, j \in judges(o) : \A f \in o.findings :
                  o.ballots[i].decisions[f].verdict = o.ballots[j].decisions[f].verdict
             /\ dataset.mode = "dual" => o.ballots[1].by # o.ballots[2].by
             /\ Workbench!Missed(v) >= 0
  <2> DEFINE l == LeftOf(o, dataset.mode)
             r == RightOf(o, dataset.mode)
  <2>1. /\ o.status = "complete" /\ o.counts.adjudicated = Workbench!Cardinality(o.findings)
        /\ ObservationGood(o, references, dataset.mode)
    BY <1>1, <1>5 DEF Workbench!QualityPair, ReportInv, ReportGood, references
  <2>2. /\ Workbench!Settled(o.ballots, dataset.mode)
        /\ o.counts = Workbench!Counts(o.findings, l, r, references, dataset.mode)
        /\ dataset.mode = "single" => l.submitted
        /\ IsFiniteSet(o.findings)
    BY <2>1 DEF ObservationGood, CountsOf
  <2> HIDE DEF l, r
  <2>3. /\ Workbench!Cardinality(references) - o.counts.found >= 0
        /\ \A f \in o.findings : /\ Workbench!Has(l, f) /\ Workbench!Has(r, f)
                                 /\ "uncertain" \notin {l.decisions[f].verdict, r.decisions[f].verdict}
                                 /\ l.decisions[f].verdict = r.decisions[f].verdict
    <3> DEFINE findings0 == o.findings
               mode == dataset.mode
               counts == o.counts
    <3>1. /\ IsFiniteSet(findings0) /\ counts = Workbench!Counts(findings0, l, r, references, mode)
          /\ counts.adjudicated = Workbench!Cardinality(findings0)
      BY <2>1, <2>2
    <3> HIDE DEF findings0, mode, counts
    <3>2. Workbench!Cardinality(references) - counts.found >= 0
      BY <1>4, <3>1, CountsSay, Zenon
    <3>3. \A f \in findings0 : Alike(l, r, f)
      BY <1>4, <3>1, CountsSay, Zenon
    <3> QED BY <3>2, <3>3 DEF findings0, counts, Alike
  <2>4. Workbench!Missed(v) >= 0
    BY <1>5, <2>3 DEF Workbench!Missed, references
  <2>5. CASE dataset.mode = "dual"
    <3>1. l = o.ballots[1] /\ r = o.ballots[2] /\ judges(o) = {1, 2}
      BY <2>5 DEF l, r, LeftOf, RightOf, Workbench!Left, Workbench!Right
    <3>2. o.ballots[1].by # o.ballots[2].by /\ o.ballots[1].submitted /\ o.ballots[2].submitted
      BY <2>2, <2>5 DEF Workbench!Settled
    <3>3. informed[v] = {}
      BY <2>5 DEF ReportInv, ReportGood
    <3> HIDE DEF judges
    <3> QED BY <2>3, <2>4, <3>1, <3>2, <3>3
  <2>6. CASE dataset.mode = "single"
    <3>1. l = o.ballots[o.latest] /\ judges(o) = {o.latest}
      BY <2>6 DEF l, LeftOf, Workbench!Left
    <3> HIDE DEF judges
    <3> QED BY <2>2, <2>3, <2>4, <2>6, <3>1
  <2> QED BY <1>2, <2>5, <2>6
<1>6. ASSUME Workbench!ReferencePair
      PROVE  /\ sample.references # None
             /\ dataset.mode = "dual" => /\ sample.reviews[1].by # sample.reviews[2].by
                                         /\ \A i \in {1, 2} : sample.reviews[i].agrees
  <2>1. sample.status = "confirmed"
    BY <1>6 DEF Workbench!ReferencePair
  <2>2. Workbench!ReferenceStatus(sample.reviews, sample.latest, dataset.mode) = "confirmed"
    BY <1>3, <2>1 DEF SampleGood
  <2>3. sample.reviews # <<>>
    BY <2>2 DEF Workbench!ReferenceStatus
  <2>4. dataset.mode = "dual" => /\ Len(sample.reviews) = 2
                                 /\ sample.reviews[1].agrees /\ sample.reviews[2].agrees
    BY <2>2, <2>3 DEF Workbench!ReferenceStatus
  <2> QED BY <1>3, <2>3, <2>4 DEF SampleGood
<1>7. \A v \in Workbench!Variants : Workbench!Missed(v) >= 0
  BY <1>5
<1>8. ASSUME NEW v \in Workbench!Variants
      PROVE  LET o == observation[v]
             IN  /\ \A i \in judges(o) : /\ o.ballots[i].submitted
                                         /\ dataset.mode = "dual" => o.ballots[i].by \notin informed[v]
                                         /\ \A f \in o.findings : Workbench!Has(o.ballots[i], f)
                                              /\ o.ballots[i].decisions[f].verdict # "uncertain"
                 /\ \A i, j \in judges(o) : \A f \in o.findings :
                      o.ballots[i].decisions[f].verdict = o.ballots[j].decisions[f].verdict
                 /\ dataset.mode = "dual" => o.ballots[1].by # o.ballots[2].by
  <2> HIDE DEF judges
  <2> QED BY <1>5
<1> QED BY <1>6, <1>7, <1>8 DEF PairsComparable, Workbench!PairsComparable

(* A pair the report compares is comparable: every finding of both snapshots *)
(* was judged without doubt and alike by the members that count, in dual     *)
(* mode before they saw each other's verdicts, and recall is counted against *)
(* confirmed references only (the report of the evaluation service).         *)
THEOREM ComparedPairsComparable == OutcomesSpec => []PairsComparable
<1> QED BY ReportInit, ReportSteps, ReportImplies, PTL DEF OutcomesSpec
=============================================================================
