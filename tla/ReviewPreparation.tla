------------------------ MODULE ReviewPreparation ------------------------
(* From a pull request on GitHub to the plan of its review: the changed files *)
(* come in pages, their patches from three sources that each may fail, the    *)
(* checks in two more lists of pages, the repository's rules in one bounded   *)
(* query; meanwhile people push, and checks come and finish.                  *)
EXTENDS Integers, Sequences, FiniteSets

CONSTANTS Versions,     \* states of the pull request: head, base and changes
          HeadOf,       \* the head of each
          Target,       \* the head under review
          Paths,        \* files: tuples of directory names, then the file's
          Change,       \* per version and path: None, or what changed
          Rule,         \* per directory the AGENTS.md of the head: None, or [kind, size]
          Generated,    \* paths of lock files, build output, ...
          Documents,    \* paths of documents, which only one agent reads
          Relation,     \* of a path, the name it shares with files of other kinds
          MaxGroup,     \* max_related_files
          PageSize,     \* 100
          MaxFiles,     \* max_files, 3000
          MaxPatch,     \* max_patch_bytes
          MaxBlobFiles, MaxBlob, MaxBlobTotal,   \* limits of the blob fallback
          MaxDepth, MaxCandidates, MaxRules,     \* limits of the rules
          MaxChecks,    \* max_checks, 1000
          Contexts,     \* contexts of commit statuses
          MaxListed,    \* bound on check runs and on statuses
          MaxPolls,     \* bound on the readings of one review
          None

VARIABLES pr,           \* the version the pull request is at
          runs,         \* its check runs as GitHub lists them: ids, own ones too
          result,       \* of each check run
          statuses,     \* commit statuses, newest first: <<context, state>>
          reader,       \* the reading under way, None between two
          polls,        \* readings begun
          context,      \* pull_request_versions, _files and _ci_checks
          plan,         \* the review plan, or how the review ended without one; None before
          steady,       \* history: the pull request did not move since the files' reading began
          listed        \* history: check runs and statuses when the reading began

preparationVars == <<pr, runs, result, statuses, reader, polls, context, plan, steady, listed>>
github == <<pr, runs, result, statuses>>

Ids == 1..MaxListed
Results == {"pending", "success", "failure"}
\* OpenReviewer's own check run, which it does not wait for.
Own == MaxListed

PreparationInit ==
    /\ pr \in Versions /\ HeadOf[pr] = Target
    /\ runs = <<>> /\ result = [i \in Ids |-> "pending"] /\ statuses = <<>>
    /\ reader = None /\ polls = 0 /\ context = None /\ plan = None
    /\ steady = TRUE /\ listed = None

---------------------------------------------------------------------------
(* GitHub.                                                                    *)
Move ==
    /\ reader # None
    /\ \E v \in Versions \ {pr} : pr' = v
    /\ steady' = FALSE
    /\ UNCHANGED <<runs, result, statuses, reader, polls, context, plan, listed>>

Register ==
    /\ Len(runs) < MaxListed
    /\ LET fresh == Ids \ {runs[k] : k \in DOMAIN runs} IN
       \E i \in fresh : /\ i # Own => \A j \in fresh : i <= j     \* numbered as they come
                        /\ runs' \in {<<i>> \o runs, Append(runs, i)}
    /\ UNCHANGED <<pr, result, statuses, reader, polls, context, plan, steady, listed>>

Finish ==
    /\ \E i \in {runs[k] : k \in DOMAIN runs} :
         /\ result[i] = "pending"
         /\ \E r \in {"success", "failure"} : result' = [result EXCEPT ![i] = r]
    /\ UNCHANGED <<pr, runs, statuses, reader, polls, context, plan, steady, listed>>

PostStatus ==
    /\ Len(statuses) < MaxListed
    /\ \E c \in Contexts, s \in Results : statuses' = <<<<c, s>>>> \o statuses
    /\ UNCHANGED <<pr, runs, result, reader, polls, context, plan, steady, listed>>

---------------------------------------------------------------------------
(* load: the pull request first.  A head that is not the one under review     *)
(* ends the review.  Files are read once, checks at every poll.               *)
Before(a, b) ==
    \/ Len(a) < Len(b)
    \/ Len(a) = Len(b) /\ \E i \in DOMAIN a : a[i] < b[i] /\ \A j \in 1..(i - 1) : a[j] = b[j]
Rank(x, S) == Cardinality({y \in S : Before(y, x)}) + 1

Changed(v) == {p \in Paths : Change[v][p] # None}
Page(list, n) == SubSeq(list, (n - 1) * PageSize + 1, IF Len(list) < n * PageSize THEN Len(list) ELSE n * PageSize)

\* A task whose lease holds reads its target, and whether it has its files.
LoadTarget == /\ reader = None /\ plan = None
              /\ context # None => context.ci \in {"pending", "unknown"}

LoadPullRequest ==
    /\ LoadTarget /\ polls < MaxPolls
    /\ polls' = polls + 1
    /\ IF HeadOf[pr] # Target
       THEN plan' = [outcome |-> "superseded", files |-> <<>>] /\ UNCHANGED <<reader, listed>>
       ELSE /\ reader' = [step |-> IF context = None THEN "files" ELSE "runs",
                          version |-> pr, page |-> 1, items |-> <<>>, patches |-> <<>>, texts |-> {},
                          files |-> None, complete |-> FALSE, raw |-> 0, checks |-> <<>>, whole |-> FALSE,
                          read |-> <<>>]
            /\ listed' = [runs |-> {runs[k] : k \in DOMAIN runs}, statuses |-> Len(statuses)]
            /\ UNCHANGED plan
    /\ steady' = (steady \/ context = None)
    /\ UNCHANGED <<github, context>>

Goto(step, r) == reader' = [r EXCEPT !.step = step, !.page = 1, !.raw = 0]
Stay == UNCHANGED <<github, polls, context, plan, steady, listed>>
Fail == reader' = None /\ Stay

\* A page of changed files, some of them without their patch.
FilesOf(v) == [i \in 1..Cardinality(Changed(v)) |-> CHOOSE p \in Changed(v) : Rank(p, Changed(v)) = i]

ReadFiles ==
    /\ reader # None /\ reader.step = "files"
    /\ LET page == Page(FilesOf(pr), reader.page) IN
       \E omitted \in SUBSET {page[i] : i \in DOMAIN page} :
         LET raw == [i \in DOMAIN page |->
                       [path |-> page[i],
                        patch |-> IF Change[pr][page[i]].binary \/ page[i] \in omitted THEN None
                                  ELSE [version |-> pr, size |-> Change[pr][page[i]].size]]]
             all == reader.items \o raw
             items == SubSeq(all, 1, IF Len(all) < MaxFiles THEN Len(all) ELSE MaxFiles)
         IN  IF Len(page) < PageSize \/ Len(items) >= MaxFiles
             THEN Goto("diff", [reader EXCEPT !.items = items,
                    !.complete = Len(items) = Cardinality(Changed(reader.version))])
             ELSE reader' = [reader EXCEPT !.items = items, !.page = @ + 1]
    /\ Stay

\* The whole diff, or nothing when it is too large, rejected or unreadable.
Entry(v, p) ==
    IF Change[v][p].binary THEN [kind |-> "binary"]
    ELSE [kind |-> "text", patch |-> [version |-> v, size |-> Change[v][p].size]]

ReadDiff ==
    /\ reader # None /\ reader.step = "diff"
    /\ \E patches \in {<<>>, [p \in Changed(pr) |-> Entry(pr, p)]} :
         Goto("blobs", [reader EXCEPT !.patches = patches])
    /\ Stay

---------------------------------------------------------------------------
(* Files with no usable patch are rebuilt from the blobs of the two commits:  *)
(* first their sizes, then the texts of those that fit.                       *)
Usable(patch) == patch # None /\ patch.size <= MaxPatch
Has(f, p) == p \in DOMAIN f
NeedsBlobFallback(item) ==
    ~\/ Has(reader.patches, item.path) /\ reader.patches[item.path].kind = "binary"
     \/ Has(reader.patches, item.path) /\ Usable(reader.patches[item.path].patch)
     \/ Usable(item.patch)

Needing == {i \in DOMAIN reader.items : NeedsBlobFallback(reader.items[i])}
Candidates == {reader.items[i].path : i \in {j \in Needing : Cardinality({k \in Needing : k < j}) < MaxBlobFiles}}
\* What the commits hold; nothing for a file only another version has.
Blob(p) == Change[reader.version][p]
Objects == {p \in Candidates : Blob(p) # None}
Held == {p \in Objects : ~Blob(p).binary}
Bytes(p) == Blob(p).before + Blob(p).after

\* In order, those that fit what the ones before them left of the total.
FirstFit(S, size, total) ==
    LET fits[n \in 0..Cardinality(S)] ==
          IF n = 0 THEN [taken |-> {}, bytes |-> 0]
          ELSE LET x == CHOOSE y \in S : Rank(y, S) = n
                   before == fits[n - 1]
               IN  IF before.bytes + size[x] > total THEN before
                   ELSE [taken |-> before.taken \cup {x}, bytes |-> before.bytes + size[x]]
    IN  fits[Cardinality(S)].taken

Reserved(S) ==
    LET small == {p \in S : Blob(p).before <= MaxBlob /\ Blob(p).after <= MaxBlob}
    IN  FirstFit(small, [p \in small |-> Bytes(p)], MaxBlobTotal)

Override(f, g) == [p \in DOMAIN f \cup DOMAIN g |-> IF Has(g, p) THEN g[p] ELSE f[p]]

ReadBlobs ==
    /\ reader # None /\ reader.step = "blobs"
    /\ \/ Goto("merge", reader)                      \* nothing needed, or too large an answer
       \/ LET fitting == Reserved(Held)
              sized == [p \in Objects \ fitting |->
                          [kind |-> IF Blob(p).binary THEN "binary" ELSE "too_large"]]
          IN  Candidates # {} /\ Goto("texts", [reader EXCEPT !.patches = Override(@, sized), !.texts = fitting])
    /\ Stay

\* The texts of both commits, compared.
Rebuilt(p) == [kind |-> "text", patch |-> [version |-> reader.version, size |-> Blob(p).size]]

ReadTexts ==
    /\ reader # None /\ reader.step = "texts"
    /\ \E known \in SUBSET reader.texts :             \* a text may be missing or not match
         Goto("merge", [reader EXCEPT !.patches = Override(@, [p \in known |-> Rebuilt(p)])])
    /\ Stay

\* Defect: a file whose patch nobody gave counts as one that needs none.
MergedQuietly(item) ==
    LET patch == IF Has(reader.patches, item.path) /\ reader.patches[item.path].kind = "text"
                 THEN reader.patches[item.path].patch ELSE item.patch
    IN  IF Usable(patch) THEN [state |-> "available", patch |-> patch] ELSE [state |-> "binary", patch |-> None]

Merged(item) ==
    LET entry == IF Has(reader.patches, item.path) THEN reader.patches[item.path]
                 ELSE [kind |-> "text", patch |-> item.patch]
    IN  CASE entry.kind = "binary" -> [state |-> "binary", patch |-> None]
          [] entry.kind = "too_large" -> [state |-> "too_large", patch |-> None]
          [] entry.kind = "text" /\ entry.patch = None -> [state |-> "missing", patch |-> None]
          [] OTHER -> IF Usable(entry.patch) THEN [state |-> "available", patch |-> entry.patch]
                      ELSE [state |-> "too_large", patch |-> None]

\* _merge_files: a path that comes twice is an invalid answer.
MergeFiles ==
    /\ reader # None /\ reader.step = "merge"
    /\ LET items == reader.items
           paths == {items[i].path : i \in DOMAIN items}
       IN  IF Cardinality(paths) # Len(items) THEN Fail
           ELSE /\ Goto("runs", [reader EXCEPT !.files = [p \in paths |->
                      Merged(items[CHOOSE i \in DOMAIN items : items[i].path = p])]])
                /\ Stay

---------------------------------------------------------------------------
(* The checks of the head: its check runs, OpenReviewer's own left out, then  *)
(* its commit statuses within what the limit leaves.                          *)
Least(a, b) == IF a < b THEN a ELSE b

Whole(raw) == Len(runs) <= MaxChecks /\ raw = Len(runs)

ReadCheckRuns ==
    /\ reader # None /\ reader.step = "runs"
    /\ LET page == Page(runs, reader.page)
           raw == Least(reader.raw + Len(page), MaxChecks + 1)
           taken == SubSeq(page, 1, Least(Len(page), MaxChecks - reader.raw))
           checks == reader.checks \o [k \in DOMAIN taken |-> <<taken[k], result[taken[k]]>>]
       IN  IF Len(page) < PageSize \/ raw >= MaxChecks
           THEN Goto("statuses", [reader EXCEPT !.checks = checks, !.whole = Whole(raw)])
           ELSE reader' = [reader EXCEPT !.checks = checks, !.raw = raw, !.page = @ + 1]
    /\ Stay

\* The check runs read that are not OpenReviewer's own.
Foreign(checks) == {k \in DOMAIN checks : checks[k][1] # Own}
Limit == MaxChecks - Cardinality(Foreign(reader.checks))

\* Defect: a full page that just reaches the limit is taken for the last.
CutBeyond(raw, page) == raw > Limit

Cut(raw, page) == raw > Limit \/ (raw >= Limit /\ Len(page) = PageSize)

ReadStatuses ==
    /\ reader # None /\ reader.step = "statuses"
    /\ LET page == Page(statuses, reader.page)
           raw == Least(reader.raw + Len(page), Limit + 1)
           read == reader.read \o SubSeq(page, 1, Least(Len(page), Limit - reader.raw))
       IN  IF Limit <= 0 THEN Goto("store", [reader EXCEPT !.whole = FALSE])
           ELSE IF Len(page) < PageSize \/ raw >= Limit
           THEN Goto("store", [reader EXCEPT !.read = read, !.whole = @ /\ ~Cut(raw, page)])
           ELSE reader' = [reader EXCEPT !.read = read, !.raw = raw, !.page = @ + 1]
    /\ Stay

\* Of each context the newest status.
Latest(read) == {read[k] : k \in {j \in DOMAIN read : \A i \in 1..(j - 1) : read[i][1] # read[j][1]}}

AggregateCi(r) ==
    LET states == {r.checks[k][2] : k \in Foreign(r.checks)} \cup {s[2] : s \in Latest(r.read)} IN
    CASE ~r.whole -> "unknown"
      [] r.whole /\ states = {} -> "not_configured"
      [] r.whole /\ "failure" \in states -> "failure"
      [] r.whole /\ "failure" \notin states /\ "pending" \in states -> "pending"
      [] OTHER -> "success"

\* The files of a version are stored once, with the reading that brought them.
StoredFiles == IF context = None
               THEN [files |-> reader.files, complete |-> reader.complete, version |-> reader.version]
               ELSE [files |-> context.files, complete |-> context.complete, version |-> context.version]

\* What every poll stores anew: the count of files and the checks.
Updated(stored) ==
    [files |-> stored.files, complete |-> stored.complete, version |-> stored.version,
     count |-> Cardinality(Changed(reader.version)), ci |-> AggregateCi(reader)]

\* store_github_context: a check that came twice violates a key, nothing is stored.
StoreContext ==
    /\ reader # None /\ reader.step = "store"
    /\ IF \E i, j \in Foreign(reader.checks) : i # j /\ reader.checks[i][1] = reader.checks[j][1]
       THEN UNCHANGED context
       ELSE context' = Updated(StoredFiles)
    /\ reader' = None
    /\ UNCHANGED <<github, polls, plan, steady, listed>>

---------------------------------------------------------------------------
(* The rules: of the directories of the files, the shallow ones first, within *)
(* the candidates; a rule that cannot be read makes the files below it        *)
(* incomplete.                                                                *)
Depth(p) == Len(p) - 1
Scope(p, k) == SubSeq(p, 1, k)
Below(d, p) == Len(d) <= Depth(p) /\ Scope(p, Len(d)) = d

CandidateScopes(files) == UNION {{Scope(p, k) : k \in 0..Least(Depth(p), MaxDepth)} : p \in files}
Selected(files) == {d \in CandidateScopes(files) : Rank(d, CandidateScopes(files)) <= MaxCandidates}

\* The rules that fit the total, in the order of the candidates.
Fitting(S) == FirstFit(S, [d \in S |-> Rule[d].size], MaxRules)

Readable(files) == {d \in Selected(files) : Rule[d] # None /\ Rule[d].kind = "text"}
Loaded(files) == Fitting(Readable(files))
Unread(files) ==
    {d \in Selected(files) : Rule[d] # None /\ Rule[d].kind # "empty"} \ Loaded(files)

\* Defect: only what was asked for can be incomplete.
IncompleteAsked(files) == {p \in files : \E d \in Unread(files) : Below(d, p)}

Incomplete(files) ==
    {p \in files : \/ Depth(p) > MaxDepth
                   \/ \E d \in CandidateScopes(files) \ Selected(files) : Below(d, p)
                   \/ \E d \in Unread(files) : Below(d, p)}

(* The plan: per file a unit, or the reason why there is none.                *)
Decision(p, incomplete) ==
    LET file == context.files[p] IN
    CASE file.state = "binary" -> "binary"
      [] file.state # "binary" /\ p \in Generated -> "generated"
      [] file.state \in {"missing", "too_large"} /\ p \notin Generated -> file.state
      [] OTHER -> IF Depth(p) > MaxDepth \/ p \in incomplete THEN "rules_incomplete" ELSE "planned"

Planned(files, incomplete) == {p \in files : Decision(p, incomplete) = "planned"}

\* Related files, cut into groups of at most MaxGroup in the order of their paths.
Group(p, planned) ==
    <<Relation[p], (Rank(p, {q \in planned : Relation[q] = Relation[p]}) - 1) \div MaxGroup>>

Domains(p) == IF p \in Documents THEN {"convention"} ELSE {"security", "convention", "logic"}

Unit(p, loaded, planned) ==
    [patch |-> context.files[p].patch, rules |-> {d \in loaded : Below(d, p)},
     group |-> Group(p, planned), domains |-> Domains(p)]

Plan(loaded, incomplete) ==
    LET files == DOMAIN context.files
        planned == Planned(files, incomplete)
    IN  [outcome |-> "planned",
         files |-> [p \in files |-> [decision |-> Decision(p, incomplete),
                                     unit |-> IF p \in planned THEN Unit(p, loaded, planned) ELSE None]]]

\* load_planning_input: nothing is planned on files that are not all there.
Plannable == context.complete /\ Cardinality(DOMAIN context.files) = context.count

PlanReview ==
    /\ reader = None /\ plan = None /\ context # None /\ context.ci \notin {"pending", "unknown"}
    /\ LET files == DOMAIN context.files IN
       IF ~Plannable THEN plan' = [outcome |-> "failed", files |-> <<>>]
       ELSE \E answered \in BOOLEAN :                  \* or the rules' answer is too large
              plan' = IF answered THEN Plan(Loaded(files), Incomplete(files)) ELSE Plan({}, files)
    /\ UNCHANGED <<github, reader, polls, context, steady, listed>>

PreparationNext ==
    \/ Move \/ Register \/ Finish \/ PostStatus
    \/ LoadPullRequest \/ ReadFiles \/ ReadDiff \/ ReadBlobs \/ ReadTexts \/ MergeFiles
    \/ ReadCheckRuns \/ ReadStatuses \/ StoreContext \/ PlanReview

PreparationSpec == PreparationInit /\ [][PreparationNext]_preparationVars

---------------------------------------------------------------------------
(* However the sources fail and the limits cut, a plan of a pull request that *)
(* stood still tells the truth about it: it names every changed file; a       *)
(* planned one comes with its own patch and with every rule of the            *)
(* directories above it; and one is left out for a reason that holds.  Files  *)
(* planned together are related and few.                                      *)
PlanTruthful ==
    plan # None /\ plan.outcome = "planned" /\ steady =>
      LET v == context.version
          rules(p) == {Scope(p, k) : k \in 0..Depth(p)}
          together(p) == {q \in Changed(v) : plan.files[q].unit # None
                                              /\ plan.files[q].unit.group = plan.files[p].unit.group}
      IN  /\ DOMAIN plan.files = Changed(v)
          /\ \A p \in Changed(v) :
               LET decision == plan.files[p].decision
                   unit == plan.files[p].unit
               IN  CASE decision = "planned" ->
                          /\ ~Change[v][p].binary /\ p \notin Generated
                          /\ unit.patch = [version |-> v, size |-> Change[v][p].size]
                          /\ unit.rules = {d \in rules(p) : Rule[d] # None /\ Rule[d].kind # "empty"}
                          /\ Cardinality(together(p)) <= MaxGroup
                          /\ \A q \in together(p) : Relation[q] = Relation[p]
                     [] decision = "binary" -> Change[v][p].binary
                     [] decision = "generated" -> p \in Generated
                     [] decision = "rules_incomplete" -> TRUE
                     [] OTHER -> ~Usable(context.files[p].patch)

(* A reading that claims to have seen all checks saw every one there was when *)
(* it began: it says success only when each of them succeeded, failure only   *)
(* when one failed, and none configured only when there was none, whatever    *)
(* came or finished between its pages.                                        *)
CiConclusive ==
    reader # None /\ reader.step = "store" =>
      LET ci == AggregateCi(reader)
          others == listed.runs \ {Own}
          reported == Len(statuses) - listed.statuses
          \* the states a context was in since the reading began
          since(c) == {statuses[k][2] : k \in
                        {j \in DOMAIN statuses : /\ statuses[j][1] = c
                                                 /\ \A i \in 1..(j - 1) : statuses[i][1] = c => i <= reported}}
          reporting == {c \in Contexts : \E k \in (reported + 1)..Len(statuses) : statuses[k][1] = c}
      IN  /\ ci = "success" => /\ \A i \in others : result[i] = "success"
                               /\ \A c \in reporting : "success" \in since(c)
          /\ ci = "failure" => \/ \E k \in DOMAIN runs : runs[k] # Own /\ result[runs[k]] = "failure"
                               \/ \E c \in Contexts : "failure" \in since(c)
          /\ ci = "not_configured" => others = {} /\ reporting = {}
=============================================================================
