---------------------------- MODULE BatchPlanning ----------------------------
(* How a review plan becomes model requests and their answers one result.     *)
(* The units are cut to pieces and packed into batches under an input budget; *)
(* a batch whose answer is truncated is asked again in parts, down to a depth, *)
(* from a checkpoint that survives the death of the worker; the line numbers  *)
(* the model reports for a piece are mapped back to the lines of the file.    *)
(* Text is counted in characters of one byte.                                 *)
EXTENDS Integers, Sequences, FiniteSets
LOCAL INSTANCE SequencesExt
LOCAL INSTANCE FiniteSetsExt

CONSTANTS Units,        \* the units of the plan, in their order
          Lines,        \* the lines of each unit's patch: kind, length and,
                        \* of a hunk header, the first line on either side
          GroupOf,      \* group_key of a unit
          RulesOf,      \* rule_paths of a unit
          RuleBytes,    \* _rule_prompt_bytes
          UnitBytes,    \* _unit_prompt_bytes of an empty patch
          Base,         \* bytes of the prompt without rules and units
          Overhead,     \* _FRAGMENT_PROMPT_OVERHEAD_BYTES
          Limits,       \* possible max_batch_input_tokens, in bytes
          Floor,        \* the smallest reduced limit, 4096 tokens
          MinRoom,      \* the least room for a piece, 1024 bytes
          MaxDepth,     \* 8
          MaxFindings,  \* MAX_MODEL_FINDINGS
          MaxFaults,    \* bound on crashes and failed requests
          MaxReported,  \* bound on the answers with a finding
          None          \* no line, no answer

ASSUME PlanningAssumption ==
    /\ \A i, j \in DOMAIN Units : i # j => Units[i] # Units[j]
    /\ {Base, Overhead, Floor, MinRoom, MaxDepth, MaxFindings, MaxFaults, MaxReported} \subseteq Nat
    /\ Floor > 0 /\ MinRoom > 0
    /\ Limits \subseteq Nat
    /\ None \notin Nat

VARIABLES limit,    \* max_batch_input_tokens of the configuration
          root,     \* the batch that is reviewed, as a sequence of pieces
          todo,     \* parts still to go through, in the order of the recursion
          memory,   \* answers and truncated parts this attempt knows
          saved,    \* the checkpoint of the batch
          status,   \* "running", "done" or "failed"
          merged,   \* the findings of the combined result
          faults,
          asked     \* history: parts asked while the checkpoint already knew their outcome

vars == <<limit, root, todo, memory, saved, status, merged, faults, asked>>

---------------------------------------------------------------------------
(* Lines of a patch.                                                          *)
Chars(line) == line.chars
Start(u, i) == FoldSeq(LAMBDA line, n : n + Chars(line), 0, SubSeq(Lines[u], 1, i - 1))
Width(u) == Start(u, Len(Lines[u]) + 1)

Has(line, side) == line.kind = "context" \/ line.kind = side

(* The number of line i on a side, counted from the last hunk header of the   *)
(* text that begins at an offset; None without such a header.                 *)
NumberIn(u, from, i, side) ==
    LET headers == {h \in 1..(i - 1) : Lines[u][h].kind = "hunk" /\ Start(u, h) >= from} IN
    IF headers = {} \/ ~Has(Lines[u][i], side) THEN None
    ELSE LET h == Max(headers) IN
         Lines[u][h][side] + Cardinality({j \in (h + 1)..(i - 1) : Has(Lines[u][j], side)})

(* A piece is a unit with the intervals it was cut to, the outermost first.   *)
Whole(u) == [unit |-> u, spans |-> <<>>]
Enclosing(piece, k) == IF k = 1 THEN <<0, Width(piece.unit)>> ELSE piece.spans[k - 1]
Span(piece) == Enclosing(piece, Len(piece.spans) + 1)
Size(piece) == Span(piece)[2] - Span(piece)[1]

\* The lines an interval touches, in order.
LocalLines(u, span) ==
    SelectSeq([i \in DOMAIN Lines[u] |-> i],
              LAMBDA i : Start(u, i) < span[2] /\ Start(u, i + 1) > span[1])

(* Cut to intervals of at most a number of bytes, a line in two if need be.   *)
Cut(span, max) ==
    LET n == (span[2] - span[1] + max - 1) \div max IN
    [k \in 1..n |-> <<span[1] + (k - 1) * max, Min({span[1] + k * max, span[2]})>>]

(* FragmentLineMap of an interval of the text that begins at an offset.       *)
LineMap(u, from, span, side) ==
    LET local == LocalLines(u, span) IN
    [mode |-> IF \E k \in DOMAIN local : Lines[u][local[k]].kind = "hunk" /\ Start(u, local[k]) >= from
              THEN "global" ELSE "local",
     at |-> [k \in DOMAIN local |-> NumberIn(u, from, local[k], side)]]

(* map_line: the declared kind of number first, the other one as a fallback;  *)
(* None stands for the refusal of the whole result.                           *)
MapLine(map, n) ==
    LET local == IF n \in DOMAIN map.at THEN map.at[n] ELSE None
        global == IF n # None /\ n \in ToSet(map.at) THEN n ELSE None
    IN  IF map.mode = "global"
        THEN IF global # None THEN global ELSE local
        ELSE IF local # None THEN local ELSE global

(* A number is mapped once per cut, from the innermost cut outwards.          *)
Remap(piece, n, side) ==
    LET step(k, m) == MapLine(LineMap(piece.unit, Enclosing(piece, k)[1], piece.spans[k], side), m)
    IN  FoldRight(step, [k \in DOMAIN piece.spans |-> k], n)

---------------------------------------------------------------------------
(* plan_model_review_batches.                                                 *)
SumBytes(rules) == FoldSet(LAMBDA r, n : n + RuleBytes[r], 0, rules)
PieceBytes(piece) == UnitBytes[piece.unit] + Size(piece)
BatchBytes(batch) ==
    Base + FoldSeq(LAMBDA p, n : n + PieceBytes(p), 0, batch)
         + SumBytes(UNION {RulesOf[p.unit] : p \in ToSet(batch)})

Room(u, max) == max - Base - SumBytes(RulesOf[u]) - UnitBytes[u] - Overhead

Plannable(pieces, max) == \A p \in ToSet(pieces) : Room(p.unit, max) >= MinRoom

(* Every unit's patch is cut on its own; each piece gets a map of its lines.  *)
Fragments(piece, max) ==
    LET cuts == Cut(Span(piece), Room(piece.unit, max)) IN
    [k \in DOMAIN cuts |-> [piece EXCEPT !.spans = Append(@, cuts[k])]]

\* A new batch begins before a piece that does not fit, or whose unit is already in it.
AddPiece(batches, piece, max) ==
    LET current == Last(batches) IN
    IF current # <<>> /\ ( \/ piece.unit \in {p.unit : p \in ToSet(current)}
                           \/ BatchBytes(Append(current, piece)) > max )
    THEN Append(batches, <<piece>>)
    ELSE [batches EXCEPT ![Len(batches)] = Append(@, piece)]

(* A group of related pieces that would fit into an empty batch is not torn    *)
(* apart at the end of a fuller one.                                          *)
AddGroup(batches, group, max) ==
    LET current == Last(batches)
        together == /\ current # <<>>
                    /\ Cardinality({p.unit : p \in ToSet(group)}) = Len(group)
                    /\ BatchBytes(current \o group) > max
                    /\ BatchBytes(group) <= max
    IN  FoldLeft(LAMBDA done, p : AddPiece(done, p, max),
                 IF together THEN Append(batches, <<>>) ELSE batches, group)

Groups(pieces) ==
    FoldLeft(LAMBDA done, p :
               IF done # <<>> /\ GroupOf[Last(Last(done)).unit] = GroupOf[p.unit]
               THEN [done EXCEPT ![Len(done)] = Append(@, p)]
               ELSE Append(done, <<p>>),
             <<>>, pieces)

Plan(pieces, max) ==
    LET cut == FlattenSeq([i \in DOMAIN pieces |-> Fragments(pieces[i], max)]) IN
    FoldLeft(LAMBDA done, group : AddGroup(done, group, max), <<<<>>>>, Groups(cut))

Input == [i \in DOMAIN Units |-> Whole(Units[i])]

---------------------------------------------------------------------------
(* _review_with_truncation_split.                                             *)
Reduced(part) ==
    LET total == FoldSeq(LAMBDA p, n : n + Size(p) + SumBytes(RulesOf[p.unit]), 0, part) IN
    Max({Floor, Min({limit \div 2, Max({Floor, total \div 4})})})

Halves(part) ==
    LET middle == Len(part) \div 2 IN
    <<SubSeq(part, 1, middle), SubSeq(part, middle + 1, Len(part))>>

\* No parts at all: the truncated answer is an error of the batch.
Parts(part) ==
    IF Len(part) > 1 THEN Halves(part)
    ELSE IF Reduced(part) >= limit \/ ~Plannable(part, Reduced(part)) THEN <<>>
    ELSE LET children == Plan(part, Reduced(part)) IN
         IF Len(children) <= 1 THEN <<>> ELSE children

\* A part and its depth below the batch.
Node(part, depth) == [part |-> part, depth |-> depth]

Nothing == [answers |-> <<>>, split |-> {}]
Known(known, part) == part \in DOMAIN known.answers
Learn(known, part, answer) ==
    [known EXCEPT !.answers = [p \in DOMAIN known.answers \cup {part} |->
                                 IF p = part THEN answer ELSE known.answers[p]]]

Init ==
    /\ limit \in {l \in Limits : Plannable(Input, l)}
    /\ root \in ToSet(Plan(Input, limit))
    /\ todo = <<Node(root, 0)>>
    /\ memory = Nothing /\ saved = Nothing
    /\ status = "running" /\ merged = {}
    /\ faults = 0 /\ asked = {}

(* What the model may say of a part: nothing, or one finding, with a line if  *)
(* it can tell one.  It numbers the lines as the request asks: the file's     *)
(* lines below a hunk header it sees, or the lines of the piece.              *)
Reported(piece, i, side) ==
    LET k == Len(piece.spans)
        span == Span(piece)
        local == LocalLines(piece.unit, span)
    IN  IF k = 0 THEN NumberIn(piece.unit, 0, i, side)
        ELSE IF LineMap(piece.unit, Enclosing(piece, k)[1], span, side).mode = "global"
             THEN NumberIn(piece.unit, span[1], i, side)
             ELSE CHOOSE n \in DOMAIN local : local[n] = i

Answers(part) ==
    {{}} \cup
    UNION {{{[piece |-> p, line |-> i, side |-> side, confidence |-> c, reported |-> Reported(p, i, side)]} :
              i \in {j \in ToSet(LocalLines(p.unit, Span(p))) : Has(Lines[p.unit][j], side)},
              c \in {1, 2}} : p \in ToSet(part), side \in {"left", "right"}}

(* The parts whose answers make up the batch: the answered ones in the order  *)
(* of the text.                                                               *)
Leaves == {p \in DOMAIN memory.answers : p \notin memory.split}

Raw == UNION {memory.answers[p] : p \in Leaves}

\* The parts of a truncated part come next; without any the batch fails.
Descend(node) ==
    LET parts == Parts(node.part) IN
    IF parts = <<>> THEN status' = "failed" /\ todo' = <<>>
    ELSE /\ todo' = [i \in DOMAIN parts |-> Node(parts[i], node.depth + 1)] \o Tail(todo)
         /\ UNCHANGED status

\* An outcome the checkpoint already holds is used, nothing is sent.
Recall ==
    /\ status = "running" /\ todo # <<>>
    /\ LET node == Head(todo) IN
       \/ /\ Known(memory, node.part)
          /\ todo' = Tail(todo)
          /\ UNCHANGED status
       \/ /\ ~Known(memory, node.part) /\ node.part \in memory.split
          /\ Descend(node)
    /\ UNCHANGED <<limit, root, memory, saved, merged, faults, asked>>

\* Defect: the checkpoint of an earlier attempt is not read.
RestartEmpty ==
    /\ status = "failed" /\ faults < MaxFaults /\ faults' = faults + 1
    /\ status' = "running"
    /\ todo' = <<Node(root, 0)>>
    /\ memory' = Nothing
    /\ UNCHANGED <<limit, root, saved, merged, asked>>

Asking(node) == status = "running" /\ todo # <<>> /\ node = Head(todo)
                /\ ~Known(memory, node.part) /\ node.part \notin memory.split

Asked(part) ==
    asked' = IF Known(saved, part) \/ part \in saved.split THEN asked \cup {part} ELSE asked

(* The answer of a part is saved at once; that of the whole batch is the      *)
(* batch's own result.                                                        *)
Answered ==
    \E node \in ToSet(todo) :
        /\ Asking(node)
        /\ \E answer \in Answers(node.part) :
             /\ answer # {} => Cardinality(Raw) < MaxReported
             /\ memory' = Learn(memory, node.part, answer)
             /\ saved' = IF node.depth > 0 THEN Learn(saved, node.part, answer) ELSE saved
        /\ todo' = Tail(todo)
        /\ Asked(node.part)
        /\ UNCHANGED <<limit, root, status, merged, faults>>

(* A truncated answer: remembered, and followed by the parts of the part.     *)
Truncated ==
    \E node \in ToSet(todo) :
        /\ Asking(node)
        /\ Asked(node.part)
        /\ IF node.depth < MaxDepth
           THEN /\ memory' = [memory EXCEPT !.split = @ \cup {node.part}]
                /\ saved' = [saved EXCEPT !.split = @ \cup {node.part}]
                /\ Descend(node)
           ELSE status' = "failed" /\ todo' = <<>> /\ UNCHANGED <<memory, saved>>
        /\ UNCHANGED <<limit, root, merged, faults>>

(* A failed request, a lost lease or the death of the process, before or      *)
(* after the answer, but before it is saved.                                  *)
Interrupted ==
    /\ status = "running" /\ todo # <<>>
    /\ faults < MaxFaults /\ faults' = faults + 1
    /\ IF Asking(Head(todo)) THEN Asked(Head(todo).part) ELSE UNCHANGED asked
    /\ status' = "failed" /\ todo' = <<>>
    /\ UNCHANGED <<limit, root, memory, saved, merged>>

(* The next attempt at the batch, from its checkpoint.                        *)
Restart ==
    /\ status = "failed" /\ faults < MaxFaults /\ faults' = faults + 1
    /\ status' = "running"
    /\ todo' = <<Node(root, 0)>>
    /\ memory' = saved
    /\ UNCHANGED <<limit, root, saved, merged, asked>>

---------------------------------------------------------------------------
Mapped(f) == [f EXCEPT !.reported = IF @ = None THEN None ELSE Remap(f.piece, @, f.side)]

Refused(f) == f.reported # None /\ Mapped(f).reported = None

(* combine_model_review_results: the findings of a unit have one identity, of  *)
(* which the most confident and then the first stays; the best remain.        *)
Better(f, g) ==
    \/ f.confidence > g.confidence
    \/ f.confidence = g.confidence /\ Span(f.piece)[1] < Span(g.piece)[1]

\* Defect: the last answer wins.
OnePerIdentityLast(found) ==
    {f \in found : \A g \in found : g.piece.unit = f.piece.unit => Span(g.piece)[1] <= Span(f.piece)[1]}

OnePerIdentity(found) ==
    {f \in found : ~\E g \in found : g.piece.unit = f.piece.unit /\ Better(g, f)}

Place(u) == CHOOSE i \in DOMAIN Units : Units[i] = u

Before(f, g) ==
    \/ f.confidence > g.confidence
    \/ f.confidence = g.confidence /\ Place(f.piece.unit) < Place(g.piece.unit)

Best(found) ==
    {f \in found : Cardinality({g \in found : Before(g, f)}) < MaxFindings}

Combined == Best(OnePerIdentity({Mapped(f) : f \in Raw}))

Finish ==
    /\ status = "running" /\ todo = <<>>
    /\ IF \E f \in Raw : Refused(f)
       THEN status' = "failed" /\ UNCHANGED merged
       ELSE status' = "done" /\ merged' = Combined
    /\ UNCHANGED <<limit, root, todo, memory, saved, faults, asked>>

Next == Recall \/ Answered \/ Truncated \/ Interrupted \/ Restart \/ Finish

Spec == Init /\ [][Next]_vars

---------------------------------------------------------------------------
(* The characters of an interval are in exactly one piece of exactly one part. *)
Once(u, span, parts) ==
    \A x \in span[1]..(span[2] - 1) :
        1 = Cardinality({at \in UNION {{<<i, k>> : k \in DOMAIN parts[i]} : i \in DOMAIN parts} :
                            LET piece == parts[at[1]][at[2]] IN
                            piece.unit = u /\ Span(piece)[1] <= x /\ x < Span(piece)[2]})

(* The batches of a plan hold every patch exactly once, no two                *)
(* pieces of one unit share a batch (the answer names the unit, not the       *)
(* piece), every batch fits the budget, and units of one group are not torn   *)
(* apart when they fit into one batch.                                        *)
PlanSound ==
    LET batches == Plan(Input, limit) IN
    /\ \A u \in ToSet(Units) : Once(u, <<0, Width(u)>>, batches)
    /\ \A i \in DOMAIN batches :
          /\ batches[i] # <<>>
          /\ BatchBytes(batches[i]) <= limit
          /\ \A j, k \in DOMAIN batches[i] : j # k => batches[i][j].unit # batches[i][k].unit
    /\ \A g \in {GroupOf[u] : u \in ToSet(Units)} :
          LET group == SelectSeq(Input, LAMBDA p : GroupOf[p.unit] = g) IN
          BatchBytes(group) <= limit =>
              \E i \in DOMAIN batches : \A p \in ToSet(group) :
                  p.unit \in {q.unit : q \in ToSet(batches[i])}

(* Across failed attempts and restarts no part is sent again once its answer, *)
(* or its truncation, is in the checkpoint.                                   *)
NothingAskedAgain == asked = {}

(* Every part of the text is planned once, and asked once although a process  *)
(* died between two parts.                                                    *)
PartsOnce == PlanSound /\ NothingAskedAgain

(* The result of a batch rests on answers that cover its text exactly once,   *)
(* however often it was split; every line it names is a line of the file the  *)
(* model meant, and a finding is only left out for one of the same identity   *)
(* that is at least as confident, or for the limit.                           *)
ResultTrue ==
    status = "done" =>
        /\ \A p \in ToSet(root) : Once(p.unit, Span(p), [leaf \in Leaves |-> leaf])
        /\ \A f \in merged : f.reported \in {None, NumberIn(f.piece.unit, 0, f.line, f.side)}
        /\ \A f \in Raw :
              \/ \E g \in merged : g.piece.unit = f.piece.unit /\ g.confidence >= f.confidence
              \/ /\ Cardinality(merged) = MaxFindings
                 /\ \A g \in merged : g.confidence >= f.confidence

(* A line the model names in a piece can be mapped, unless the piece was cut  *)
(* from a piece that does not begin with its hunk's header: that one's text    *)
(* is all the planner then has, and the answer of the batch is refused.       *)
OnlyHeaderlessRefused ==
    \A f \in Raw : Refused(f) => /\ Len(f.piece.spans) > 1
                                /\ Enclosing(f.piece, Len(f.piece.spans))[1] > 0

(* The result says what the answers said, at the lines they meant, and is     *)
(* refused only where a fragment's lines cannot be proved.                    *)
FindingsTrue == ResultTrue /\ OnlyHeaderlessRefused
=============================================================================
