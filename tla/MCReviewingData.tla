--------------------------- MODULE MCReviewingData ---------------------------
(* Small inputs for MCReviewing, MCWorkers and MCResponseStream: versions of   *)
(* a pull request, findings of two agents, event streams, answers of a model. *)
EXTENDS Naturals, Sequences, TLC
LOCAL INSTANCE SequencesExt

CONSTANT None

---------------------------------------------------------------------------
\* ReviewPreparation: paths are sequences of numbers, "v0" changes nothing.
LOCAL First == <<1>>
LOCAL Second == <<1, 2>>
LOCAL Third == <<1, 3>>
LOCAL Deep == <<1, 2, 1>>
LOCAL Other == <<2, 1>>
AllPaths == {First, Second, Third, Deep, Other}

LOCAL Text(size) == [binary |-> FALSE, size |-> size, before |-> size, after |-> size]
LOCAL Binary == [binary |-> TRUE, size |-> 0, before |-> 1, after |-> 1]
LOCAL Nothing == [path \in AllPaths |-> None]

AllVersions == {"v0", "v1", "v2", "v3", "v4"}
HeadOfVersion == [v \in AllVersions |-> IF v = "v3" THEN "h2" ELSE "h1"]
ChangeOf ==
    [v0 |-> Nothing,
     v1 |-> [Nothing EXCEPT ![First] = Text(1), ![Second] = Text(2), ![Third] = Text(3)],
     v2 |-> [Nothing EXCEPT ![First] = Binary, ![Second] = Text(1), ![Deep] = Text(1),
                            ![Other] = Text(1)],
     v3 |-> [Nothing EXCEPT ![Second] = Text(1)],
     v4 |-> [path \in AllPaths |-> Text(1)]]
RuleFiles == [directory \in {<<>>, <<1>>, <<1, 2>>, <<2>>} |->
           IF directory = <<2>> THEN [kind |-> "bad", size |-> 1]
           ELSE IF directory = <<1>> THEN [kind |-> "empty", size |-> 0]
           ELSE [kind |-> "text", size |-> 1]]
RelationOf == [path \in AllPaths |-> IF path = Other THEN "y" ELSE "x"]

---------------------------------------------------------------------------
\* AgentWorkflow: two units of two files; the summary repeats a finding.
LOCAL Candidate(unit, file, title, line, side, confidence, hint, evidence) ==
    [unit |-> unit, file |-> file, category |-> "logic", title |-> title, line |-> line, side |-> side,
     confidence |-> confidence, severity |-> 1, hint |-> hint, evidence |-> evidence]
LOCAL PatchHunk(left, right, lefts, rights, marks) ==
    [start |-> [left |-> left, right |-> right], count |-> [left |-> lefts, right |-> rights],
     marks |-> marks]

AgentNames == <<"security", "convention", "logic">>
UnitDomains == (1 :> {"security", "logic"} @@ 2 :> {"logic"})
UnitCandidates == {Candidate(1, 1, "t1", 1, "right", 1, None, {"w1"}),
               Candidate(1, 1, "t1", 3, "right", 2, None, {"w2"}),
               Candidate(2, 2, "t2", 1, "left", 1, "h", {"w1"})}
WholeCandidates == {Candidate(1, 2, "t1", 1, "right", 3, None, {"w1"}),
                      Candidate(1, 1, "t3", 1, "right", 3, "h", {"w1"})}
UnitPatch == (1 :> {PatchHunk(1, 1, 1, 1, <<"cut", "new">>)} @@ 2 :> {PatchHunk(1, 1, 1, 0, <<"cut">>)})
UnitSource == (1 :> <<{"w1"}, {"w2"}, {"w2"}>> @@ 2 :> <<{"w3"}>>)

---------------------------------------------------------------------------
\* ResponseStream: tokens of a body, what the data of an event decodes to,
\* and bodies whose lines end in any of the three ways.
LOCAL Value(text) == [kind |-> "value", text |-> text]
LOCAL Name(text) == [kind |-> "name", text |-> text]
LOCAL Response(output, usage) == [status |-> "completed", output |-> output, usage |-> usage]
LOCAL Piece(type, text, usage) ==
    [type |-> type, text |-> text, usage |-> usage, response |-> None, whole |-> None]
LOCAL Empty == Piece(None, <<>>, None)
LOCAL Split == Piece("delta", <<"f">>, 4)
LOCAL Payloads ==
    [piece |-> Piece(None, <<"a">>, None),
     typed |-> Piece("delta", <<"b">>, None),
     final |-> Piece(None, <<"c">>, None),
     usage |-> Piece(None, <<>>, 1),
     ended |-> [Empty EXCEPT !.type = "completed", !.response = Response(None, None)],
     full |-> [Empty EXCEPT !.response = Response(<<"d">>, 2)],
     whole |-> [Empty EXCEPT !.whole = Response(<<"e">>, 3)]]
DecodedData(lines) ==
    IF lines = <<"split1", "split2">> THEN Split
    ELSE IF Len(lines) = 1 /\ lines[1] \in DOMAIN Payloads THEN Payloads[lines[1]] ELSE None

LOCAL Json == <<Name("other"), Value("json")>>
JsonBody(body) == IF body = Json THEN Response(<<"j">>, 5) ELSE None

LOCAL Event(name) == <<Name("event"), Value(name)>>
LOCAL Data(name) == <<Name("data"), Value(name)>>
LOCAL Comment == <<Value("note")>>
LOCAL Scripts ==
    {<<Event("delta"), Data("piece"), <<>>, Event("completed"), Data("full"), <<>>>>,
     <<Event("delta"), Data("piece"), Data("split1"), Event("done"), Data("final"), Data("usage")>>,
     <<Comment, Event("delta"), Data("piece"), Event("done"), Data("final"), <<>>, Data("usage")>>,
     <<Data("split1"), Data("split2"), <<>>, Data("typed"), <<>>, Data("[DONE]")>>,
     <<Data("typed"), <<>>, Data("usage"), <<>>, Data("ended"), <<>>>>,
     <<Event("delta"), Data("piece"), Event("delta"), Data("piece"), Event("delta"), Data("piece")>>,
     <<Event("unknown"), Data("whole")>>,
     <<Comment, <<>>>>}
LOCAL CR == [kind |-> "CR", text |-> ""]
LOCAL LF == [kind |-> "LF", text |-> ""]
LOCAL Written(script, ends) == FlattenSeq([i \in DOMAIN script |-> script[i] \o ends[i]])
LOCAL Cut(script, ends) == Written(Front(script), ends) \o Last(script)
JsonOnly == {Json}
AllBodies ==
    JsonOnly
    \cup UNION {{Written(s, ends) : ends \in [DOMAIN s -> {<<CR>>, <<LF>>, <<CR, LF>>}]} : s \in Scripts}
    \cup UNION {{Cut(s, ends) : ends \in [1..(Len(s) - 1) -> {<<LF>>, <<CR, LF>>}]} : s \in Scripts}

---------------------------------------------------------------------------
\* ModelAnswer: findings with references by number, by key, or unknown ones.
LOCAL Finding(unit, rule, file, context) ==
    [unit_key |-> unit, rule_reference |-> rule, file |-> file, context_references |-> context]
LOCAL Number(n) == [number |-> n, key |-> ""]
LOCAL Key(k) == [number |-> 0, key |-> k]
LOCAL Rules == [path |-> "AGENTS"]
LOCAL Findings ==
    {Finding(Number(1), Rules, "f1", <<Number(1)>>),
     Finding(Number(2), None, "f1", <<>>),
     Finding(Key("k2"), None, "f2", <<Key("e1"), Number(1)>>),
     Finding(Key("k1"), None, None, <<>>),
     Finding(Number(3), None, None, <<>>),
     Finding(Number(1), [path |-> "other"], None, <<>>),
     Finding(Number(1), None, None, <<Number(2)>>)}
LOCAL AnswerText(form, verdict, found) == [form |-> form, verdict |-> verdict, findings |-> found]
AnswerUnits == <<[key |-> "k1", file |-> "f1"], [key |-> "k2", file |-> "f2"]>>
AnswerTexts ==
    {AnswerText("empty", "none", <<>>), AnswerText("malformed", "none", <<>>)}
    \cup {AnswerText("valid", v, <<>>) : v \in {"no_actionable_issue", "issues_found", "insufficient_context"}}
    \cup {AnswerText("valid", v, <<f>>) : v \in {"issues_found", "no_actionable_issue"}, f \in Findings}
    \cup {AnswerText("valid", "issues_found", <<f, Finding(Number(1), Rules, "f1", <<>>)>>) : f \in Findings}
=============================================================================
