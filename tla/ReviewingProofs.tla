--------------------------- MODULE ReviewingProofs ---------------------------
(***************************************************************************)
(* Proofs about what a review learns from outside, for any pull request,   *)
(* page size, limit and answer: that an accepted answer is sound and what  *)
(* it cost is reported, that a stream is read the same however it is cut,   *)
(* that a conclusive result of the checks is so, and that a plan tells the  *)
(* truth about its pull request.                                            *)
(***************************************************************************)
EXTENDS Reviewing, FiniteSetTheorems, FunctionTheorems, SequenceTheorems, WellFoundedInduction, TLAPS

-----------------------------------------------------------------------------
(* The answers of a model.                                                 *)

Costs == Usages \cup {Absent}

\* The four fields of a result.
IsResult(r) ==
    r = [kind |-> r.kind, usage |-> r.usage, findings |-> r.findings, verdict |-> r.verdict]

VerdictAgrees(r) ==
    /\ r.verdict = "issues_found" => r.findings # <<>>
    /\ r.verdict = "no_actionable_issue" => r.findings = <<>>

Listed(s) == s \in Seq({s[i] : i \in DOMAIN s})

\* What a parser makes of one answer: a known cost if it is accepted.
IsParsed(r) ==
    /\ IsResult(r)
    /\ r.usage \in Costs
    /\ r.kind # "unknown_reference"
    /\ r.kind = "accepted" => r.usage \in Usages /\ VerdictAgrees(r) /\ Listed(r.findings)

\* The references of every finding are those of the input.
Restored(r) ==
    ~permits.summary =>
        \A i \in DOMAIN r.findings :
            LET finding == r.findings[i] IN
            /\ \E n \in DOMAIN InputUnits : /\ InputUnits[n].key = finding.unit_key
                                            /\ finding.file \in {Absent, InputUnits[n].file}
            /\ finding.rule_reference \in Documented \cup {Absent}
            /\ finding.context_references \subseteq Answer!Entries(Evidence)

LEMMA ErrorParsed ==
    ASSUME NEW kind \in {"invalid", "exception", "refused", "truncated", "contract", "transport"},
           NEW usage \in Costs
    PROVE  /\ IsParsed(Answer!Error(kind, usage))
           /\ Answer!Error(kind, usage).kind = kind
           /\ Answer!Error(kind, usage).usage = usage
<1>1. Answer!Error(kind, usage) = [kind |-> kind, usage |-> usage, findings |-> <<>>, verdict |-> Absent]
  BY DEF Answer!Error, Answer!NoResult
<1> QED BY <1>1 DEF IsParsed, IsResult

LEMMA StructuredParsed ==
    ASSUME NEW text \in Texts, NEW usage \in Usages
    PROVE  /\ IsParsed(Answer!Structured(text, usage))
           /\ Answer!Structured(text, usage).kind \in {"accepted", "invalid", "contract"}
<1>1. usage \in Costs /\ Absent \in Costs
  BY DEF Costs
<1>2. Listed(text.findings)
  BY AnswerAssumption DEF Listed
<1>3. CASE text.form = "empty"
  BY <1>1, <1>3, ErrorParsed DEF Answer!Structured
<1>4. CASE /\ text.form # "empty"
           /\ \/ text.form = "malformed"
              \/ text.verdict = "no_actionable_issue" /\ text.findings # <<>>
              \/ text.verdict = "issues_found" /\ text.findings = <<>>
  <2>1. Answer!Structured(text, usage) = Answer!Error("contract", usage)
    BY <1>4 DEF Answer!Structured
  <2> QED BY <1>1, <2>1, ErrorParsed
<1>5. CASE /\ text.form # "empty"
           /\ ~ \/ text.form = "malformed"
                \/ text.verdict = "no_actionable_issue" /\ text.findings # <<>>
                \/ text.verdict = "issues_found" /\ text.findings = <<>>
  <2>1. Answer!Structured(text, usage) =
            [kind |-> "accepted", usage |-> usage, findings |-> text.findings, verdict |-> text.verdict]
    BY <1>5 DEF Answer!Structured
  <2> QED BY <1>1, <1>2, <1>5, <2>1 DEF IsParsed, IsResult, VerdictAgrees
<1> QED BY <1>3, <1>4, <1>5

LEMMA PayloadFields ==
    ASSUME NEW payload \in Answer!Payloads
    PROVE  payload.text \in Texts \cup {Absent} /\ payload.usage \in Usages
BY DEF Answer!Payloads

LEMMA BodyParsed ==
    ASSUME NEW payload \in Answer!Payloads
    PROVE  /\ IsParsed(Answer!Body(payload))
           /\ Answer!Body(payload).kind # "truncated"
<1>1. payload.text \in Texts \cup {Absent} /\ payload.usage \in Usages /\ Absent \in Costs
  BY PayloadFields DEF Costs
<1>2. CASE payload.refusal
  BY <1>1, <1>2, ErrorParsed DEF Answer!Body
<1>3. CASE ~payload.refusal /\ (payload.text = Absent \/ payload.flaw \in {"missing", "contradictory"})
  <2>1. Answer!Body(payload) = Answer!Error("invalid", Absent)
    BY <1>3 DEF Answer!Body
  <2> QED BY <1>1, <2>1, ErrorParsed
<1>4. CASE ~payload.refusal /\ ~(payload.text = Absent \/ payload.flaw \in {"missing", "contradictory"})
  <2>1. payload.text \in Texts
    BY <1>1, <1>4
  <2>2. /\ IsParsed(Answer!Structured(payload.text, payload.usage))
        /\ Answer!Structured(payload.text, payload.usage).kind \in {"accepted", "invalid", "contract"}
    BY <1>1, <2>1, StructuredParsed
  <2>3. Answer!Body(payload) \in {Answer!Error("exception", Absent),
                                  Answer!Structured(payload.text, payload.usage)}
    BY <1>4 DEF Answer!Body
  <2> QED BY <1>1, <2>2, <2>3, ErrorParsed
<1> QED BY <1>2, <1>3, <1>4

LEMMA SuccessParsed ==
    ASSUME NEW payload \in Answer!Payloads, protocol \in Protocols
    PROVE  IsParsed(Answer!ParseSuccess(payload))
<1>1. Answer!KnownUsage(payload) \in Costs /\ Absent \in Costs
  BY PayloadFields DEF Answer!KnownUsage, Costs
<1>2. IsParsed(Answer!Body(payload))
  BY BodyParsed
<1>3. \A usage \in Costs, kind \in {"invalid", "refused", "truncated"} : IsParsed(Answer!Error(kind, usage))
  BY ErrorParsed
<1>4. IsParsed(Answer!ParseResponses(payload))
  BY <1>1, <1>2, <1>3 DEF Answer!ParseResponses
<1>5. IsParsed(Answer!ParseChatCompletions(payload))
  BY <1>1, <1>2, <1>3 DEF Answer!ParseChatCompletions
<1>6. IsParsed(Answer!ParseMessages(payload))
  BY <1>1, <1>2, <1>3 DEF Answer!ParseMessages
<1> QED BY <1>4, <1>5, <1>6, AnswerAssumption DEF Answer!ParseSuccess

LEMMA NormalizedRestored ==
    ASSUME NEW finding, Answer!Referenced(finding)
    PROVE  LET restored == Answer!Normalized(finding) IN
           /\ \E n \in DOMAIN InputUnits : /\ InputUnits[n].key = restored.unit_key
                                           /\ restored.file \in {Absent, InputUnits[n].file}
           /\ restored.rule_reference \in Documented \cup {Absent}
           /\ restored.context_references \subseteq Answer!Entries(Evidence)
<1> DEFINE key == Answer!Resolved(finding.unit_key, Answer!UnitKeys)
<1>1. \A reference, known : Answer!Resolved(reference, known) # Absent =>
          Answer!Resolved(reference, known) \in Answer!Entries(known)
  BY DEF Answer!Resolved, Answer!Entries
<1>2. key \in Answer!Entries(Answer!UnitKeys)
  BY <1>1 DEF Answer!Referenced
<1>3. PICK m \in DOMAIN InputUnits : InputUnits[m].key = key
  BY <1>2 DEF Answer!Entries, Answer!UnitKeys
<1> HIDE DEF key
<1>4. PICK n \in DOMAIN InputUnits :
          InputUnits[n].key = key /\ Answer!FileOf(key) = InputUnits[n].file
  BY <1>3 DEF Answer!FileOf
<1>5. finding.file \in {Absent, InputUnits[n].file}
  BY <1>4 DEF Answer!Referenced, key
<1>6. finding.rule_reference # Absent => finding.rule_reference.path \in Documented
  BY DEF Answer!Referenced
<1>7. {Answer!Resolved(c, Evidence) : c \in Answer!Entries(finding.context_references)}
          \subseteq Answer!Entries(Evidence)
  BY <1>1 DEF Answer!Referenced
<1> QED BY <1>4, <1>5, <1>6, <1>7 DEF Answer!Normalized, key

\* The three things that become of a parsed answer once its references are compared.
LEMMA References ==
    ASSUME NEW r, IsResult(r),
           r.kind = "accepted" => VerdictAgrees(r) /\ Listed(r.findings),
           NEW kind, NEW usage
    PROVE  LET w == Answer!WithReferences(r, kind, usage) IN
           \/ w = r /\ (permits.summary \/ r.kind # "accepted")
           \/ w = Answer!Error(kind, usage) /\ r.kind = "accepted"
           \/ /\ IsResult(w) /\ w.kind = "accepted" /\ r.kind = "accepted" /\ w.usage = r.usage
              /\ VerdictAgrees(w) /\ Restored(w)
<1> DEFINE all == [i \in DOMAIN r.findings |-> Answer!Normalized(r.findings[i])]
<1>1. CASE permits.summary \/ r.kind # "accepted"
  BY <1>1 DEF Answer!WithReferences
<1>2. CASE ~permits.summary /\ r.kind = "accepted"
           /\ \E i \in DOMAIN r.findings : ~Answer!Referenced(r.findings[i])
  BY <1>2 DEF Answer!WithReferences
<1>3. CASE ~permits.summary /\ r.kind = "accepted"
           /\ \A i \in DOMAIN r.findings : Answer!Referenced(r.findings[i])
  <2> DEFINE w == [kind |-> r.kind, usage |-> r.usage, findings |-> all, verdict |-> r.verdict]
  <2>1. Answer!WithReferences(r, kind, usage) = w
    <3>1. Answer!WithReferences(r, kind, usage) = [r EXCEPT !.findings = all]
      BY <1>3 DEF Answer!WithReferences
    <3> HIDE DEF all
    <3> QED BY <3>1 DEF IsResult
  <2>2. VerdictAgrees(r) /\ Listed(r.findings)
    BY <1>3
  <2>3. r.findings # <<>> => all # <<>>
    BY <2>2 DEF Listed
  <2>4. r.findings = <<>> => all = <<>>
    OBVIOUS
  <2>5. VerdictAgrees(w)
    BY <2>2, <2>3, <2>4 DEF VerdictAgrees
  <2>6. Restored(w)
    <3> SUFFICES ASSUME NEW i \in DOMAIN all
                 PROVE  LET finding == all[i] IN
                        /\ \E n \in DOMAIN InputUnits : /\ InputUnits[n].key = finding.unit_key
                                                        /\ finding.file \in {Absent, InputUnits[n].file}
                        /\ finding.rule_reference \in Documented \cup {Absent}
                        /\ finding.context_references \subseteq Answer!Entries(Evidence)
      BY DEF Restored
    <3>1. Answer!Referenced(r.findings[i]) /\ all[i] = Answer!Normalized(r.findings[i])
      BY <1>3
    <3> HIDE DEF all
    <3> QED BY <3>1, NormalizedRestored
  <2>7. IsResult(w) /\ w.kind = "accepted" /\ w.usage = r.usage
    BY <1>3 DEF IsResult
  <2> QED BY <1>3, <2>1, <2>5, <2>6, <2>7
<1> QED BY <1>1, <1>2, <1>3

\* The inductive invariant of a call: one request is settled before the second
\* one, with the cost its error names.
AnswerInv ==
    /\ protocol \in Protocols
    /\ request \in {"initial", "compact", "repair", "done"}
    /\ request = "initial" => settled = <<>>
    /\ request \in {"compact", "repair"} => first.usage \in Costs /\ settled = <<first.usage>>
    /\ request # "done" => given.kind = "none"
    /\ request = "done" => AnswerReported

\* What a call ends with, and what its requests were settled with.
Accounted(r, costs) ==
    LET cost(n) == IF n \in DOMAIN costs THEN Answer!FailedUsage(costs[n]) ELSE 0
        paid == cost(1) + cost(2) IN
    /\ Len(costs) <= 2
    /\ r.usage # Absent => r.usage = paid
    /\ (r.usage = Absent /\ r.kind # "unknown_reference") => paid = 0
    /\ r.kind = "accepted" => costs[Len(costs)] # Absent

LEMMA EndsReported ==
    ASSUME NEW r, r.kind = "accepted" => VerdictAgrees(r) /\ Restored(r),
           Accounted(r, settled'), given' = r, permits' = permits
    PROVE  AnswerReported'
<1>1. Answer!AnswerSound'
  BY DEF Answer!AnswerSound, VerdictAgrees, Restored, Answer!Entries
<1>2. Answer!UsageReported'
  BY DEF Accounted, Answer!UsageReported, Answer!FailedUsage, Answer!CombineUsage
<1> QED BY <1>1, <1>2 DEF AnswerReported, Answer!AnswerReported

LEMMA BatchParsed ==
    ASSUME NEW payload \in Answer!Payloads, protocol \in Protocols
    PROVE  LET r == Answer!ParseBatchResponse(payload) IN
           /\ r.usage \in Costs /\ IsResult(r) /\ r.kind # "unknown_reference"
           /\ r.kind = "accepted" => r.usage \in Usages /\ VerdictAgrees(r) /\ Restored(r)
<1> DEFINE s == Answer!ParseSuccess(payload)
<1>1. IsParsed(s)
  BY SuccessParsed
<1>2. Answer!ParseBatchResponse(payload) = Answer!WithReferences(s, "contract", s.usage)
  BY DEF Answer!ParseBatchResponse
<1> HIDE DEF s
<1>3. s.usage \in Costs /\ s.kind # "unknown_reference" /\ IsResult(s)
      /\ (s.kind = "accepted" => s.usage \in Usages /\ VerdictAgrees(s) /\ Listed(s.findings))
  BY <1>1 DEF IsParsed
<1>4. IsResult(Answer!Error("contract", s.usage))
      /\ Answer!Error("contract", s.usage).usage = s.usage
      /\ Answer!Error("contract", s.usage).kind = "contract"
  BY <1>3, ErrorParsed DEF IsParsed
<1> DEFINE w == Answer!WithReferences(s, "contract", s.usage)
<1>5. \/ w = s /\ (permits.summary \/ s.kind # "accepted")
      \/ w = Answer!Error("contract", s.usage) /\ s.kind = "accepted"
      \/ /\ IsResult(w) /\ w.kind = "accepted" /\ s.kind = "accepted" /\ w.usage = s.usage
         /\ VerdictAgrees(w) /\ Restored(w)
  BY <1>3, References
<1> HIDE DEF w
<1>6. permits.summary => Restored(s)
  BY DEF Restored
<1> QED BY <1>2, <1>3, <1>4, <1>5, <1>6 DEF w

LEMMA TogetherIs ==
    ASSUME NEW r, IsResult(r)
    PROVE  Answer!Together(r) =
               [kind |-> r.kind,
                usage |-> Answer!FailedUsage(first.usage) + Answer!FailedUsage(r.usage),
                findings |-> r.findings, verdict |-> r.verdict]
<1> DEFINE paid == Answer!FailedUsage(first.usage) + Answer!FailedUsage(r.usage)
<1>1. Answer!Together(r) = [r EXCEPT !.usage = paid]
  BY DEF Answer!Together, Answer!CombineUsage
<1> HIDE DEF paid
<1>2. [r EXCEPT !.usage = paid] = [kind |-> r.kind, usage |-> paid, findings |-> r.findings, verdict |-> r.verdict]
  BY DEF IsResult
<1> QED BY <1>1, <1>2 DEF paid

LEMMA CostIs ==
    ASSUME NEW u \in Costs
    PROVE  Answer!FailedUsage(u) \in Nat /\ (u \in Usages => u # Absent)
BY AnswerAssumption DEF Answer!FailedUsage, Costs

LEMMA OneAccounted ==
    ASSUME NEW r, r.usage \in Costs, r.kind # "unknown_reference", r.kind = "accepted" => r.usage \in Usages
    PROVE  Accounted(r, <<r.usage>>)
<1>1. Answer!FailedUsage(r.usage) \in Nat
      /\ (r.usage # Absent => Answer!FailedUsage(r.usage) = r.usage)
      /\ (r.usage = Absent => Answer!FailedUsage(r.usage) = 0)
      /\ (r.kind = "accepted" => r.usage # Absent)
  BY AnswerAssumption DEF Answer!FailedUsage, Costs
<1>2. DOMAIN <<r.usage>> = {1} /\ Len(<<r.usage>>) = 1 /\ <<r.usage>>[1] = r.usage
  OBVIOUS
<1> QED BY <1>1, <1>2 DEF Accounted

LEMMA NoneAccounted == Accounted(Answer!Error("transport", Absent), <<>>)
BY AnswerAssumption DEF Accounted, Answer!Error

\* After a retry: the costs of both answers, of the first one alone when no
\* second one came.
LEMMA BothAccounted ==
    ASSUME first.usage \in Costs, NEW u \in Costs, NEW r,
           r.usage = Answer!FailedUsage(first.usage) + Answer!FailedUsage(u),
           r.kind = "accepted" => u \in Usages
    PROVE  Accounted(r, <<first.usage, u>>)
<1>1. Answer!FailedUsage(first.usage) \in Nat /\ Answer!FailedUsage(u) \in Nat
      /\ (u \in Usages => u # Absent)
  BY CostIs
<1>2. r.usage # Absent
  BY <1>1, AnswerAssumption
<1>3. DOMAIN <<first.usage, u>> = {1, 2} /\ Len(<<first.usage, u>>) = 2
      /\ <<first.usage, u>>[1] = first.usage /\ <<first.usage, u>>[2] = u
  OBVIOUS
<1> QED BY <1>1, <1>2, <1>3 DEF Accounted

LEMMA FirstAccounted ==
    ASSUME first.usage \in Costs, NEW r, r.kind = "transport",
           r.usage = Answer!FailedUsage(first.usage) + Answer!FailedUsage(Absent)
    PROVE  Accounted(r, <<first.usage>>)
<1>1. Answer!FailedUsage(first.usage) \in Nat /\ Answer!FailedUsage(Absent) = 0
  BY CostIs DEF Answer!FailedUsage
<1>2. r.usage # Absent
  BY <1>1, AnswerAssumption
<1>3. DOMAIN <<first.usage>> = {1} /\ Len(<<first.usage>>) = 1 /\ <<first.usage>>[1] = first.usage
  OBVIOUS
<1> QED BY <1>1, <1>2, <1>3 DEF Accounted

LEMMA AnswerInitial == ReviewingInit => AnswerInv
BY DEF ReviewingInit, Answer!AnswerInit, AnswerInv, Answer!NoResult

LEMMA InitialStep ==
    ASSUME AnswerInv, Answer!InitialAnswer
    PROVE  AnswerInv'
<1>1. request = "initial" /\ settled = <<>> /\ protocol \in Protocols /\ given.kind = "none"
      /\ UNCHANGED <<protocol, permits>>
  BY DEF AnswerInv, Answer!InitialAnswer
<1>2. PICK payload \in Answer!Payloads :
          LET r == Answer!ParseBatchResponse(payload) IN
          /\ settled' = Append(settled, r.usage)
          /\ \/ Answer!Retry("compact", r)
             \/ Answer!Retry("repair", r)
             \/ Answer!Finish(r)
  BY DEF Answer!InitialAnswer
<1> DEFINE r == Answer!ParseBatchResponse(payload)
<1>3. /\ r.usage \in Costs /\ IsResult(r) /\ r.kind # "unknown_reference"
      /\ r.kind = "accepted" => r.usage \in Usages /\ VerdictAgrees(r) /\ Restored(r)
  BY <1>1, BatchParsed
<1> HIDE DEF r
<1>4. settled' = <<r.usage>>
  BY <1>1, <1>2 DEF r
<1>5. CASE Answer!Retry("compact", r) \/ Answer!Retry("repair", r)
  BY <1>1, <1>3, <1>4, <1>5 DEF Answer!Retry, AnswerInv
<1>6. CASE Answer!Finish(r)
  <2>1. AnswerReported'
    BY <1>1, <1>3, <1>4, <1>6, OneAccounted, EndsReported DEF Answer!Finish
  <2> QED BY <1>1, <1>6, <2>1 DEF AnswerInv, Answer!Finish
<1> QED BY <1>2, <1>5, <1>6 DEF r

LEMMA TwoLong ==
    ASSUME NEW a, NEW b
    PROVE  Append(<<a>>, b) = <<a, b>>
<1>1. <<a>> \in Seq({a, b}) /\ b \in {a, b}
  OBVIOUS
<1>2. /\ Append(<<a>>, b) \in Seq({a, b}) /\ Len(Append(<<a>>, b)) = 2
      /\ Append(<<a>>, b)[1] = a /\ Append(<<a>>, b)[2] = b
  BY <1>1
<1>3. <<a, b>> \in Seq({a, b}) /\ Len(<<a, b>>) = 2 /\ <<a, b>>[1] = a /\ <<a, b>>[2] = b
  OBVIOUS
<1>4. \A s, t \in Seq({a, b}) : Len(s) = 2 /\ Len(t) = 2 /\ s[1] = t[1] /\ s[2] = t[2] => s = t
  <2> SUFFICES ASSUME NEW s \in Seq({a, b}), NEW t \in Seq({a, b}), Len(s) = Len(t),
                      \A i \in 1..Len(s) : s[i] = t[i]
               PROVE  s = t
    OBVIOUS
  <2> QED OBVIOUS
<1> QED BY <1>2, <1>3, <1>4

LEMMA RepairStep ==
    ASSUME AnswerInv, Answer!RepairAnswer
    PROVE  AnswerInv'
<1>1. /\ settled = <<first.usage>> /\ first.usage \in Costs /\ protocol \in Protocols
      /\ UNCHANGED <<protocol, permits>>
  BY DEF AnswerInv, Answer!RepairAnswer
<1>2. PICK payload \in Answer!Payloads :
          LET r == Answer!ParseBatchResponse(payload) IN
          settled' = Append(settled, r.usage) /\ Answer!Finish(Answer!Together(r))
  BY DEF Answer!RepairAnswer
<1> DEFINE r == Answer!ParseBatchResponse(payload)
           t == Answer!Together(r)
<1>3. /\ r.usage \in Costs /\ IsResult(r)
      /\ r.kind = "accepted" => r.usage \in Usages /\ VerdictAgrees(r) /\ Restored(r)
  BY <1>1, BatchParsed
<1> HIDE DEF r
<1>4. settled' = <<first.usage, r.usage>>
  BY <1>1, <1>2, TwoLong DEF r
<1>5. t = [kind |-> r.kind, usage |-> Answer!FailedUsage(first.usage) + Answer!FailedUsage(r.usage),
           findings |-> r.findings, verdict |-> r.verdict]
  BY <1>3, TogetherIs
<1> HIDE DEF t
<1>6. t.kind = r.kind /\ t.findings = r.findings /\ t.verdict = r.verdict
      /\ t.usage = Answer!FailedUsage(first.usage) + Answer!FailedUsage(r.usage)
  BY <1>5
<1>7. Accounted(t, settled')
  BY <1>1, <1>3, <1>4, <1>6, BothAccounted
<1>8. t.kind = "accepted" => VerdictAgrees(t) /\ Restored(t)
  BY <1>3, <1>6 DEF VerdictAgrees, Restored
<1>9. request' = "done" /\ given' = t
  BY <1>2 DEF Answer!Finish, r, t
<1>10. AnswerReported'
  BY <1>1, <1>7, <1>8, <1>9, EndsReported
<1> QED BY <1>1, <1>9, <1>10 DEF AnswerInv

LEMMA CompactStep ==
    ASSUME AnswerInv, Answer!CompactAnswer
    PROVE  AnswerInv'
<1>1. /\ settled = <<first.usage>> /\ first.usage \in Costs /\ protocol \in Protocols
      /\ UNCHANGED <<protocol, permits>>
  BY DEF AnswerInv, Answer!CompactAnswer
<1>2. PICK payload \in Answer!Payloads :
          LET s == Answer!ParseSuccess(payload) IN
          /\ settled' = Append(settled, s.usage)
          /\ Answer!Finish(Answer!WithReferences(Answer!Together(s), "unknown_reference", Absent))
  BY DEF Answer!CompactAnswer
<1> DEFINE s == Answer!ParseSuccess(payload)
           t == Answer!Together(s)
           w == Answer!WithReferences(t, "unknown_reference", Absent)
           failed == Answer!Error("unknown_reference", Absent)
<1>3. IsParsed(s)
  BY <1>1, SuccessParsed
<1>4. settled' = <<first.usage, s.usage>> /\ request' = "done" /\ given' = w
  BY <1>1, <1>2, TwoLong DEF Answer!Finish
<1> HIDE DEF s
<1>5. /\ s.usage \in Costs /\ IsResult(s) /\ s.kind # "unknown_reference"
      /\ s.kind = "accepted" => s.usage \in Usages /\ VerdictAgrees(s) /\ Listed(s.findings)
  BY <1>3 DEF IsParsed
<1>6. t = [kind |-> s.kind, usage |-> Answer!FailedUsage(first.usage) + Answer!FailedUsage(s.usage),
           findings |-> s.findings, verdict |-> s.verdict]
  BY <1>5, TogetherIs
<1> HIDE DEF t
<1>7. /\ t.kind = s.kind /\ t.findings = s.findings /\ t.verdict = s.verdict /\ IsResult(t)
      /\ t.usage = Answer!FailedUsage(first.usage) + Answer!FailedUsage(s.usage)
  BY <1>6 DEF IsResult
<1>8. t.kind = "accepted" => VerdictAgrees(t) /\ Listed(t.findings)
  BY <1>5, <1>7 DEF VerdictAgrees
<1>9. \/ w = t /\ (permits.summary \/ t.kind # "accepted")
      \/ w = failed /\ t.kind = "accepted"
      \/ /\ IsResult(w) /\ w.kind = "accepted" /\ t.kind = "accepted" /\ w.usage = t.usage
         /\ VerdictAgrees(w) /\ Restored(w)
  BY <1>7, <1>8, References
<1> HIDE DEF w
<1>10. CASE w = failed
  <2>1. w.usage = Absent /\ w.kind = "unknown_reference"
    BY <1>10 DEF Answer!Error
  <2>2. Accounted(w, settled')
    BY <1>4, <2>1 DEF Accounted
  <2>3. AnswerReported'
    BY <1>1, <1>4, <2>1, <2>2, EndsReported
  <2> QED BY <1>1, <1>4, <2>3 DEF AnswerInv
<1>11. CASE w # failed
  <2>1. w.usage = t.usage /\ w.kind = t.kind
    BY <1>9, <1>11
  <2>2. w.kind = "accepted" => VerdictAgrees(w) /\ Restored(w)
    BY <1>8, <1>9, <1>11 DEF Restored
  <2>3. Accounted(w, settled')
    BY <1>1, <1>4, <1>5, <1>7, <2>1, BothAccounted
  <2>4. AnswerReported'
    BY <1>1, <1>4, <2>2, <2>3, EndsReported
  <2> QED BY <1>1, <1>4, <2>4 DEF AnswerInv
<1> QED BY <1>10, <1>11

LEMMA NoAnswerStep ==
    ASSUME AnswerInv, Answer!NoAnswer
    PROVE  AnswerInv'
<1> DEFINE e == Answer!Error("transport", Absent)
           t == Answer!Together(e)
<1>1. /\ protocol \in Protocols /\ UNCHANGED <<protocol, permits, settled>>
      /\ request' = "done" /\ request \in {"initial", "compact", "repair"}
      /\ given' = IF request = "initial" THEN e ELSE t
  BY DEF AnswerInv, Answer!NoAnswer, Answer!Finish
<1>2. IsResult(e) /\ e.kind = "transport" /\ e.usage = Absent
  BY DEF Answer!Error, IsResult
<1>3. t.kind = "transport" /\ t.usage = Answer!FailedUsage(first.usage) + Answer!FailedUsage(Absent)
  BY <1>2, TogetherIs
<1>4. CASE request = "initial"
  <2>1. given' = e /\ settled' = <<>>
    BY <1>1, <1>4 DEF AnswerInv
  <2>2. Accounted(e, settled')
    BY <2>1, NoneAccounted
  <2> HIDE DEF e, t
  <2>3. AnswerReported'
    BY <1>1, <1>2, <2>1, <2>2, EndsReported
  <2> QED BY <1>1, <2>3 DEF AnswerInv
<1>5. CASE request # "initial"
  <2> HIDE DEF e, t
  <2>1. given' = t /\ settled' = <<first.usage>> /\ first.usage \in Costs
    BY <1>1, <1>5 DEF AnswerInv
  <2>2. Accounted(t, settled')
    BY <1>3, <2>1, FirstAccounted
  <2>3. AnswerReported'
    BY <1>1, <1>3, <2>1, <2>2, EndsReported
  <2> QED BY <1>1, <2>3 DEF AnswerInv
<1> QED BY <1>4, <1>5

LEMMA AnswerKept ==
    ASSUME AnswerInv, UNCHANGED answerVars
    PROVE  AnswerInv'
BY DEF answerVars, AnswerInv, AnswerReported, Answer!AnswerReported, Answer!AnswerSound, Answer!UsageReported

LEMMA AnswerNext == AnswerInv /\ [ReviewingNext]_reviewingVars => AnswerInv'
<1> SUFFICES ASSUME AnswerInv, [ReviewingNext]_reviewingVars PROVE AnswerInv'
  OBVIOUS
<1>1. \/ Answer!InitialAnswer \/ Answer!RepairAnswer \/ Answer!CompactAnswer \/ Answer!NoAnswer
      \/ UNCHANGED answerVars
  BY DEF ReviewingNext, PreparationStep, StreamStep, AnswerStep, Answer!AnswerNext, reviewingVars
<1> QED BY <1>1, InitialStep, RepairStep, CompactStep, NoAnswerStep, AnswerKept

\* A set of positive numbers that is not empty has a least one: the sets of
\* smaller ones are ordered by inclusion, and a smallest of them exists.
LEMMA SmallestOne ==
    ASSUME NEW N \in Nat, NEW S \in SUBSET (1..N), S # {}
    PROVE  \E x \in S : \A y \in S : ~(y < x)
<1> DEFINE Under(x) == {y \in S : y < x}
           T == {Under(x) : x \in S}
           U == 1..N
<1>1. S \subseteq Int
  OBVIOUS
<1>2. IsFiniteSet(U) /\ S \subseteq U
  BY FS_Interval
<1>3. T \subseteq FiniteSubsetsOf(U)
  BY <1>2, FS_Subset DEF FiniteSubsetsOf
<1>4. PICK D \in T : \A E \in T : ~(<<E, D>> \in StrictSubsetOrdering(U))
  <2>1. T # {}
    OBVIOUS
  <2> HIDE DEF T, U
  <2> QED BY <1>2, <1>3, <2>1, FS_StrictSubsetOrderingWellFounded, WFMin
<1>5. PICK x \in S : D = Under(x)
  BY <1>4
<1>6. ASSUME NEW y \in S, y < x
      PROVE  FALSE
  <2>1. ~(y < y) /\ \A z \in S : z < y => z < x
    BY <1>1, <1>6
  <2>2. Under(y) \subseteq Under(x) /\ y \in Under(x) /\ y \notin Under(y)
    BY <1>6, <2>1
  <2>3. Under(y) \in T
    OBVIOUS
  <2>4. Under(x) \subseteq U
    BY <1>2
  <2> HIDE DEF Under, T, U
  <2> QED BY <1>4, <1>5, <2>2, <2>3, <2>4 DEF StrictSubsetOrdering
<1> QED BY <1>6

-----------------------------------------------------------------------------
(* The reading of the checks.                                              *)

Early == {"files", "diff", "blobs", "texts", "merge"}
Steps == Early \cup {"runs", "statuses", "store"}
Fields == {"step", "version", "page", "items", "patches", "texts", "files", "complete", "raw", "checks",
           "whole", "read"}

Registered == {runs[k] : k \in DOMAIN runs}
Checks == Seq(Preparation!Ids \X Preparation!Results)
Statuses == Seq(Contexts \X Preparation!Results)

CiTyped ==
    /\ runs \in Seq(Preparation!Ids)
    /\ result \in [Preparation!Ids -> Preparation!Results]
    /\ statuses \in Statuses
    /\ reader # Absent =>
         /\ DOMAIN reader = Fields /\ reader.step \in Steps
         /\ reader.checks \in Checks /\ reader.read \in Statuses /\ reader.whole \in BOOLEAN
         /\ listed.runs \subseteq Registered
         /\ listed.statuses \in 0..Len(statuses)

\* A finished check has the result it was read with.
ReadTruly ==
    \A k \in DOMAIN reader.checks :
        /\ reader.checks[k][1] \in Registered
        /\ reader.checks[k][2] # "pending" => result[reader.checks[k][1]] = reader.checks[k][2]

RunSeen(i) == \E j \in DOMAIN reader.checks : reader.checks[j][1] = i
ContextSeen(c) == \E j \in DOMAIN reader.read : reader.read[j][1] = c

\* The lists grow at their ends: what stood in the pages that were read has
\* been seen, as far as it was there when the reading began.
RunsSeen(n) == \A k \in DOMAIN runs : k <= n /\ runs[k] \in listed.runs => RunSeen(runs[k])

WasThere(k) == k > Len(statuses) - listed.statuses
StatusesSeen(n) == \A k \in DOMAIN statuses : k <= n /\ WasThere(k) => ContextSeen(statuses[k][1])

\* The states a context was in since the reading began.
Since(c) ==
    {statuses[k][2] : k \in {j \in DOMAIN statuses :
        statuses[j][1] = c /\ \A i \in 1..(j - 1) : statuses[i][1] = c => ~WasThere(i)}}

IsFirst(j) == \A i \in 1..(j - 1) : reader.read[i][1] # reader.read[j][1]
FirstsSince == \A j \in DOMAIN reader.read : IsFirst(j) => reader.read[j][2] \in Since(reader.read[j][1])

Offset(n, from) == n \in Nat \ {0} /\ from \in Nat /\ from = (n - 1) * PageSize
AtPage(list) == Offset(reader.page, reader.raw) /\ reader.raw <= Len(list)

\* The inductive invariant of a reading.
CiInv ==
    /\ CiTyped
    /\ reader # Absent =>
         /\ ReadTruly
         /\ FirstsSince
         /\ reader.step \in Early => reader.checks = <<>> /\ reader.read = <<>>
         /\ reader.step = "runs" => /\ AtPage(runs) /\ reader.raw < MaxChecks /\ RunsSeen(reader.raw)
                                    /\ reader.read = <<>>
         /\ reader.step \in {"statuses", "store"} /\ reader.whole => \A i \in listed.runs : RunSeen(i)
         /\ reader.step = "statuses" => /\ AtPage(statuses) /\ StatusesSeen(reader.raw)
                                        /\ reader.raw = 0 \/ reader.raw < Preparation!Limit
         /\ reader.step = "store" /\ reader.whole => StatusesSeen(Len(statuses))

LEMMA FirstOffset == Offset(1, 0)
BY PreparationAssumption DEF Offset

LEMMA NextOffset ==
    ASSUME NEW n, NEW from, Offset(n, from)
    PROVE  Offset(n + 1, from + PageSize)
<1>1. PageSize \in Nat
  BY PreparationAssumption
<1> QED BY <1>1 DEF Offset

\* A page, and the place of its entries in the list.
LEMMA PageIs ==
    ASSUME NEW S, NEW list \in Seq(S), NEW n, NEW from, Offset(n, from), from <= Len(list),
           NEW page, page = Preparation!Page(list, n)
    PROVE  /\ page \in Seq(S) /\ Len(page) \in Nat /\ Len(page) <= PageSize
           /\ from + Len(page) <= Len(list)
           /\ Len(page) < PageSize => from + Len(page) = Len(list)
           /\ \A i \in 1..Len(page) : page[i] = list[from + i]
<1> DEFINE m == IF Len(list) - from < PageSize THEN Len(list) - from ELSE PageSize
           last == IF Len(list) < n * PageSize THEN Len(list) ELSE n * PageSize
<1>1. PageSize \in Nat \ {0} /\ Len(list) \in Nat /\ from \in Nat /\ n \in Nat \ {0}
      /\ from = (n - 1) * PageSize
  BY PreparationAssumption DEF Offset
<1>2. n * PageSize = from + PageSize
  BY <1>1
<1>3. last = from + m /\ m \in Nat /\ from + m <= Len(list) /\ m <= PageSize
      /\ (m < PageSize => from + m = Len(list))
  <2>1. PICK end : end = n * PageSize
    OBVIOUS
  <2>2. last = IF Len(list) < end THEN Len(list) ELSE end
    BY <2>1
  <2>3. end = from + PageSize
    BY <1>2, <2>1
  <2> HIDE DEF last
  <2>4. CASE Len(list) < end
    <3>1. last = Len(list) /\ Len(list) - from < PageSize
      <4> HIDE DEF m
      <4> QED BY <1>1, <2>2, <2>3, <2>4
    <3>2. m = Len(list) - from
      BY <3>1
    <3> HIDE DEF m
    <3> QED BY <1>1, <3>1, <3>2
  <2>5. CASE ~(Len(list) < end)
    <3>1. last = end /\ ~(Len(list) - from < PageSize)
      <4> HIDE DEF m
      <4> QED BY <1>1, <2>2, <2>3, <2>5
    <3>2. m = PageSize
      BY <3>1
    <3> HIDE DEF m
    <3> QED BY <1>1, <2>3, <2>5, <3>1, <3>2
  <2> QED BY <2>4, <2>5
<1>4. Preparation!Page(list, n) = SubSeq(list, from + 1, from + m)
  BY <1>1, <1>3 DEF Preparation!Page
<1> HIDE DEF m, last
<1>5. \A i \in (from + 1)..(from + m) : list[i] \in S
  BY <1>1, <1>3
<1>6. SubSeq(list, from + 1, from + m) \in Seq(S) /\ Len(SubSeq(list, from + 1, from + m)) = m
      /\ \A i \in 1..m : SubSeq(list, from + 1, from + m)[i] = list[from + i]
  <2>1. /\ SubSeq(list, from + 1, from + m) \in Seq(S)
        /\ Len(SubSeq(list, from + 1, from + m)) =
               IF from + 1 <= from + m THEN from + m - (from + 1) + 1 ELSE 0
        /\ \A i \in 1..(from + m - (from + 1) + 1) :
               SubSeq(list, from + 1, from + m)[i] = list[from + 1 + i - 1]
    BY <1>1, <1>3, <1>5, SubSeqProperties
  <2>2. from + m - (from + 1) + 1 = m /\ (IF from + 1 <= from + m THEN m ELSE 0) = m
        /\ \A i \in 1..m : from + 1 + i - 1 = from + i
    BY <1>1, <1>3
  <2> HIDE DEF m
  <2> QED BY <2>1, <2>2
<1> QED BY <1>3, <1>4, <1>6

\* The first k entries.
LEMMA FrontIs ==
    ASSUME NEW S, NEW page \in Seq(S), NEW k \in 0..Len(page)
    PROVE  /\ SubSeq(page, 1, k) \in Seq(S) /\ Len(SubSeq(page, 1, k)) = k
           /\ \A i \in 1..k : SubSeq(page, 1, k)[i] = page[i]
OBVIOUS

LEMMA GotoFields ==
    ASSUME NEW r, DOMAIN r = Fields, NEW step, Preparation!Goto(step, r)
    PROVE  /\ DOMAIN reader' = Fields /\ reader'.step = step /\ reader'.page = 1 /\ reader'.raw = 0
           /\ reader'.checks = r.checks /\ reader'.read = r.read /\ reader'.whole = r.whole
BY DEF Preparation!Goto, Fields

LEMMA StayFacts ==
    ASSUME Preparation!Stay
    PROVE  UNCHANGED <<runs, result, statuses, listed>>
BY DEF Preparation!Stay, Preparation!github

LEMMA CiKept ==
    ASSUME CiInv, UNCHANGED <<runs, result, statuses, reader, listed>>
    PROVE  CiInv'
BY DEF CiInv, CiTyped, ReadTruly, FirstsSince, IsFirst, Since, WasThere, StatusesSeen, RunsSeen, ContextSeen,
       RunSeen, AtPage, Registered, Preparation!Limit, Preparation!Foreign

LEMMA CiInitial == ReviewingInit => CiInv
<1> SUFFICES ASSUME ReviewingInit PROVE CiInv
  OBVIOUS
<1>1. /\ runs = <<>> /\ statuses = <<>> /\ reader = Absent
      /\ result = [i \in Preparation!Ids |-> "pending"]
  BY DEF ReviewingInit, Preparation!PreparationInit
<1>2. "pending" \in Preparation!Results
  BY DEF Preparation!Results
<1> QED BY <1>1, <1>2 DEF CiInv, CiTyped, Statuses

\* Nothing is read any more.
LEMMA CiEnds ==
    ASSUME CiInv, reader' = Absent, UNCHANGED <<runs, result, statuses>>
    PROVE  CiInv'
BY DEF CiInv, CiTyped

\* A step before the checks.
LEMMA CiEarly ==
    ASSUME CiInv, reader # Absent, reader.step \in Early, UNCHANGED <<runs, result, statuses, listed>>,
           DOMAIN reader' = Fields, reader'.step \in Early,
           reader'.checks = reader.checks, reader'.read = reader.read, reader'.whole = reader.whole
    PROVE  CiInv'
<1>1. reader.step \notin {"runs", "statuses", "store"} /\ reader'.step \notin {"runs", "statuses", "store"}
  BY DEF Early
<1>2. reader'.step \in Steps
  BY DEF Steps
<1>3. reader.checks = <<>> /\ reader.read = <<>>
  BY DEF CiInv
<1>4. CiTyped'
  BY <1>2 DEF CiInv, CiTyped, Registered
<1>5. ReadTruly' /\ FirstsSince'
  BY <1>3 DEF ReadTruly, FirstsSince
<1> QED BY <1>1, <1>3, <1>4, <1>5 DEF CiInv

\* The first page of the check runs comes next.
LEMMA CiBegins ==
    ASSUME UNCHANGED <<runs, result, statuses>>, reader' # Absent,
           runs \in Seq(Preparation!Ids), result \in [Preparation!Ids -> Preparation!Results],
           statuses \in Statuses,
           listed'.runs \subseteq Registered, listed'.statuses \in 0..Len(statuses),
           DOMAIN reader' = Fields, reader'.step \in Early \cup {"runs"},
           reader'.page = 1, reader'.raw = 0,
           reader'.checks = <<>>, reader'.read = <<>>, reader'.whole \in BOOLEAN
    PROVE  CiInv'
<1>1. reader'.step \notin {"statuses", "store"}
  BY DEF Early
<1>2. reader'.step \in Steps
  BY DEF Steps
<1>3. <<>> \in Checks /\ <<>> \in Statuses
  BY DEF Checks, Statuses
<1>4. CiTyped'
  BY <1>2, <1>3 DEF CiTyped, Registered
<1>5. ReadTruly' /\ FirstsSince'
  BY DEF ReadTruly, FirstsSince
<1>6. RunsSeen(0)'
  BY DEF RunsSeen
<1>7. AtPage(runs)' /\ reader'.raw < MaxChecks
  BY PreparationAssumption, FirstOffset DEF AtPage
<1>8. RunsSeen(reader.raw)'
  BY <1>6 DEF RunsSeen
<1> QED BY <1>1, <1>4, <1>5, <1>7, <1>8 DEF CiInv

LEMMA Prepended ==
    ASSUME NEW S, NEW list \in Seq(S), NEW x \in S
    PROVE  /\ <<x>> \o list \in Seq(S) /\ Len(<<x>> \o list) = Len(list) + 1
           /\ DOMAIN (<<x>> \o list) = 1..(Len(list) + 1)
           /\ (<<x>> \o list)[1] = x
           /\ \A k \in 1..Len(list) : (<<x>> \o list)[k + 1] = list[k]
OBVIOUS

LEMMA RegisterStep ==
    ASSUME CiInv, Preparation!Register
    PROVE  CiInv'
<1>1. PICK i \in Preparation!Ids \ Registered : runs' \in {<<i>> \o runs, Append(runs, i)}
  BY DEF Preparation!Register, Registered
<1>2. UNCHANGED <<result, statuses, reader, listed>>
  BY DEF Preparation!Register
<1>3. runs \in Seq(Preparation!Ids) /\ Len(runs) \in Nat /\ DOMAIN runs = 1..Len(runs)
  BY DEF CiInv, CiTyped
<1>4. /\ runs' \in Seq(Preparation!Ids) /\ Len(runs') = Len(runs) + 1 /\ DOMAIN runs' = 1..(Len(runs) + 1)
      /\ \A k \in DOMAIN runs' : \/ runs'[k] = i
                                 \/ k \in DOMAIN runs /\ runs'[k] = runs[k]
                                 \/ k - 1 \in DOMAIN runs /\ runs'[k] = runs[k - 1]
      /\ \A k \in DOMAIN runs : \E j \in DOMAIN runs' : runs'[j] = runs[k]
  <2>1. CASE runs' = <<i>> \o runs
    <3>1. /\ runs' \in Seq(Preparation!Ids) /\ Len(runs') = Len(runs) + 1
          /\ DOMAIN runs' = 1..(Len(runs) + 1) /\ runs'[1] = i
          /\ \A k \in 1..Len(runs) : runs'[k + 1] = runs[k]
      BY <1>3, <2>1, Prepended
    <3>2. \A k \in DOMAIN runs' : k = 1 \/ (k - 1 \in 1..Len(runs) /\ (k - 1) + 1 = k)
      BY <1>3, <3>1
    <3>3. \A k \in 1..Len(runs) : k + 1 \in DOMAIN runs'
      BY <1>3, <3>1
    <3> QED BY <1>3, <3>1, <3>2, <3>3
  <2>2. CASE runs' = Append(runs, i)
    BY <1>3, <2>2
  <2> QED BY <1>1, <2>1, <2>2
<1>5. Registered \subseteq Registered'
  BY <1>4 DEF Registered
<1>6. CiTyped'
  BY <1>2, <1>4, <1>5 DEF CiInv, CiTyped
<1>7. ASSUME reader # Absent, NEW n \in Nat, n <= Len(runs), RunsSeen(n)
      PROVE  \A k \in DOMAIN runs' : k <= n /\ runs'[k] \in listed.runs => RunSeen(runs'[k])
  <2>1. i \notin listed.runs
    BY <1>1, <1>7 DEF CiInv, CiTyped
  <2> SUFFICES ASSUME NEW k \in DOMAIN runs', k <= n, runs'[k] \in listed.runs
               PROVE  RunSeen(runs'[k])
    OBVIOUS
  <2>2. PICK m \in DOMAIN runs : m <= n /\ runs'[k] = runs[m]
    BY <1>3, <1>4, <1>7, <2>1
  <2> QED BY <1>7, <2>2 DEF RunsSeen
<1>8. reader' # Absent => ReadTruly' /\ FirstsSince'
  BY <1>2, <1>5 DEF CiInv, ReadTruly, FirstsSince, IsFirst, Since, WasThere
<1>9. reader' # Absent /\ reader'.step = "runs" => AtPage(runs)' /\ RunsSeen(reader.raw)'
  <2> SUFFICES ASSUME reader # Absent, reader.step = "runs"
               PROVE  AtPage(runs)' /\ RunsSeen(reader.raw)'
    BY <1>2
  <2>1. AtPage(runs) /\ RunsSeen(reader.raw)
    BY DEF CiInv
  <2>2. reader.raw \in Nat /\ reader.raw <= Len(runs)
    BY <2>1 DEF AtPage, Offset
  <2>3. RunsSeen(reader.raw)'
    <3>1. \A k \in DOMAIN runs' : k <= reader.raw /\ runs'[k] \in listed.runs => RunSeen(runs'[k])
      BY <1>7, <2>1, <2>2
    <3> QED BY <1>2, <3>1 DEF RunsSeen, RunSeen
  <2>4. AtPage(runs)'
    BY <1>2, <1>3, <1>4, <2>1, <2>2 DEF AtPage
  <2> QED BY <2>3, <2>4
<1>10. reader' # Absent /\ reader'.step \in {"statuses", "store"} /\ reader'.whole =>
           \A j \in listed'.runs : RunSeen(j)'
  BY <1>2 DEF CiInv, RunSeen
<1>11. /\ reader' # Absent /\ reader'.step = "statuses" =>
              /\ AtPage(statuses)' /\ StatusesSeen(reader.raw)'
              /\ reader'.raw = 0 \/ reader'.raw < Preparation!Limit'
       /\ reader' # Absent /\ reader'.step = "store" /\ reader'.whole => StatusesSeen(Len(statuses))'
  BY <1>2 DEF CiInv, AtPage, StatusesSeen, WasThere, ContextSeen, Preparation!Limit, Preparation!Foreign
<1> QED BY <1>2, <1>6, <1>8, <1>9, <1>10, <1>11 DEF CiInv

LEMMA FinishStep ==
    ASSUME CiInv, Preparation!Finish
    PROVE  CiInv'
<1>1. UNCHANGED <<runs, statuses, reader, listed>>
  BY DEF Preparation!Finish
<1>2. PICK i \in Registered : /\ result[i] = "pending"
                              /\ \E r \in {"success", "failure"} : result' = [result EXCEPT ![i] = r]
  BY DEF Preparation!Finish, Registered
<1>3. result \in [Preparation!Ids -> Preparation!Results]
  BY DEF CiInv, CiTyped
<1>4. result' \in [Preparation!Ids -> Preparation!Results]
  BY <1>2, <1>3 DEF Preparation!Results
<1>5. \A j \in Preparation!Ids : result[j] # "pending" => result'[j] = result[j]
  BY <1>2, <1>3
<1>6. Registered \subseteq Preparation!Ids
  BY DEF CiInv, CiTyped, Registered
<1>7. CiTyped'
  BY <1>1, <1>4 DEF CiInv, CiTyped, Registered
<1>8. reader' # Absent => ReadTruly'
  BY <1>1, <1>5, <1>6 DEF CiInv, ReadTruly, Registered
<1>9. reader' # Absent => FirstsSince'
  BY <1>1 DEF CiInv, FirstsSince, IsFirst, Since, WasThere
<1> QED BY <1>1, <1>7, <1>8, <1>9 DEF CiInv, RunsSeen, RunSeen, AtPage, StatusesSeen, WasThere, ContextSeen,
           Preparation!Limit, Preparation!Foreign

LEMMA PostStep ==
    ASSUME CiInv, Preparation!PostStatus
    PROVE  CiInv'
<1>1. UNCHANGED <<runs, result, reader, listed>>
  BY DEF Preparation!PostStatus
<1>2. PICK s \in Contexts \X Preparation!Results : statuses' = <<s>> \o statuses
  BY DEF Preparation!PostStatus
<1>3. statuses \in Seq(Contexts \X Preparation!Results) /\ Len(statuses) \in Nat
      /\ DOMAIN statuses = 1..Len(statuses)
  BY DEF CiInv, CiTyped, Statuses
<1>4. /\ statuses' \in Statuses /\ Len(statuses') = Len(statuses) + 1
      /\ DOMAIN statuses' = 1..(Len(statuses) + 1)
      /\ \A k \in 1..Len(statuses) : statuses'[k + 1] = statuses[k]
  BY <1>2, <1>3, Prepended DEF Statuses
<1>5. CiTyped'
  BY <1>1, <1>3, <1>4 DEF CiInv, CiTyped, Registered
<1> SUFFICES ASSUME reader # Absent
             PROVE  CiInv'
  BY <1>1, <1>5 DEF CiInv
<1>6. listed.statuses \in 0..Len(statuses)
  BY DEF CiInv, CiTyped
<1>7. \A k \in DOMAIN statuses' :
          /\ WasThere(k)' => k - 1 \in DOMAIN statuses /\ WasThere(k - 1) /\ statuses'[k] = statuses[k - 1]
          /\ k - 1 \in DOMAIN statuses => (WasThere(k)' <=> WasThere(k - 1)) /\ statuses'[k] = statuses[k - 1]
  <2> SUFFICES ASSUME NEW k \in DOMAIN statuses'
               PROVE  /\ WasThere(k)' => k - 1 \in DOMAIN statuses /\ WasThere(k - 1)
                                         /\ statuses'[k] = statuses[k - 1]
                      /\ k - 1 \in DOMAIN statuses => (WasThere(k)' <=> WasThere(k - 1))
                                                      /\ statuses'[k] = statuses[k - 1]
    OBVIOUS
  <2>1. k \in 1..(Len(statuses) + 1)
    BY <1>4
  <2>2. k - 1 \in DOMAIN statuses => statuses'[k] = statuses[k - 1]
    <3>1. k - 1 \in 1..Len(statuses) => statuses'[(k - 1) + 1] = statuses[k - 1]
      BY <1>4
    <3> QED BY <1>3, <2>1, <3>1
  <2>3. WasThere(k)' <=> WasThere(k - 1)
    BY <1>1, <1>3, <1>4, <1>6, <2>1 DEF WasThere
  <2>4. WasThere(k)' => k - 1 \in DOMAIN statuses
    BY <1>1, <1>3, <1>4, <1>6, <2>1 DEF WasThere
  <2> QED BY <2>2, <2>3, <2>4
<1>8. \A n \in Nat : StatusesSeen(n) => StatusesSeen(n)' /\ StatusesSeen(n + 1)'
  <2> SUFFICES ASSUME NEW n \in Nat, StatusesSeen(n)
               PROVE  StatusesSeen(n)' /\ StatusesSeen(n + 1)'
    OBVIOUS
  <2>1. ASSUME NEW k \in DOMAIN statuses', k <= n + 1, WasThere(k)'
        PROVE  ContextSeen(statuses'[k][1])
    <3>1. k - 1 \in DOMAIN statuses /\ WasThere(k - 1) /\ statuses'[k] = statuses[k - 1]
      BY <1>7, <2>1
    <3>2. k - 1 <= n
      BY <1>4, <2>1
    <3> QED BY <3>1, <3>2 DEF StatusesSeen
  <2>2. StatusesSeen(n + 1)'
    BY <1>1, <2>1 DEF StatusesSeen, ContextSeen
  <2>3. StatusesSeen(n)'
    <3>1. \A k \in DOMAIN statuses' : k <= n => k <= n + 1
      BY <1>4
    <3> QED BY <2>2, <3>1 DEF StatusesSeen
  <2> QED BY <2>2, <2>3
<1>9. \A c : Since(c) \subseteq Since(c)'
  <2> SUFFICES ASSUME NEW c, NEW j \in DOMAIN statuses, statuses[j][1] = c,
                      \A i \in 1..(j - 1) : statuses[i][1] = c => ~WasThere(i)
               PROVE  statuses[j][2] \in Since(c)'
    BY DEF Since
  <2>1. j + 1 \in DOMAIN statuses' /\ statuses'[j + 1] = statuses[j]
    BY <1>3, <1>4
  <2>2. ASSUME NEW i \in 1..j, statuses'[i][1] = c
        PROVE  ~WasThere(i)'
    <3>1. i \in DOMAIN statuses'
      BY <1>3, <1>4
    <3>2. SUFFICES ASSUME WasThere(i)' PROVE FALSE
      OBVIOUS
    <3>3. i - 1 \in DOMAIN statuses /\ WasThere(i - 1) /\ statuses'[i] = statuses[i - 1]
      BY <1>7, <3>1, <3>2
    <3>4. i - 1 \in 1..(j - 1)
      BY <1>3, <3>3
    <3> QED BY <2>2, <3>3, <3>4
  <2>3. 1..((j + 1) - 1) = 1..j
    BY <1>3
  <2> QED BY <2>1, <2>2, <2>3 DEF Since
<1>10. FirstsSince'
  BY <1>1, <1>9 DEF CiInv, FirstsSince, IsFirst
<1>11. ReadTruly'
  BY <1>1 DEF CiInv, ReadTruly, Registered
<1>12. reader.step = "statuses" => AtPage(statuses)' /\ StatusesSeen(reader.raw)'
                                   /\ (reader.raw = 0 \/ reader.raw < Preparation!Limit)
  <2> SUFFICES ASSUME reader.step = "statuses"
               PROVE  AtPage(statuses)' /\ StatusesSeen(reader.raw)'
    BY DEF CiInv
  <2>1. AtPage(statuses) /\ StatusesSeen(reader.raw)
    BY DEF CiInv
  <2>2. reader.raw \in Nat
    BY <2>1 DEF AtPage, Offset
  <2>3. StatusesSeen(reader.raw)'
    BY <1>1, <1>8, <2>1, <2>2 DEF StatusesSeen
  <2>4. AtPage(statuses)'
    BY <1>1, <1>3, <1>4, <2>1, <2>2 DEF AtPage
  <2> QED BY <2>3, <2>4
<1>13. reader.step = "store" /\ reader.whole => StatusesSeen(Len(statuses))'
  BY <1>3, <1>4, <1>8 DEF CiInv, StatusesSeen
<1>14. Preparation!Limit' = Preparation!Limit
  BY <1>1 DEF Preparation!Limit, Preparation!Foreign
<1> QED BY <1>1, <1>5, <1>10, <1>11, <1>12, <1>13, <1>14 DEF CiInv, RunsSeen, RunSeen, AtPage

LEMMA LoadStep ==
    ASSUME CiInv, Preparation!LoadPullRequest
    PROVE  CiInv'
<1>1. reader = Absent /\ UNCHANGED <<runs, result, statuses>>
  BY DEF Preparation!LoadPullRequest, Preparation!LoadTarget, Preparation!github
<1>2. CASE HeadOf[pr] # Target
  BY <1>1, <1>2, CiEnds DEF Preparation!LoadPullRequest
<1>3. CASE HeadOf[pr] = Target
  <2>1. PICK r : r = [step |-> IF context = Absent THEN "files" ELSE "runs",
                      version |-> pr, page |-> 1, items |-> <<>>, patches |-> <<>>, texts |-> {},
                      files |-> Absent, complete |-> FALSE, raw |-> 0, checks |-> <<>>, whole |-> FALSE,
                      read |-> <<>>]
    OBVIOUS
  <2>2. reader' = r
        /\ listed' = [runs |-> {runs[k] : k \in DOMAIN runs}, statuses |-> Len(statuses)]
    BY <1>3, <2>1 DEF Preparation!LoadPullRequest
  <2>3. DOMAIN r = Fields
    BY <2>1 DEF Fields
  <2>4. r.step \in {"files", "runs"} /\ r.page = 1 /\ r.raw = 0 /\ r.checks = <<>> /\ r.read = <<>>
        /\ r.whole = FALSE
    BY <2>1
  <2>5. listed'.runs = Registered /\ listed'.statuses = Len(statuses)
    BY <2>2 DEF Registered
  <2>6. /\ runs \in Seq(Preparation!Ids) /\ result \in [Preparation!Ids -> Preparation!Results]
        /\ statuses \in Statuses /\ Len(statuses) \in 0..Len(statuses)
    BY DEF CiInv, CiTyped, Statuses
  <2>7. CASE r = Absent
    BY <1>1, <2>2, <2>7, CiEnds
  <2>8. CASE r # Absent
    <3>1. r.step \in Early \cup {"runs"}
      BY <2>4 DEF Early
    <3> QED BY <1>1, <2>2, <2>3, <2>4, <2>5, <2>6, <2>8, <3>1, CiBegins
  <2> QED BY <2>7, <2>8
<1> QED BY <1>2, <1>3

\* Where a reading goes on before the checks.
LEMMA EarlyGoto ==
    ASSUME CiInv, reader # Absent, reader.step \in Early, Preparation!Stay,
           NEW r, DOMAIN r = Fields, r.checks = reader.checks, r.read = reader.read, r.whole = reader.whole,
           NEW step \in Early \cup {"runs"}, Preparation!Goto(step, r)
    PROVE  CiInv'
<1>1. UNCHANGED <<runs, result, statuses, listed>>
  BY StayFacts
<1>2. /\ DOMAIN reader' = Fields /\ reader'.step = step /\ reader'.page = 1 /\ reader'.raw = 0
      /\ reader'.checks = reader.checks /\ reader'.read = reader.read /\ reader'.whole = reader.whole
  BY GotoFields
<1>3. CASE step \in Early
  BY <1>1, <1>2, <1>3, CiEarly
<1>4. CASE step = "runs" /\ reader' # Absent
  <2>1. reader.checks = <<>> /\ reader.read = <<>>
    BY DEF CiInv
  <2>2. /\ runs \in Seq(Preparation!Ids) /\ result \in [Preparation!Ids -> Preparation!Results]
        /\ statuses \in Statuses /\ listed.runs \subseteq Registered /\ listed.statuses \in 0..Len(statuses)
        /\ reader.whole \in BOOLEAN
    BY DEF CiInv, CiTyped
  <2> QED BY <1>1, <1>2, <1>4, <2>1, <2>2, CiBegins
<1>5. CASE reader' = Absent
  BY <1>1, <1>5, CiEnds
<1> QED BY <1>3, <1>4, <1>5

LEMMA FilesStep ==
    ASSUME CiInv, Preparation!ReadFiles
    PROVE  CiInv'
<1>1. reader # Absent /\ reader.step = "files" /\ Preparation!Stay /\ reader.step \in Early
  BY DEF Preparation!ReadFiles, Early
<1>2. DOMAIN reader = Fields
  BY <1>1 DEF CiInv, CiTyped
<1>3. PICK items, complete : \/ Preparation!Goto("diff", [reader EXCEPT !.items = items, !.complete = complete])
                             \/ reader' = [reader EXCEPT !.items = items, !.page = reader.page + 1]
  BY DEF Preparation!ReadFiles
<1>4. CASE Preparation!Goto("diff", [reader EXCEPT !.items = items, !.complete = complete])
  <2>1. PICK r : r = [reader EXCEPT !.items = items, !.complete = complete]
    OBVIOUS
  <2>2. DOMAIN r = Fields /\ r.checks = reader.checks /\ r.read = reader.read /\ r.whole = reader.whole
    BY <1>2, <2>1 DEF Fields
  <2>3. "diff" \in Early \cup {"runs"} /\ Preparation!Goto("diff", r)
    BY <1>4, <2>1 DEF Early
  <2> QED BY <1>1, <2>2, <2>3, EarlyGoto
<1>5. CASE reader' = [reader EXCEPT !.items = items, !.page = reader.page + 1]
  <2>1. /\ DOMAIN reader' = Fields /\ reader'.step = reader.step
        /\ reader'.checks = reader.checks /\ reader'.read = reader.read /\ reader'.whole = reader.whole
    BY <1>2, <1>5 DEF Fields
  <2>2. UNCHANGED <<runs, result, statuses, listed>>
    BY <1>1, StayFacts
  <2> QED BY <1>1, <2>1, <2>2, CiEarly
<1> QED BY <1>3, <1>4, <1>5

LEMMA SourcesStep ==
    ASSUME CiInv, \/ Preparation!ReadDiff \/ Preparation!ReadBlobs
                  \/ Preparation!ReadTexts \/ Preparation!MergeFiles
    PROVE  CiInv'
<1>1. reader # Absent /\ reader.step \in Early
  BY DEF Preparation!ReadDiff, Preparation!ReadBlobs, Preparation!ReadTexts, Preparation!MergeFiles, Early
<1>2. DOMAIN reader = Fields
  BY <1>1 DEF CiInv, CiTyped
<1>3. \A x : LET r == [reader EXCEPT !.patches = x] IN
             DOMAIN r = Fields /\ r.checks = reader.checks /\ r.read = reader.read /\ r.whole = reader.whole
  BY <1>2 DEF Fields
<1>4. \A x, y : LET r == [reader EXCEPT !.patches = x, !.texts = y] IN
             DOMAIN r = Fields /\ r.checks = reader.checks /\ r.read = reader.read /\ r.whole = reader.whole
  BY <1>2 DEF Fields
<1>5. \A x : LET r == [reader EXCEPT !.files = x] IN
             DOMAIN r = Fields /\ r.checks = reader.checks /\ r.read = reader.read /\ r.whole = reader.whole
  BY <1>2 DEF Fields
<1>6. CASE Preparation!Fail
  BY <1>6, StayFacts, CiEnds DEF Preparation!Fail
<1>7. CASE Preparation!ReadDiff
  <2>1. PICK x : Preparation!Goto("blobs", [reader EXCEPT !.patches = x])
    BY <1>7 DEF Preparation!ReadDiff
  <2>2. Preparation!Stay /\ "blobs" \in Early \cup {"runs"}
    BY <1>7 DEF Preparation!ReadDiff, Early
  <2> QED BY <1>1, <1>3, <2>1, <2>2, EarlyGoto
<1>8. CASE Preparation!ReadBlobs
  <2>1. \/ Preparation!Goto("merge", reader)
        \/ \E x, y : Preparation!Goto("texts", [reader EXCEPT !.patches = x, !.texts = y])
    BY <1>8 DEF Preparation!ReadBlobs
  <2>2. Preparation!Stay /\ "texts" \in Early \cup {"runs"} /\ "merge" \in Early \cup {"runs"}
    BY <1>8 DEF Preparation!ReadBlobs, Early
  <2> QED BY <1>1, <1>2, <1>4, <2>1, <2>2, EarlyGoto
<1>9. CASE Preparation!ReadTexts
  <2>1. PICK x : Preparation!Goto("merge", [reader EXCEPT !.patches = x])
    BY <1>9 DEF Preparation!ReadTexts
  <2>2. Preparation!Stay /\ "merge" \in Early \cup {"runs"}
    BY <1>9 DEF Preparation!ReadTexts, Early
  <2> QED BY <1>1, <1>3, <2>1, <2>2, EarlyGoto
<1>10. CASE Preparation!MergeFiles
  <2>1. Preparation!Fail \/ (Preparation!Stay /\ \E x : Preparation!Goto("runs", [reader EXCEPT !.files = x]))
    BY <1>10 DEF Preparation!MergeFiles
  <2>2. "runs" \in Early \cup {"runs"}
    OBVIOUS
  <2> QED BY <1>1, <1>5, <1>6, <2>1, <2>2, EarlyGoto
<1> QED BY <1>7, <1>8, <1>9, <1>10

\* Entries are added at the end.
Continues(all, old, more) ==
    /\ Len(all) = Len(old) + Len(more)
    /\ DOMAIN all = 1..(Len(old) + Len(more))
    /\ \A j \in 1..Len(old) : all[j] = old[j]
    /\ \A i \in 1..Len(more) : all[Len(old) + i] = more[i]
    /\ \A j \in DOMAIN all : j \in 1..Len(old) \/ j - Len(old) \in 1..Len(more)
    /\ \A i \in 1..Len(more) : Len(old) + i \in DOMAIN all

LEMMA Extended ==
    ASSUME NEW S, NEW old \in Seq(S), NEW more \in Seq(S)
    PROVE  old \o more \in Seq(S) /\ Continues(old \o more, old, more)
BY DEF Continues

\* Check runs with the results they are read with.
WithResults(taken) == [k \in DOMAIN taken |-> <<taken[k], result[taken[k]]>>]
AreRegistered(taken) == \A i \in DOMAIN taken : taken[i] \in Registered

\* The checks read, with those of one more page, say what the registered ones did.
Grown(checks, taken) ==
    /\ checks \in Checks
    /\ \A j \in DOMAIN checks : /\ checks[j][1] \in Registered
                                /\ checks[j][2] # "pending" => result[checks[j][1]] = checks[j][2]
    /\ \A i : RunSeen(i) => \E j \in DOMAIN checks : checks[j][1] = i
    /\ \A i \in DOMAIN taken : \E j \in DOMAIN checks : checks[j][1] = taken[i]

LEMMA ChecksGrow ==
    ASSUME CiInv, reader # Absent, NEW taken \in Seq(Preparation!Ids), AreRegistered(taken),
           NEW checks, checks = reader.checks \o WithResults(taken)
    PROVE  Grown(checks, taken)
<1> DEFINE S == Preparation!Ids \X Preparation!Results
<1>1. PICK more : more = WithResults(taken)
  OBVIOUS
<1>2. result \in [Preparation!Ids -> Preparation!Results] /\ reader.checks \in Seq(S) /\ ReadTruly
  BY DEF CiInv, CiTyped, Checks
<1>3. more \in Seq(S) /\ Len(more) = Len(taken) /\ DOMAIN taken = 1..Len(taken)
      /\ DOMAIN reader.checks = 1..Len(reader.checks) /\ Len(taken) \in Nat
  <2>1. DOMAIN taken = 1..Len(taken) /\ Len(taken) \in Nat
    OBVIOUS
  <2>2. \A k \in 1..Len(taken) : taken[k] \in Preparation!Ids
    OBVIOUS
  <2>3. \A k \in 1..Len(taken) : <<taken[k], result[taken[k]]>> \in S
    BY <1>2, <2>2
  <2>4. more = [k \in 1..Len(taken) |-> <<taken[k], result[taken[k]]>>]
    BY <1>1, <2>1 DEF WithResults
  <2> HIDE DEF S
  <2>5. more \in [1..Len(taken) -> S]
    BY <2>3, <2>4
  <2>6. more \in Seq(S)
    BY <2>1, <2>5
  <2>7. Len(more) = Len(taken)
    <3>1. DOMAIN more = 1..Len(taken)
      BY <2>4
    <3> QED BY <2>1, <2>6, <3>1
  <2>8. DOMAIN reader.checks = 1..Len(reader.checks)
    BY <1>2
  <2> QED BY <2>1, <2>6, <2>7, <2>8
<1>4. \A k \in DOMAIN taken : more[k][1] = taken[k] /\ more[k][2] = result[taken[k]]
  BY <1>1 DEF WithResults
<1> HIDE DEF S
<1>5. /\ checks \in Seq(S)
      /\ \A j \in 1..Len(reader.checks) : checks[j] = reader.checks[j]
      /\ \A i \in 1..Len(more) : checks[Len(reader.checks) + i] = more[i]
      /\ \A j \in DOMAIN checks : j \in 1..Len(reader.checks) \/ j - Len(reader.checks) \in 1..Len(more)
      /\ \A i \in 1..Len(more) : Len(reader.checks) + i \in DOMAIN checks
      /\ DOMAIN checks = 1..(Len(reader.checks) + Len(more))
  <2>1. checks = reader.checks \o more
    BY <1>1
  <2>2. reader.checks \in Seq(S) /\ more \in Seq(S)
    BY <1>2, <1>3
  <2>3. checks \in Seq(S) /\ Continues(checks, reader.checks, more)
    BY <2>1, <2>2, Extended
  <2> QED BY <2>3 DEF Continues
<1>6. Len(reader.checks) \in Nat
  BY <1>2
<1>7. ASSUME NEW j \in DOMAIN checks
      PROVE  /\ checks[j][1] \in Registered
             /\ checks[j][2] # "pending" => result[checks[j][1]] = checks[j][2]
  <2>1. CASE j \in 1..Len(reader.checks)
    BY <1>2, <1>3, <1>5, <2>1 DEF ReadTruly
  <2>2. CASE j - Len(reader.checks) \in 1..Len(more)
    <3>1. PICK i \in 1..Len(more) : j = Len(reader.checks) + i
      BY <1>3, <1>5, <1>6, <2>2
    <3>2. checks[j] = more[i] /\ i \in DOMAIN taken
      BY <1>3, <1>5, <3>1
    <3>3. checks[j][1] = taken[i] /\ checks[j][2] = result[taken[i]]
      BY <1>4, <3>2
    <3> QED BY <3>2, <3>3 DEF AreRegistered
  <2> QED BY <1>5, <1>7, <2>1, <2>2
<1>8. ASSUME NEW i, RunSeen(i)
      PROVE  \E j \in DOMAIN checks : checks[j][1] = i
  <2>1. PICK j \in DOMAIN reader.checks : reader.checks[j][1] = i
    BY <1>8 DEF RunSeen
  <2>2. j \in DOMAIN checks /\ checks[j] = reader.checks[j]
    BY <1>3, <1>5, <1>6, <2>1
  <2> QED BY <2>1, <2>2
<1>9. ASSUME NEW i \in DOMAIN taken
      PROVE  \E j \in DOMAIN checks : checks[j][1] = taken[i]
  <2>1. i \in 1..Len(more)
    BY <1>3
  <2>2. Len(reader.checks) + i \in DOMAIN checks /\ checks[Len(reader.checks) + i] = more[i]
    BY <1>5, <2>1
  <2> QED BY <1>4, <2>2
<1> QED BY <1>5, <1>7, <1>8, <1>9 DEF Checks, S, Grown

LEMMA RunsStep ==
    ASSUME CiInv, Preparation!ReadCheckRuns
    PROVE  CiInv'
<1>1. reader # Absent /\ reader.step = "runs" /\ UNCHANGED <<runs, result, statuses, listed>>
  BY StayFacts DEF Preparation!ReadCheckRuns
<1>2. /\ AtPage(runs) /\ reader.raw < MaxChecks /\ RunsSeen(reader.raw) /\ reader.read = <<>>
      /\ CiTyped /\ DOMAIN reader = Fields
  BY <1>1 DEF CiInv, CiTyped
<1>3. runs \in Seq(Preparation!Ids) /\ Len(runs) \in Nat /\ DOMAIN runs = 1..Len(runs)
      /\ MaxChecks \in Nat \ {0} /\ PageSize \in Nat \ {0}
  BY <1>2, PreparationAssumption DEF CiTyped
<1>4. Offset(reader.page, reader.raw) /\ reader.raw \in Nat /\ reader.raw <= Len(runs)
  BY <1>2 DEF AtPage, Offset
<1>5. PICK page, m : page = Preparation!Page(runs, reader.page) /\ m = Len(page)
  OBVIOUS
<1>6. page \in Seq(Preparation!Ids) /\ Len(page) = m /\ \A i \in 1..m : page[i] = runs[reader.raw + i]
  BY <1>3, <1>4, <1>5, PageIs
<1>7. m \in Nat /\ reader.raw + m <= Len(runs) /\ m <= PageSize
      /\ (m < PageSize => reader.raw + m = Len(runs))
  BY <1>3, <1>4, <1>5, PageIs
<1>8. PICK k : k = Preparation!Least(m, MaxChecks - reader.raw)
  OBVIOUS
<1>9. k \in 0..m /\ (reader.raw + m <= MaxChecks => k = m)
  BY <1>2, <1>3, <1>4, <1>7, <1>8 DEF Preparation!Least
<1>10. PICK taken : taken = SubSeq(page, 1, k)
  OBVIOUS
<1>11. taken \in Seq(Preparation!Ids) /\ Len(taken) = k /\ DOMAIN taken = 1..k
       /\ \A i \in 1..k : taken[i] = runs[reader.raw + i]
  <2>1. taken \in Seq(Preparation!Ids) /\ Len(taken) = k /\ \A i \in 1..k : taken[i] = page[i]
    BY <1>6, <1>9, <1>10, FrontIs
  <2> QED BY <1>6, <1>9, <2>1
<1>12. \A i \in DOMAIN taken : taken[i] \in Registered
  <2>1. \A i \in 1..k : reader.raw + i \in DOMAIN runs
    BY <1>3, <1>4, <1>7, <1>9
  <2> QED BY <1>11, <2>1 DEF Registered
<1>13. PICK checks : checks = reader.checks \o WithResults(taken)
  OBVIOUS
<1>14. /\ checks \in Checks
       /\ \A j \in DOMAIN checks : /\ checks[j][1] \in Registered
                                   /\ checks[j][2] # "pending" => result[checks[j][1]] = checks[j][2]
       /\ \A i : RunSeen(i) => \E j \in DOMAIN checks : checks[j][1] = i
       /\ \A i \in DOMAIN taken : \E j \in DOMAIN checks : checks[j][1] = taken[i]
  <2>1. AreRegistered(taken)
    BY <1>12 DEF AreRegistered
  <2>2. Grown(checks, taken)
    BY <1>1, <1>11, <1>13, <2>1, ChecksGrow
  <2> QED BY <2>2 DEF Grown
<1>15. ASSUME NEW q \in DOMAIN runs, q <= reader.raw + k, runs[q] \in listed.runs
       PROVE  \E j \in DOMAIN checks : checks[j][1] = runs[q]
  <2>1. CASE q <= reader.raw
    BY <1>2, <1>14, <1>15, <2>1 DEF RunsSeen
  <2>2. CASE q > reader.raw
    <3>1. q - reader.raw \in 1..k /\ reader.raw + (q - reader.raw) = q
      BY <1>3, <1>4, <1>9, <1>15, <2>2
    <3>2. taken[q - reader.raw] = runs[q] /\ q - reader.raw \in DOMAIN taken
      BY <1>11, <3>1
    <3> QED BY <1>14, <3>2
  <2> QED BY <1>3, <1>4, <2>1, <2>2
<1>16. PICK raw : raw = Preparation!Least(reader.raw + m, MaxChecks + 1)
  OBVIOUS
<1>17. \/ Preparation!Goto("statuses", [reader EXCEPT !.checks = checks, !.whole = Preparation!Whole(raw)])
       \/ /\ ~(m < PageSize) /\ ~(raw >= MaxChecks)
          /\ reader' = [reader EXCEPT !.checks = checks, !.raw = raw, !.page = reader.page + 1]
  BY <1>5, <1>6, <1>8, <1>10, <1>13, <1>16 DEF Preparation!ReadCheckRuns, WithResults
<1>18. CASE Preparation!Goto("statuses", [reader EXCEPT !.checks = checks, !.whole = Preparation!Whole(raw)])
  <2>1. PICK r : r = [reader EXCEPT !.checks = checks, !.whole = Preparation!Whole(raw)]
    OBVIOUS
  <2>2. DOMAIN r = Fields /\ r.checks = checks /\ r.read = <<>> /\ r.whole = Preparation!Whole(raw)
    BY <1>2, <2>1 DEF Fields
  <2>3. /\ DOMAIN reader' = Fields /\ reader'.step = "statuses" /\ reader'.page = 1 /\ reader'.raw = 0
        /\ reader'.checks = checks /\ reader'.read = <<>> /\ reader'.whole = Preparation!Whole(raw)
    BY <1>18, <2>1, <2>2, GotoFields
  <2>4. Preparation!Whole(raw) \in BOOLEAN /\ (Preparation!Whole(raw) => reader.raw + k = Len(runs))
    <3>1. PICK from : from = reader.raw
      OBVIOUS
    <3>2. raw = from + m \/ raw = MaxChecks + 1
      BY <1>16, <3>1 DEF Preparation!Least
    <3>3. Preparation!Whole(raw) <=> Len(runs) <= MaxChecks /\ raw = Len(runs)
      BY DEF Preparation!Whole
    <3>4. Preparation!Whole(raw) \in BOOLEAN
      BY DEF Preparation!Whole
    <3>5. ASSUME Len(runs) <= MaxChecks, raw = Len(runs)
          PROVE  from + k = Len(runs)
      <4>1. raw = from + m
        BY <3>2, <3>5, PreparationAssumption
      <4> QED BY <1>9, <3>1, <3>5, <4>1
    <3> QED BY <3>1, <3>3, <3>4, <3>5
  <2>5. CiTyped'
    <3>1. <<>> \in Statuses /\ "statuses" \in Steps
      BY DEF Statuses, Steps
    <3> QED BY <1>1, <1>2, <1>14, <2>3, <2>4, <3>1 DEF CiTyped, Registered
  <2>6. ReadTruly' /\ FirstsSince'
    BY <1>1, <1>14, <2>3 DEF ReadTruly, FirstsSince, Registered
  <2>7. reader'.whole => \A i \in listed'.runs : RunSeen(i)'
    <3> SUFFICES ASSUME Preparation!Whole(raw), NEW i \in listed.runs
                 PROVE  \E j \in DOMAIN checks : checks[j][1] = i
      BY <1>1, <2>3 DEF RunSeen
    <3>1. PICK q \in DOMAIN runs : runs[q] = i
      BY <1>1, <1>2 DEF CiTyped, Registered
    <3> QED BY <1>3, <1>15, <2>4, <3>1
  <2>8. AtPage(statuses)' /\ StatusesSeen(reader.raw)'
    <3>1. statuses' = statuses /\ DOMAIN statuses = 1..Len(statuses) /\ Len(statuses) \in Nat
      BY <1>1, <1>2 DEF CiTyped, Statuses
    <3> QED BY <1>3, <2>3, <3>1, FirstOffset DEF AtPage, StatusesSeen
  <2>9. "statuses" \notin Early
    BY DEF Early
  <2> QED BY <2>3, <2>5, <2>6, <2>7, <2>8, <2>9 DEF CiInv
<1>19. CASE /\ ~(m < PageSize) /\ ~(raw >= MaxChecks)
            /\ reader' = [reader EXCEPT !.checks = checks, !.raw = raw, !.page = reader.page + 1]
  <2>1. /\ DOMAIN reader' = Fields /\ reader'.step = "runs" /\ reader'.page = reader.page + 1
        /\ reader'.raw = raw /\ reader'.checks = checks /\ reader'.read = <<>> /\ reader'.whole = reader.whole
    BY <1>1, <1>2, <1>19 DEF Fields
  <2>2. m = PageSize /\ raw = reader.raw + m /\ raw < MaxChecks /\ k = m /\ raw \in Nat
    BY <1>3, <1>4, <1>7, <1>9, <1>16, <1>19 DEF Preparation!Least
  <2>3. CiTyped'
    BY <1>1, <1>2, <1>14, <2>1 DEF CiTyped, Registered
  <2>4. ReadTruly' /\ FirstsSince'
    BY <1>1, <1>14, <2>1 DEF ReadTruly, FirstsSince, Registered
  <2>5. Offset(reader.page + 1, raw)
    BY <1>4, <2>2, NextOffset
  <2>6. AtPage(runs)'
    BY <1>1, <1>3, <1>7, <2>1, <2>2, <2>5 DEF AtPage
  <2>7. RunsSeen(reader.raw)'
    BY <1>1, <1>15, <2>1, <2>2 DEF RunsSeen, RunSeen
  <2>8. "runs" \notin Early
    BY DEF Early
  <2> QED BY <2>1, <2>2, <2>3, <2>4, <2>6, <2>7, <2>8 DEF CiInv
<1> QED BY <1>17, <1>18, <1>19

\* The statuses left to read.
LEMMA LimitIsInt ==
    ASSUME CiTyped, reader # Absent
    PROVE  Preparation!Limit \in Int
<1>1. reader.checks \in Seq(Preparation!Ids \X Preparation!Results)
  BY DEF CiTyped, Checks
<1>2. DOMAIN reader.checks = 1..Len(reader.checks) /\ Len(reader.checks) \in Nat
  BY <1>1
<1>3. Preparation!Foreign(reader.checks) \subseteq 1..Len(reader.checks)
  BY <1>2 DEF Preparation!Foreign
<1>4. IsFiniteSet(1..Len(reader.checks))
  BY <1>2, FS_Interval
<1>5. IsFiniteSet(Preparation!Foreign(reader.checks))
  BY <1>3, <1>4, FS_Subset
<1>6. Cardinality(Preparation!Foreign(reader.checks)) \in Nat
  BY <1>5, FS_CardinalityType
<1>7. \A S : Preparation!Cardinality(S) = Cardinality(S)
  BY DEF Preparation!Cardinality, Cardinality
<1>8. MaxChecks \in Nat
  BY PreparationAssumption
<1> QED BY <1>6, <1>7, <1>8 DEF Preparation!Limit

\* The statuses read, with those of one more page, which end at the n-th.
Followed(read, n) ==
    /\ read \in Statuses
    /\ \A j \in DOMAIN read :
           (\A i \in 1..(j - 1) : read[i][1] # read[j][1]) => read[j][2] \in Since(read[j][1])
    /\ \A p \in DOMAIN statuses : p <= n /\ WasThere(p) => \E j \in DOMAIN read : read[j][1] = statuses[p][1]

IsNext(taken) == \A i \in 1..Len(taken) : /\ reader.raw + i \in DOMAIN statuses
                                          /\ taken[i] = statuses[reader.raw + i]

LEMMA StatusesGrow ==
    ASSUME CiInv, reader # Absent, reader.step = "statuses",
           NEW taken \in Statuses, IsNext(taken), NEW read, read = reader.read \o taken
    PROVE  Followed(read, reader.raw + Len(taken))
<1>1. /\ reader.read \in Statuses /\ FirstsSince /\ StatusesSeen(reader.raw) /\ reader.raw \in Nat
      /\ DOMAIN statuses = 1..Len(statuses) /\ Len(statuses) \in Nat
  BY DEF CiInv, CiTyped, AtPage, Offset, Statuses
<1>2. read \in Statuses /\ Continues(read, reader.read, taken)
  BY <1>1, Extended DEF Statuses
<1>3. /\ Len(reader.read) \in Nat /\ Len(taken) \in Nat /\ DOMAIN reader.read = 1..Len(reader.read)
      /\ DOMAIN read = 1..(Len(reader.read) + Len(taken))
      /\ \A j \in 1..Len(reader.read) : read[j] = reader.read[j]
      /\ \A i \in 1..Len(taken) : read[Len(reader.read) + i] = taken[i]
  BY <1>1, <1>2 DEF Continues, Statuses
<1>4. PICK old : old = Len(reader.read)
  OBVIOUS
<1>5. PICK from : from = reader.raw
  OBVIOUS
<1>6. old \in Nat /\ from \in Nat
  BY <1>1, <1>3, <1>4, <1>5
<1>7. \A i \in 1..Len(taken) : /\ from + i \in DOMAIN statuses
                               /\ old + i \in DOMAIN read
                               /\ read[old + i] = statuses[from + i]
  BY <1>3, <1>4, <1>5 DEF IsNext
<1>8. \A j \in 1..old : j \in DOMAIN read /\ read[j] = reader.read[j]
  BY <1>3, <1>4
<1>9. ASSUME NEW p \in DOMAIN statuses, p <= from + Len(taken), WasThere(p)
      PROVE  \E j \in DOMAIN read : /\ read[j][1] = statuses[p][1]
                                    /\ p <= from => j \in 1..old
                                    /\ p > from => j = old + (p - from)
  <2>1. CASE p <= from
    <3>1. PICK j \in DOMAIN reader.read : reader.read[j][1] = statuses[p][1]
      BY <1>1, <1>5, <1>9, <2>1 DEF StatusesSeen, ContextSeen
    <3>2. j \in 1..old
      BY <1>3, <1>4
    <3> QED BY <1>1, <1>6, <1>8, <2>1, <3>1, <3>2
  <2>2. CASE p > from
    <3>1. p - from \in 1..Len(taken) /\ from + (p - from) = p
      BY <1>1, <1>3, <1>6, <1>9, <2>2
    <3>2. old + (p - from) \in DOMAIN read /\ read[old + (p - from)] = statuses[p]
      BY <1>7, <3>1
    <3>3. ~(p <= from)
      <4>1. p \in Nat
        BY <1>1, <1>9
      <4> QED BY <1>6, <2>2, <4>1
    <3> QED BY <3>2, <3>3, Zenon
  <2> QED BY <1>1, <1>6, <2>1, <2>2
<1>10. ASSUME NEW j \in DOMAIN read, \A i \in 1..(j - 1) : read[i][1] # read[j][1]
       PROVE  read[j][2] \in Since(read[j][1])
  <2>1. CASE j \in 1..old
    <3>1. \A i \in 1..(j - 1) : i \in 1..old
      BY <1>6, <2>1
    <3>2. IsFirst(j)
      BY <1>8, <1>10, <2>1, <3>1 DEF IsFirst
    <3>3. reader.read[j][2] \in Since(reader.read[j][1])
      BY <1>1, <1>3, <1>4, <2>1, <3>2 DEF FirstsSince
    <3> QED BY <1>8, <2>1, <3>3
  <2>2. CASE j \notin 1..old
    <3>1. PICK q \in 1..Len(taken) : j = old + q
      <4>1. j - old \in 1..Len(taken) /\ j = old + (j - old)
        BY <1>3, <1>4, <1>6, <2>2
      <4> QED BY <4>1
    <3>2. PICK p : p = from + q
      OBVIOUS
    <3>3. read[j] = statuses[p] /\ p \in DOMAIN statuses /\ p = from + q /\ p <= from + Len(taken)
      <4>1. read[old + q] = statuses[from + q] /\ from + q \in DOMAIN statuses
        BY <1>7
      <4>2. from + q <= from + Len(taken)
        BY <1>3, <1>6
      <4> QED BY <3>1, <3>2, <4>1, <4>2
    <3>4. ASSUME NEW i \in 1..(p - 1), statuses[i][1] = read[j][1], WasThere(i)
          PROVE  FALSE
      <4>1. i \in DOMAIN statuses /\ i < p
        BY <1>1, <3>3
      <4>2. i <= from + Len(taken)
        BY <1>1, <1>3, <1>6, <3>3, <4>1
      <4>3. PICK l \in DOMAIN read : /\ read[l][1] = statuses[i][1]
                                     /\ i <= from => l \in 1..old
                                     /\ i > from => l = old + (i - from)
        BY <1>9, <3>4, <4>1, <4>2
      <4>4. l \in 1..(j - 1)
        BY <1>1, <1>3, <1>6, <3>1, <3>3, <4>1, <4>3
      <4> QED BY <1>10, <3>4, <4>3, <4>4
    <3> QED BY <3>3, <3>4 DEF Since
  <2> QED BY <2>1, <2>2
<1> QED BY <1>2, <1>5, <1>9, <1>10 DEF Followed

LEMMA StatusesStep ==
    ASSUME CiInv, Preparation!ReadStatuses
    PROVE  CiInv'
<1>1. reader # Absent /\ reader.step = "statuses" /\ UNCHANGED <<runs, result, statuses, listed>>
  BY StayFacts DEF Preparation!ReadStatuses
<1>2. /\ AtPage(statuses) /\ CiTyped /\ DOMAIN reader = Fields /\ ReadTruly /\ FirstsSince
      /\ reader.raw = 0 \/ reader.raw < Preparation!Limit
      /\ reader.whole => \A i \in listed.runs : RunSeen(i)
      /\ reader.whole \in BOOLEAN /\ reader.checks \in Checks /\ reader.read \in Statuses
  BY <1>1 DEF CiInv, CiTyped
<1>3. statuses \in Seq(Contexts \X Preparation!Results) /\ Len(statuses) \in Nat /\ statuses \in Statuses
      /\ DOMAIN statuses = 1..Len(statuses)
  BY <1>2 DEF CiTyped, Statuses
<1>4. Offset(reader.page, reader.raw) /\ reader.raw \in Nat /\ reader.raw <= Len(statuses)
  BY <1>2 DEF AtPage, Offset
<1>5. PICK limit, from : limit = Preparation!Limit /\ from = reader.raw
  OBVIOUS
<1>6. limit \in Int /\ from \in Nat /\ (from = 0 \/ from < limit)
  BY <1>1, <1>2, <1>4, <1>5, LimitIsInt
<1>7. ASSUME NEW read, Followed(read, 0), NEW whole \in BOOLEAN, whole => reader.whole,
             whole => Followed(read, Len(statuses)),
             NEW r, DOMAIN r = Fields, r.checks = reader.checks, r.read = read, r.whole = whole,
             Preparation!Goto("store", r)
      PROVE  CiInv'
  <2>1. /\ DOMAIN reader' = Fields /\ reader'.step = "store"
        /\ reader'.checks = reader.checks /\ reader'.read = read /\ reader'.whole = whole
    BY <1>7, GotoFields
  <2>2. "store" \in Steps /\ "store" \notin Early
    BY DEF Steps, Early
  <2>3. CiTyped'
    BY <1>1, <1>2, <1>7, <2>1, <2>2 DEF CiTyped, Registered, Followed
  <2>4. ReadTruly'
    BY <1>1, <1>2, <2>1 DEF ReadTruly, Registered
  <2>5. FirstsSince'
    BY <1>1, <1>7, <2>1 DEF FirstsSince, IsFirst, Followed, Since, WasThere
  <2>6. reader'.whole => \A i \in listed'.runs : RunSeen(i)'
    BY <1>1, <1>2, <1>7, <2>1 DEF RunSeen
  <2>7. reader'.whole => StatusesSeen(Len(statuses))'
    BY <1>1, <1>7, <2>1 DEF Followed, StatusesSeen, WasThere, ContextSeen
  <2> QED BY <2>1, <2>2, <2>3, <2>4, <2>5, <2>6, <2>7 DEF CiInv
<1>8. CASE limit <= 0
  <2>1. PICK r : r = [reader EXCEPT !.whole = FALSE]
    OBVIOUS
  <2>2. Preparation!Goto("store", r)
    BY <1>5, <1>8, <2>1 DEF Preparation!ReadStatuses
  <2>3. DOMAIN r = Fields /\ r.checks = reader.checks /\ r.read = reader.read /\ r.whole = FALSE
    BY <1>2, <2>1 DEF Fields
  <2>4. Followed(reader.read, 0)
    <3>1. \A p \in DOMAIN statuses : ~(p <= 0)
      BY <1>3
    <3> QED BY <1>2, <3>1 DEF Followed, FirstsSince, IsFirst
  <2> QED BY <1>7, <2>2, <2>3, <2>4
<1>9. CASE ~(limit <= 0)
  <2>1. PICK page, m : page = Preparation!Page(statuses, reader.page) /\ m = Len(page)
    OBVIOUS
  <2>2. /\ page \in Seq(Contexts \X Preparation!Results)
        /\ \A i \in 1..m : page[i] = statuses[from + i]
    BY <1>3, <1>4, <1>5, <2>1, PageIs
  <2>3. m \in Nat /\ from + m <= Len(statuses) /\ m <= PageSize
        /\ (m < PageSize => from + m = Len(statuses))
    BY <1>3, <1>4, <1>5, <2>1, PageIs
  <2>4. PICK k, raw : k = Preparation!Least(m, limit - from) /\ raw = Preparation!Least(from + m, limit + 1)
    OBVIOUS
  <2>5. k \in 0..m /\ (from + m <= limit => k = m)
    BY <1>6, <1>9, <2>3, <2>4 DEF Preparation!Least
  <2>6. raw \in Int /\ (raw <= limit => raw = from + m /\ k = m)
    BY <1>6, <1>9, <2>3, <2>4, <2>5 DEF Preparation!Least
  <2>7. PICK taken, read : taken = SubSeq(page, 1, k) /\ read = reader.read \o taken
    OBVIOUS
  <2>8. /\ taken \in Seq(Contexts \X Preparation!Results) /\ Len(taken) = k
        /\ \A i \in 1..k : taken[i] = page[i]
    BY <2>1, <2>2, <2>5, <2>7, FrontIs
  <2>9. taken \in Statuses /\ IsNext(taken)
    <3>1. ASSUME NEW i \in 1..k PROVE i \in 1..m /\ from + i \in DOMAIN statuses
      <4>1. PICK length : length = Len(statuses)
        OBVIOUS
      <4>2. length \in Nat /\ DOMAIN statuses = 1..length /\ from + m <= length
        BY <1>3, <2>3, <4>1
      <4>3. k \in Nat /\ k <= m
        BY <2>3, <2>5
      <4> QED BY <1>6, <2>3, <4>2, <4>3
    <3> QED BY <1>5, <2>2, <2>8, <3>1 DEF IsNext, Statuses
  <2>10. Followed(read, from + k)
    BY <1>1, <1>5, <2>7, <2>8, <2>9, StatusesGrow
  <2>11. \/ /\ m < PageSize \/ raw >= limit
            /\ Preparation!Goto("store", [reader EXCEPT !.read = read,
                   !.whole = reader.whole /\ ~Preparation!Cut(raw, page)])
         \/ /\ ~(m < PageSize) /\ ~(raw >= limit)
            /\ reader' = [reader EXCEPT !.read = read, !.raw = raw, !.page = reader.page + 1]
    BY <1>5, <1>9, <2>1, <2>4, <2>7 DEF Preparation!ReadStatuses
  <2>12. CASE /\ m < PageSize \/ raw >= limit
              /\ Preparation!Goto("store", [reader EXCEPT !.read = read,
                     !.whole = reader.whole /\ ~Preparation!Cut(raw, page)])
    <3>1. PICK whole : whole = (reader.whole /\ ~Preparation!Cut(raw, page))
      OBVIOUS
    <3>2. PICK r : r = [reader EXCEPT !.read = read, !.whole = whole]
      OBVIOUS
    <3>3. DOMAIN r = Fields /\ r.checks = reader.checks /\ r.read = read /\ r.whole = whole
      BY <1>2, <3>2 DEF Fields
    <3>4. Preparation!Goto("store", r)
      BY <2>12, <3>1, <3>2
    <3>5. whole \in BOOLEAN /\ (whole => reader.whole)
      BY <3>1
    <3>6. whole => from + k = Len(statuses)
      <4>1. Preparation!Cut(raw, page) <=> raw > limit \/ (raw >= limit /\ m = PageSize)
        BY <1>5, <2>1 DEF Preparation!Cut
      <4>2. PageSize \in Nat
        BY PreparationAssumption
      <4>3. ASSUME whole PROVE from + k = Len(statuses)
        <5>1. ~(raw > limit) /\ ~(raw >= limit /\ m = PageSize)
          BY <3>1, <4>1, <4>3
        <5> QED BY <1>6, <2>3, <2>6, <2>12, <4>2, <5>1
      <4> QED BY <4>3
    <3>7. Followed(read, 0)
      <4>1. \A p \in DOMAIN statuses : ~(p <= 0)
        BY <1>3
      <4> QED BY <2>10, <4>1 DEF Followed
    <3>8. whole => Followed(read, Len(statuses))
      BY <2>10, <3>6
    <3> QED BY <1>7, <3>3, <3>4, <3>5, <3>7, <3>8
  <2>13. CASE /\ ~(m < PageSize) /\ ~(raw >= limit)
              /\ reader' = [reader EXCEPT !.read = read, !.raw = raw, !.page = reader.page + 1]
    <3>1. /\ DOMAIN reader' = Fields /\ reader'.step = "statuses" /\ reader'.page = reader.page + 1
          /\ reader'.raw = raw /\ reader'.checks = reader.checks /\ reader'.read = read
          /\ reader'.whole = reader.whole
      BY <1>1, <1>2, <2>13 DEF Fields
    <3>2. m = PageSize /\ raw = from + PageSize /\ raw = from + k /\ raw < limit /\ raw <= Len(statuses)
      <4>1. PageSize \in Nat
        BY PreparationAssumption
      <4> QED BY <1>6, <2>3, <2>6, <2>13, <4>1
    <3>3. "statuses" \in Steps /\ "statuses" \notin Early
      BY DEF Steps, Early
    <3>4. Followed(read, raw)
      BY <2>10, <3>2
    <3>5. CiTyped'
      BY <1>1, <1>2, <3>1, <3>3, <3>4 DEF CiTyped, Registered, Followed
    <3>6. ReadTruly'
      BY <1>1, <1>2, <3>1 DEF ReadTruly, Registered
    <3>7. FirstsSince'
      BY <1>1, <3>1, <3>4 DEF FirstsSince, IsFirst, Followed, Since, WasThere
    <3>8. reader'.whole => \A i \in listed'.runs : RunSeen(i)'
      BY <1>1, <1>2, <3>1 DEF RunSeen
    <3>9. StatusesSeen(reader.raw)'
      BY <1>1, <3>1, <3>4 DEF Followed, StatusesSeen, WasThere, ContextSeen
    <3>10. Offset(reader.page + 1, raw)
      BY <1>4, <1>5, <3>2, NextOffset
    <3>11. AtPage(statuses)'
      BY <1>1, <3>1, <3>2, <3>10 DEF AtPage
    <3>12. Preparation!Limit' = limit
      BY <1>5, <3>1 DEF Preparation!Limit, Preparation!Foreign
    <3> QED BY <3>1, <3>2, <3>3, <3>5, <3>6, <3>7, <3>8, <3>9, <3>11, <3>12 DEF CiInv
  <2> QED BY <2>11, <2>12, <2>13
<1> QED BY <1>6, <1>8, <1>9

LEMMA StoreStep ==
    ASSUME CiInv, Preparation!StoreContext
    PROVE  CiInv'
<1>1. reader' = Absent /\ UNCHANGED <<runs, result, statuses>>
  BY DEF Preparation!StoreContext, Preparation!github
<1> QED BY <1>1, CiEnds

LEMMA CiNext == CiInv /\ [ReviewingNext]_reviewingVars => CiInv'
<1> SUFFICES ASSUME CiInv, [ReviewingNext]_reviewingVars PROVE CiInv'
  OBVIOUS
<1>1. CASE UNCHANGED preparationVars
  BY <1>1, CiKept DEF preparationVars
<1>2. CASE Preparation!Move \/ Preparation!PlanReview
  <2>1. UNCHANGED <<runs, result, statuses, reader, listed>>
    BY <1>2 DEF Preparation!Move, Preparation!PlanReview, Preparation!github
  <2> QED BY <2>1, CiKept
<1>3. \/ UNCHANGED preparationVars
      \/ Preparation!Move \/ Preparation!PlanReview
      \/ Preparation!Register \/ Preparation!Finish \/ Preparation!PostStatus
      \/ Preparation!LoadPullRequest \/ Preparation!ReadFiles
      \/ Preparation!ReadDiff \/ Preparation!ReadBlobs \/ Preparation!ReadTexts \/ Preparation!MergeFiles
      \/ Preparation!ReadCheckRuns \/ Preparation!ReadStatuses \/ Preparation!StoreContext
  BY DEF ReviewingNext, PreparationStep, StreamStep, AnswerStep, Preparation!PreparationNext, reviewingVars
<1> QED BY <1>1, <1>2, <1>3, RegisterStep, FinishStep, PostStep, LoadStep, FilesStep, SourcesStep, RunsStep,
           StatusesStep, StoreStep

\* The states that a reading with all its pages joins.
States ==
    {reader.checks[k][2] : k \in Preparation!Foreign(reader.checks)} \cup
    {s[2] : s \in Preparation!Latest(reader.read)}

Reporting == {c \in Contexts : \E k \in ((Len(statuses) - listed.statuses) + 1)..Len(statuses) :
                                     statuses[k][1] = c}

LEMMA RunState ==
    ASSUME CiInv, reader # Absent, reader.step = "store", reader.whole,
           NEW i \in listed.runs \ {Preparation!Own}
    PROVE  \E x \in States : x # "pending" => result[i] = x
<1>1. ReadTruly /\ RunSeen(i)
  BY DEF CiInv
<1>2. PICK j \in DOMAIN reader.checks : reader.checks[j][1] = i
  BY <1>1 DEF RunSeen
<1>3. j \in Preparation!Foreign(reader.checks)
  BY <1>2 DEF Preparation!Foreign
<1> QED BY <1>1, <1>2, <1>3 DEF States, ReadTruly

\* A sequence that holds a context has a first entry of it.
LEMMA FirstOne ==
    ASSUME NEW read \in Statuses, NEW c, NEW j \in DOMAIN read, read[j][1] = c
    PROVE  \E k \in DOMAIN read : read[k][1] = c /\ \A i \in 1..(k - 1) : read[i][1] # c
<1> DEFINE At == {k \in DOMAIN read : read[k][1] = c}
<1>1. DOMAIN read = 1..Len(read) /\ Len(read) \in Nat
  BY DEF Statuses
<1>2. At \in SUBSET (1..Len(read)) /\ At # {}
  BY <1>1
<1>3. PICK k \in At : \A l \in At : ~(l < k)
  <2> HIDE DEF At
  <2> QED BY <1>1, <1>2, SmallestOne
<1>4. \A i \in 1..(k - 1) : i \in DOMAIN read /\ i < k
  BY <1>1, <1>3
<1> QED BY <1>3, <1>4

LEMMA ContextState ==
    ASSUME CiInv, reader # Absent, reader.step = "store", reader.whole, NEW c \in Reporting
    PROVE  \E x \in States : x \in Since(c) /\ x \in Preparation!Results
<1>1. /\ StatusesSeen(Len(statuses)) /\ FirstsSince /\ reader.read \in Statuses
      /\ listed.statuses \in 0..Len(statuses)
      /\ Len(statuses) \in Nat /\ DOMAIN statuses = 1..Len(statuses)
  BY DEF CiInv, CiTyped, Statuses
<1>2. PICK k \in DOMAIN statuses : statuses[k][1] = c /\ WasThere(k)
  BY <1>1 DEF Reporting, WasThere
<1>3. ContextSeen(c)
  BY <1>1, <1>2 DEF StatusesSeen
<1>4. PICK j \in DOMAIN reader.read : reader.read[j][1] = c /\ \A i \in 1..(j - 1) : reader.read[i][1] # c
  BY <1>1, <1>3, FirstOne DEF ContextSeen
<1>5. IsFirst(j) /\ reader.read[j][2] \in Since(c)
  BY <1>1, <1>4 DEF IsFirst, FirstsSince
<1>6. reader.read[j][2] \in Preparation!Results
  BY <1>1 DEF Statuses
<1>7. reader.read[j] \in Preparation!Latest(reader.read)
  BY <1>5 DEF Preparation!Latest, IsFirst
<1> QED BY <1>5, <1>6, <1>7 DEF States

LEMMA CiTells == CiInv => CiConclusive
<1> SUFFICES ASSUME CiInv, reader # Absent, reader.step = "store"
             PROVE  Preparation!CiConclusive
  BY DEF CiConclusive, Preparation!CiConclusive
<1> SUFFICES LET ci == Preparation!AggregateCi(reader)
                 others == listed.runs \ {Preparation!Own}
             IN  /\ ci = "success" => /\ \A i \in others : result[i] = "success"
                                      /\ \A c \in Reporting : "success" \in Since(c)
                 /\ ci = "failure" =>
                      \/ \E k \in DOMAIN runs : runs[k] # Preparation!Own /\ result[runs[k]] = "failure"
                      \/ \E c \in Contexts : "failure" \in Since(c)
                 /\ ci = "not_configured" => others = {} /\ Reporting = {}
  <2>1. /\ Len(statuses) \in Nat /\ listed.statuses \in Nat /\ DOMAIN statuses = 1..Len(statuses)
    BY DEF CiInv, CiTyped, Statuses
  <2>2. \A c : Since(c) = {statuses[k][2] : k \in
             {j \in DOMAIN statuses :
                 /\ statuses[j][1] = c
                 /\ \A i \in 1..(j - 1) : statuses[i][1] = c => i <= Len(statuses) - listed.statuses}}
    BY <2>1 DEF Since, WasThere
  <2> QED BY <2>2 DEF CiConclusive, Preparation!CiConclusive, Reporting
<1> DEFINE ci == Preparation!AggregateCi(reader)
<1>1. ci = CASE ~reader.whole -> "unknown"
             [] reader.whole /\ States = {} -> "not_configured"
             [] reader.whole /\ "failure" \in States -> "failure"
             [] reader.whole /\ "failure" \notin States /\ "pending" \in States -> "pending"
             [] OTHER -> "success"
  BY DEF Preparation!AggregateCi, States
<1> HIDE DEF ci
<1>2. ci \in {"success", "failure", "not_configured"} => reader.whole
  BY <1>1
<1>3. ci = "success" => reader.whole /\ "failure" \notin States /\ "pending" \notin States
  BY <1>1
<1>4. ci = "failure" => "failure" \in States
  BY <1>1
<1>5. ci = "not_configured" => reader.whole /\ States = {}
  BY <1>1
<1>6. ReadTruly /\ FirstsSince /\ reader.checks \in Checks /\ reader.read \in Statuses
      /\ result \in [Preparation!Ids -> Preparation!Results] /\ listed.runs \subseteq Registered
      /\ Registered \subseteq Preparation!Ids
  BY DEF CiInv, CiTyped, Registered
<1>7. ASSUME ci = "success", NEW i \in listed.runs \ {Preparation!Own}
      PROVE  result[i] = "success"
  <2>1. PICK x \in States : x # "pending" => result[i] = x
    BY <1>3, <1>7, RunState
  <2>2. result[i] = x /\ result[i] \in Preparation!Results /\ x \notin {"failure", "pending"}
    BY <1>3, <1>6, <1>7, <2>1
  <2> QED BY <2>2 DEF Preparation!Results
<1>8. ASSUME ci = "success", NEW c \in Reporting
      PROVE  "success" \in Since(c)
  <2>1. PICK x \in States : x \in Since(c) /\ x \in Preparation!Results
    BY <1>3, <1>8, ContextState
  <2> QED BY <1>3, <1>8, <2>1 DEF Preparation!Results
<1>9. ASSUME ci = "failure"
      PROVE  \/ \E k \in DOMAIN runs : runs[k] # Preparation!Own /\ result[runs[k]] = "failure"
             \/ \E c \in Contexts : "failure" \in Since(c)
  <2>1. CASE \E k \in Preparation!Foreign(reader.checks) : reader.checks[k][2] = "failure"
    <3>1. PICK k \in DOMAIN reader.checks : /\ reader.checks[k][2] = "failure"
                                            /\ reader.checks[k][1] # Preparation!Own
      BY <2>1 DEF Preparation!Foreign
    <3>2. reader.checks[k][1] \in Registered /\ result[reader.checks[k][1]] = "failure"
      BY <1>6, <3>1 DEF ReadTruly
    <3> QED BY <3>1, <3>2 DEF Registered
  <2>2. CASE \E s \in Preparation!Latest(reader.read) : s[2] = "failure"
    <3>1. PICK j \in DOMAIN reader.read : IsFirst(j) /\ reader.read[j][2] = "failure"
      BY <2>2 DEF Preparation!Latest, IsFirst
    <3>2. "failure" \in Since(reader.read[j][1]) /\ reader.read[j][1] \in Contexts
      BY <1>6, <3>1 DEF FirstsSince, Statuses
    <3> QED BY <3>2
  <2> QED BY <1>4, <1>9, <2>1, <2>2 DEF States
<1>10. ci = "not_configured" => listed.runs \ {Preparation!Own} = {} /\ Reporting = {}
  BY <1>5, RunState, ContextState
<1> QED BY <1>7, <1>8, <1>9, <1>10 DEF ci

-----------------------------------------------------------------------------
(* The order of paths, and what fits in that order.                        *)

LEMMA BeforeIrreflexive ==
    ASSUME NEW a \in Seq(Nat)
    PROVE  ~Preparation!Before(a, a)
<1>1. Len(a) \in Nat /\ \A i \in DOMAIN a : a[i] \in Nat
  OBVIOUS
<1> QED BY <1>1 DEF Preparation!Before

LEMMA BeforeByLength ==
    ASSUME NEW a \in Seq(Nat), NEW b \in Seq(Nat)
    PROVE  /\ Preparation!Before(a, b) => Len(a) <= Len(b)
           /\ Len(a) < Len(b) => Preparation!Before(a, b)
<1>1. Len(a) \in Nat /\ Len(b) \in Nat
  OBVIOUS
<1>2. Preparation!Before(a, b) => Len(a) < Len(b) \/ Len(a) = Len(b)
  BY Zenon DEF Preparation!Before
<1>3. Len(a) < Len(b) => Preparation!Before(a, b)
  BY Zenon DEF Preparation!Before
<1> QED BY <1>1, <1>2, <1>3

LEMMA BeforeTransitive ==
    ASSUME NEW a \in Seq(Nat), NEW b \in Seq(Nat), NEW c \in Seq(Nat),
           Preparation!Before(a, b), Preparation!Before(b, c)
    PROVE  Preparation!Before(a, c)
<1>1. /\ Len(a) \in Nat /\ Len(b) \in Nat /\ Len(c) \in Nat
      /\ DOMAIN a = 1..Len(a) /\ DOMAIN b = 1..Len(b) /\ DOMAIN c = 1..Len(c)
      /\ \A i \in DOMAIN a : a[i] \in Nat
      /\ \A i \in DOMAIN b : b[i] \in Nat
      /\ \A i \in DOMAIN c : c[i] \in Nat
  OBVIOUS
<1>2. CASE Len(a) < Len(b) \/ Len(b) < Len(c)
  <2>1. Len(a) <= Len(b) /\ Len(b) <= Len(c)
    BY BeforeByLength
  <2>2. Len(a) < Len(c)
    BY <1>1, <1>2, <2>1
  <2> QED BY <2>2, BeforeByLength
<1>3. CASE ~(Len(a) < Len(b)) /\ ~(Len(b) < Len(c))
  <2>1. Len(a) = Len(b) /\ Len(b) = Len(c)
    BY <1>3 DEF Preparation!Before
  <2>2. PICK i \in 1..Len(a) : a[i] < b[i] /\ \A j \in 1..(i - 1) : a[j] = b[j]
    BY <1>1, <1>3 DEF Preparation!Before
  <2>3. PICK k \in 1..Len(a) : b[k] < c[k] /\ \A j \in 1..(k - 1) : b[j] = c[j]
    BY <1>1, <1>3, <2>1 DEF Preparation!Before
  <2>4. CASE i < k
    <3>1. b[i] = c[i] /\ \A j \in 1..(i - 1) : j \in 1..(k - 1)
      BY <1>1, <2>3, <2>4
    <3>2. a[i] < c[i] /\ \A j \in 1..(i - 1) : a[j] = c[j]
      BY <2>2, <2>3, <3>1
    <3> QED BY <1>1, <2>1, <3>2 DEF Preparation!Before
  <2>5. CASE k < i
    <3>1. a[k] = b[k] /\ \A j \in 1..(k - 1) : j \in 1..(i - 1)
      BY <1>1, <2>2, <2>5
    <3>2. a[k] < c[k] /\ \A j \in 1..(k - 1) : a[j] = c[j]
      BY <2>2, <2>3, <3>1
    <3> QED BY <1>1, <2>1, <3>2 DEF Preparation!Before
  <2>6. CASE i = k
    <3>1. a[i] < c[i] /\ \A j \in 1..(i - 1) : a[j] = c[j]
      BY <1>1, <2>1, <2>2, <2>3, <2>6
    <3> QED BY <1>1, <2>1, <3>1 DEF Preparation!Before
  <2> QED BY <1>1, <2>4, <2>5, <2>6
<1> QED BY <1>2, <1>3

LEMMA BeforeTotal ==
    ASSUME NEW a \in Seq(Nat), NEW b \in Seq(Nat), a # b
    PROVE  Preparation!Before(a, b) \/ Preparation!Before(b, a)
<1>1. /\ Len(a) \in Nat /\ Len(b) \in Nat /\ DOMAIN a = 1..Len(a) /\ DOMAIN b = 1..Len(b)
      /\ \A i \in DOMAIN a : a[i] \in Nat
      /\ \A i \in DOMAIN b : b[i] \in Nat
  OBVIOUS
<1>2. CASE Len(a) # Len(b)
  <2>1. Len(a) < Len(b) \/ Len(b) < Len(a)
    <3>1. Len(a) \in Nat /\ Len(b) \in Nat
      OBVIOUS
    <3> QED BY <1>2, <3>1
  <2> QED BY <2>1, BeforeByLength
<1>3. CASE Len(a) = Len(b)
  <2> DEFINE Differ == {i \in 1..Len(a) : a[i] # b[i]}
  <2>1. Differ # {}
    BY <1>1, <1>3
  <2>2. PICK i \in Differ : \A j \in Differ : ~(j < i)
    <3>1. Differ \in SUBSET (1..Len(a))
      OBVIOUS
    <3> HIDE DEF Differ
    <3> QED BY <1>1, <2>1, <3>1, SmallestOne
  <2>3. \A j \in 1..(i - 1) : a[j] = b[j]
    <3>1. \A j \in 1..(i - 1) : j \in 1..Len(a) /\ j < i
      BY <1>1
    <3> QED BY <2>2, <3>1
  <2>4. a[i] < b[i] \/ b[i] < a[i]
    BY <1>1, <1>3
  <2> QED BY <1>1, <1>3, <2>3, <2>4 DEF Preparation!Before
<1> QED BY <1>2, <1>3

IsOrdered(S) == IsFiniteSet(S) /\ S \subseteq Seq(Nat)

LEMMA SameCardinality == \A S : Preparation!Cardinality(S) = Cardinality(S)
BY DEF Preparation!Cardinality, Cardinality

LEMMA RankGrows ==
    ASSUME NEW S, IsOrdered(S), NEW x \in S, NEW y \in S
    PROVE  /\ Preparation!Rank(x, S) \in 1..Cardinality(S)
           /\ Preparation!Before(x, y) => Preparation!Rank(x, S) < Preparation!Rank(y, S)
<1> DEFINE Under(z) == {w \in S : Preparation!Before(w, z)}
<1>1. IsFiniteSet(S) /\ S \subseteq Seq(Nat)
  BY DEF IsOrdered
<1>2. \A z : Preparation!Rank(z, S) = Cardinality(Under(z)) + 1
  BY SameCardinality DEF Preparation!Rank
<1>3. ASSUME NEW z \in S
      PROVE  z \notin Under(z) /\ Under(z) \subseteq S /\ IsFiniteSet(Under(z)) /\ Cardinality(Under(z)) \in Nat
  <2>1. z \notin Under(z)
    BY <1>1, BeforeIrreflexive
  <2>2. Under(z) \subseteq S
    OBVIOUS
  <2> HIDE DEF Under
  <2>3. IsFiniteSet(Under(z))
    BY <1>1, <2>2, FS_Subset
  <2> QED BY <2>1, <2>2, <2>3, FS_CardinalityType
<1>4. Cardinality(Under(x)) < Cardinality(S)
  <2> HIDE DEF Under
  <2>1. /\ Cardinality(Under(x)) <= Cardinality(S)
        /\ Cardinality(S) = Cardinality(Under(x)) => S = Under(x)
    BY <1>1, <1>3, FS_Subset
  <2>2. Cardinality(S) \in Nat
    BY <1>1, FS_CardinalityType
  <2> QED BY <1>3, <2>1, <2>2
<1>5. ASSUME Preparation!Before(x, y)
      PROVE  Cardinality(Under(x)) < Cardinality(Under(y))
  <2>1. Under(x) \subseteq Under(y) /\ x \in Under(y)
    BY <1>1, <1>5, BeforeTransitive
  <2> HIDE DEF Under
  <2>2. /\ Cardinality(Under(x)) <= Cardinality(Under(y))
        /\ Cardinality(Under(y)) = Cardinality(Under(x)) => Under(y) = Under(x)
    BY <1>3, <2>1, FS_Subset
  <2> QED BY <1>3, <2>1, <2>2
<1> HIDE DEF Under
<1>6. Cardinality(S) \in Nat
  BY <1>1, FS_CardinalityType
<1> QED BY <1>2, <1>3, <1>4, <1>5, <1>6

LEMMA RankOne ==
    ASSUME NEW S, IsOrdered(S), NEW x \in S, NEW y \in S, Preparation!Rank(x, S) = Preparation!Rank(y, S)
    PROVE  x = y
<1>1. SUFFICES ASSUME x # y PROVE FALSE
  OBVIOUS
<1>2. Preparation!Before(x, y) \/ Preparation!Before(y, x)
  BY <1>1, BeforeTotal DEF IsOrdered
<1>3. Preparation!Rank(x, S) \in Int
  <2>1. Preparation!Rank(x, S) \in 1..Cardinality(S)
    BY RankGrows
  <2> QED BY <2>1
<1>4. Preparation!Rank(x, S) < Preparation!Rank(y, S) \/ Preparation!Rank(y, S) < Preparation!Rank(x, S)
  BY <1>2, RankGrows
<1> QED BY <1>3, <1>4

LEMMA RankOnto ==
    ASSUME NEW S, IsOrdered(S), NEW i \in 1..Cardinality(S)
    PROVE  \E x \in S : Preparation!Rank(x, S) = i
<1> DEFINE f == [x \in S |-> Preparation!Rank(x, S)]
           T == 1..Cardinality(S)
<1>1. IsFiniteSet(S) /\ Cardinality(S) \in Nat
  BY FS_CardinalityType DEF IsOrdered
<1>2. f \in Injection(S, T)
  <2>1. f \in [S -> T]
    BY RankGrows
  <2>2. \A x, y \in S : f[x] = f[y] => x = y
    BY RankOne
  <2> HIDE DEF f, T
  <2> QED BY <2>1, <2>2 DEF Injection, IsInjective
<1>3. IsFiniteSet(T) /\ Cardinality(T) = Cardinality(S)
  BY <1>1, FS_Interval
<1>4. f \in Surjection(S, T)
  <2> HIDE DEF f, T
  <2> QED BY <1>2, <1>3, FS_Injection
<1> QED BY <1>4 DEF Surjection

\* One step of FirstFit.
FitStep(S, size, total, n, before) ==
    LET x == CHOOSE y \in S : Preparation!Rank(y, S) = n
    IN  IF before.bytes + size[x] > total THEN before
        ELSE [taken |-> before.taken \cup {x}, bytes |-> before.bytes + size[x]]

Fits(S, size, total, f, k) ==
    f = [n \in 0..k |-> IF n = 0 THEN [taken |-> {}, bytes |-> 0] ELSE FitStep(S, size, total, n, f[n - 1])]

LEMMA FitsExist ==
    ASSUME NEW S, NEW size, NEW total, NEW N \in Nat
    PROVE  \E f : Fits(S, size, total, f, N)
<1> DEFINE Missing == {k \in 0..N : ~\E f : Fits(S, size, total, f, k)}
<1> SUFFICES ASSUME Missing # {} PROVE FALSE
  OBVIOUS
<1>1. 0 \notin Missing
  <2>1. PICK f : f = [n \in 0..0 |-> [taken |-> {}, bytes |-> 0]]
    OBVIOUS
  <2>2. \A n \in 0..0 : n = 0
    OBVIOUS
  <2>3. f = [n \in 0..0 |-> IF n = 0 THEN [taken |-> {}, bytes |-> 0] ELSE FitStep(S, size, total, n, f[n - 1])]
    BY <2>1, <2>2
  <2>4. Fits(S, size, total, f, 0)
    BY <2>3 DEF Fits
  <2> QED BY <2>4
<1>2. Missing \in SUBSET (1..N)
  BY <1>1
<1>3. PICK k \in Missing : \A j \in Missing : ~(j < k)
  <2> HIDE DEF Missing
  <2> QED BY <1>2, SmallestOne
<1>4. k \in 1..N /\ k - 1 \in 0..N /\ k - 1 < k /\ k - 1 \in Nat
  BY <1>2
<1>5. PICK f : Fits(S, size, total, f, k - 1)
  BY <1>3, <1>4
<1>6. PICK g : g = [n \in 0..k |-> IF n = 0 THEN [taken |-> {}, bytes |-> 0] ELSE FitStep(S, size, total, n, f[n - 1])]
  OBVIOUS
<1>7. ASSUME NEW n \in 0..(k - 1)
      PROVE  g[n] = f[n]
  <2>1. n \in 0..k
    BY <1>4
  <2>2. g[n] = IF n = 0 THEN [taken |-> {}, bytes |-> 0] ELSE FitStep(S, size, total, n, f[n - 1])
    BY <1>6, <2>1
  <2>3. f[n] = IF n = 0 THEN [taken |-> {}, bytes |-> 0] ELSE FitStep(S, size, total, n, f[n - 1])
    BY <1>5 DEF Fits
  <2> QED BY <2>2, <2>3
<1>8. \A n \in 0..k : n # 0 => n - 1 \in 0..(k - 1)
  BY <1>4
<1>9. g = [n \in 0..k |-> IF n = 0 THEN [taken |-> {}, bytes |-> 0] ELSE FitStep(S, size, total, n, g[n - 1])]
  BY <1>6, <1>7, <1>8
<1>10. Fits(S, size, total, g, k)
  BY <1>9 DEF Fits
<1> QED BY <1>3, <1>10

\* What fits is taken from the set.
LEMMA FirstFitWithin ==
    ASSUME NEW S, IsOrdered(S), NEW size, NEW total
    PROVE  Preparation!FirstFit(S, size, total) \subseteq S
<1> DEFINE N == Cardinality(S)
           f == CHOOSE g : Fits(S, size, total, g, N)
           Outside == {n \in 0..N : ~(f[n].taken \subseteq S)}
<1>1. N \in Nat
  BY FS_CardinalityType DEF IsOrdered
<1>2. Preparation!FirstFit(S, size, total) = f[N].taken
  BY SameCardinality DEF Preparation!FirstFit, Fits, FitStep
<1>3. Fits(S, size, total, f, N)
  <2> HIDE DEF N
  <2>1. \E g : Fits(S, size, total, g, N)
    BY <1>1, FitsExist
  <2> QED BY <2>1
<1> HIDE DEF f
<1>4. /\ f[0] = [taken |-> {}, bytes |-> 0]
      /\ \A n \in 1..N : f[n] = FitStep(S, size, total, n, f[n - 1])
  <2> HIDE DEF N
  <2>1. 0 \in 0..N /\ \A n \in 1..N : n \in 0..N /\ n # 0
    BY <1>1
  <2> QED BY <1>3, <2>1 DEF Fits
<1>5. ASSUME Outside # {}
      PROVE  FALSE
  <2>1. 0 \notin Outside
    BY <1>4
  <2>2. Outside \in SUBSET (1..N)
    BY <1>1, <2>1
  <2>3. PICK n \in Outside : \A m \in Outside : ~(m < n)
    <3> HIDE DEF Outside, N
    <3> QED BY <1>1, <1>5, <2>2, SmallestOne
  <2>4. n \in 1..N /\ n - 1 \in 0..N /\ n - 1 < n
    <3>1. n \in 1..N
      BY <2>2
    <3> HIDE DEF Outside, N
    <3> QED BY <1>1, <3>1
  <2>5. f[n - 1].taken \subseteq S
    BY <2>3, <2>4
  <2>6. (CHOOSE y \in S : Preparation!Rank(y, S) = n) \in S
    <3>1. \E y \in S : Preparation!Rank(y, S) = n
      BY <2>4, RankOnto
    <3> QED BY <3>1
  <2>7. FitStep(S, size, total, n, f[n - 1]).taken \subseteq S
    BY <2>5, <2>6 DEF FitStep
  <2>8. f[n].taken \subseteq S
    BY <1>4, <2>4, <2>7
  <2> QED BY <2>3, <2>8
<1>6. N \in 0..N
  BY <1>1
<1> QED BY <1>2, <1>5, <1>6

LEMMA Quotient ==
    ASSUME NEW M \in Nat \ {0}, NEW r \in Nat, NEW g, r \div M = g
    PROVE  g * M <= r /\ r < g * M + M
OBVIOUS

\* Of a group, whose ranks have one quotient, there are at most MaxGroup.
LEMMA GroupIsSmall ==
    ASSUME NEW S, IsOrdered(S), NEW T, T \subseteq S, NEW g,
           \A q \in T : (Preparation!Rank(q, S) - 1) \div MaxGroup = g
    PROVE  Cardinality(T) <= MaxGroup
<1>1. MaxGroup \in Nat /\ MaxGroup > 0 /\ Cardinality(S) \in Nat /\ IsFiniteSet(T)
  <2>1. IsFiniteSet(S)
    BY DEF IsOrdered
  <2>2. Cardinality(S) \in Nat /\ IsFiniteSet(T)
    BY <2>1, FS_CardinalityType, FS_Subset
  <2> QED BY <2>2, PreparationAssumption
<1>2. CASE T = {}
  <2>1. Cardinality(T) = 0
    BY <1>2, FS_EmptySet
  <2> QED BY <1>1, <2>1
<1>3. CASE T # {}
  <2>1. \A q \in T : Preparation!Rank(q, S) \in 1..Cardinality(S)
    BY RankGrows
  <2>2. g \in Int
    <3>1. PICK q \in T : TRUE
      BY <1>3
    <3>2. PICK r \in Int : r = Preparation!Rank(q, S)
      BY <1>1, <2>1, <3>1
    <3>3. (r - 1) \div MaxGroup = g
      BY <3>1, <3>2
    <3> QED BY <1>1, <3>3
  <2>3. PICK low \in Int : low = g * MaxGroup
    BY <1>1, <2>2
  <2>4. ASSUME NEW q \in T
        PROVE  Preparation!Rank(q, S) \in (low + 1)..(low + MaxGroup)
    <3>1. PICK r \in Int : r = Preparation!Rank(q, S) /\ r >= 1
      BY <1>1, <2>1
    <3>2. PICK before \in Nat : before = r - 1
      BY <3>1
    <3>3. before \div MaxGroup = g
      BY <3>1, <3>2
    <3>4. g * MaxGroup <= before /\ before < g * MaxGroup + MaxGroup
      BY <3>2, <3>3, Quotient, PreparationAssumption
    <3> QED BY <1>1, <2>3, <3>1, <3>2, <3>4
  <2> DEFINE f == [q \in T |-> Preparation!Rank(q, S)]
             U == (low + 1)..(low + MaxGroup)
  <2>5. f \in Injection(T, U)
    <3>1. f \in [T -> U]
      BY <2>4
    <3>2. \A x, y \in T : f[x] = f[y] => x = y
      BY RankOne
    <3> HIDE DEF f, U
    <3> QED BY <3>1, <3>2 DEF Injection, IsInjective
  <2>6. IsFiniteSet(U) /\ Cardinality(U) = MaxGroup
    <3>1. low + 1 \in Int /\ low + MaxGroup \in Int /\ ~(low + 1 > low + MaxGroup)
          /\ (low + MaxGroup) - (low + 1) + 1 = MaxGroup
      BY <1>1
    <3> QED BY <3>1, FS_Interval
  <2> HIDE DEF f, U
  <2> QED BY <2>5, <2>6, FS_Injection
<1> QED BY <1>2, <1>3

-----------------------------------------------------------------------------
(* The reading of the files and the plan.                                  *)

\* The patch of a file between the commits of a version.
TruePatch(v, p) == [version |-> v, size |-> Change[v][p].size]

\* The files GitHub lists for a version, each with its patch or without.
ReadItems(v) ==
    {[path |-> p, patch |-> Absent] : p \in Preparation!Changed(v)} \cup
    {[path |-> p, patch |-> TruePatch(v, p)] : p \in {q \in Preparation!Changed(v) : ~Change[v][q].binary}}

TrueEntry(v, p, entry) ==
    /\ entry.kind \in {"binary", "text", "too_large"}
    /\ entry.kind = "binary" => Change[v][p].binary
    /\ entry.kind = "text" => ~Change[v][p].binary /\ entry.patch = TruePatch(v, p)

TrueEntries(v, entries) == \A p \in DOMAIN entries : p \in Preparation!Changed(v) /\ TrueEntry(v, p, entries[p])

TrueFile(v, p, file) ==
    /\ file.state \in {"binary", "available", "missing", "too_large"}
    /\ file.state = "binary" => Change[v][p].binary
    /\ file.state = "available" => ~Change[v][p].binary /\ file.patch = TruePatch(v, p)
    /\ file.state \in {"missing", "too_large"} => file.patch = Absent

TrueFiles(v, files, complete) ==
    /\ DOMAIN files \subseteq Preparation!Changed(v)
    /\ complete => DOMAIN files = Preparation!Changed(v)
    /\ \A p \in DOMAIN files : TrueFile(v, p, files[p])

\* What has been read of a pull request that stood still.
Gathered ==
    /\ reader.version = pr
    /\ reader.step = "files" => reader.page \in Nat \ {0}
    /\ reader.step \in Early => reader.items \in Seq(ReadItems(pr))
    /\ reader.step \in {"diff", "blobs", "texts", "merge"} =>
           (reader.complete => Len(reader.items) = Cardinality(Preparation!Changed(pr)))
    /\ reader.step \in {"blobs", "texts", "merge"} => TrueEntries(pr, reader.patches)
    /\ reader.step = "texts" => reader.texts \subseteq {p \in Preparation!Changed(pr) : ~Change[pr][p].binary}
    /\ reader.step \in {"runs", "statuses", "store"} => TrueFiles(pr, reader.files, reader.complete)

\* The inductive invariant of a plan.
PlanInv ==
    /\ steady /\ reader # Absent /\ context = Absent => Gathered
    /\ steady /\ context # Absent => TrueFiles(context.version, context.files, context.complete)
    /\ plan # Absent => reader = Absent
    /\ PlanTruthful

LEMMA ChangedOrdered ==
    ASSUME NEW v
    PROVE  /\ IsOrdered(Preparation!Changed(v)) /\ Cardinality(Preparation!Changed(v)) \in Nat
           /\ IsFiniteSet(Preparation!Changed(v))
<1>1. Preparation!Changed(v) \subseteq Paths
  BY DEF Preparation!Changed
<1>2. IsFiniteSet(Paths) /\ Paths \subseteq Seq(Nat)
  BY PreparationAssumption
<1>3. IsFiniteSet(Preparation!Changed(v))
  BY <1>1, <1>2, FS_Subset
<1> QED BY <1>1, <1>2, <1>3, FS_CardinalityType DEF IsOrdered

LEMMA ListedFiles ==
    ASSUME NEW v
    PROVE  Preparation!FilesOf(v) \in Seq(Preparation!Changed(v))
<1> DEFINE S == Preparation!Changed(v)
<1>1. IsOrdered(S) /\ Cardinality(S) \in Nat
  BY ChangedOrdered
<1>2. \A i \in 1..Cardinality(S) : (CHOOSE p \in S : Preparation!Rank(p, S) = i) \in S
  <2> SUFFICES ASSUME NEW i \in 1..Cardinality(S)
               PROVE  (CHOOSE p \in S : Preparation!Rank(p, S) = i) \in S
    OBVIOUS
  <2>1. \E p \in S : Preparation!Rank(p, S) = i
    BY <1>1, RankOnto
  <2> QED BY <2>1
<1>3. Preparation!FilesOf(v) = [i \in 1..Cardinality(S) |-> CHOOSE p \in S : Preparation!Rank(p, S) = i]
  BY SameCardinality DEF Preparation!FilesOf
<1> HIDE DEF S
<1>4. Preparation!FilesOf(v) \in [1..Cardinality(S) -> S]
  BY <1>2, <1>3
<1> QED BY <1>1, <1>4 DEF S

\* A page, whichever, is a part of the list.
LEMMA PagePart ==
    ASSUME NEW S, NEW list \in Seq(S), NEW n \in Nat \ {0}
    PROVE  Preparation!Page(list, n) \in Seq(S)
<1>1. PageSize \in Nat /\ Len(list) \in Nat /\ DOMAIN list = 1..Len(list)
  BY PreparationAssumption
<1>2. PICK a, b : /\ a = (n - 1) * PageSize + 1
                  /\ b = IF Len(list) < n * PageSize THEN Len(list) ELSE n * PageSize
  OBVIOUS
<1>3. a \in Nat \ {0}
  <2>1. (n - 1) * PageSize \in Nat
    BY <1>1
  <2> QED BY <1>2, <2>1
<1>4. b \in Nat /\ b <= Len(list)
  <2>1. PICK c \in Nat : c = n * PageSize
    BY <1>1
  <2>2. b = IF Len(list) < c THEN Len(list) ELSE c
    BY <1>2, <2>1
  <2> QED BY <1>1, <2>2
<1>5. \A i \in a..b : list[i] \in S
  BY <1>1, <1>3, <1>4
<1>6. SubSeq(list, a, b) \in Seq(S)
  BY <1>3, <1>4, <1>5, SubSeqProperties
<1>7. Preparation!Page(list, n) = SubSeq(list, a, b)
  BY <1>2 DEF Preparation!Page
<1> QED BY <1>6, <1>7

\* Neither the pull request, nor the reading, nor what it led to.
LEMMA PlanKept ==
    ASSUME PlanInv, UNCHANGED <<pr, reader, context, plan, steady>>
    PROVE  PlanInv'
<1>1. Gathered <=> Gathered'
  BY DEF Gathered
<1>2. PlanTruthful <=> PlanTruthful'
  BY DEF PlanTruthful, Preparation!PlanTruthful, Preparation!Usable
<1> QED BY <1>1, <1>2 DEF PlanInv

\* A reading that goes on, or ends without a result.
LEMMA PlanReads ==
    ASSUME PlanInv, reader # Absent, Preparation!Stay, reader' # Absent => (Gathered => Gathered')
    PROVE  PlanInv'
<1>1. UNCHANGED <<context, plan, steady>> /\ plan = Absent
  BY DEF Preparation!Stay, PlanInv
<1>2. PlanTruthful'
  BY <1>1 DEF PlanTruthful, Preparation!PlanTruthful
<1> QED BY <1>1, <1>2 DEF PlanInv

LEMMA PlanInitial == ReviewingInit => PlanInv
BY DEF ReviewingInit, Preparation!PreparationInit, PlanInv, PlanTruthful, Preparation!PlanTruthful

LEMMA GotoKeeps ==
    ASSUME NEW r, DOMAIN r = Fields, NEW step, Preparation!Goto(step, r)
    PROVE  /\ reader'.step = step /\ reader'.version = r.version /\ reader'.items = r.items
           /\ reader'.patches = r.patches /\ reader'.texts = r.texts /\ reader'.files = r.files
           /\ reader'.complete = r.complete
BY DEF Preparation!Goto, Fields

RawItems(v, page, omitted) ==
    [i \in DOMAIN page |->
        [path |-> page[i],
         patch |-> IF Change[v][page[i]].binary \/ page[i] \in omitted THEN Absent
                   ELSE [version |-> v, size |-> Change[v][page[i]].size]]]

LEMMA ItemsRead ==
    ASSUME NEW v, NEW page \in Seq(Preparation!Changed(v)), NEW omitted,
           NEW raw, raw = RawItems(v, page, omitted)
    PROVE  raw \in Seq(ReadItems(v))
<1>1. DOMAIN page = 1..Len(page) /\ Len(page) \in Nat
  OBVIOUS
<1>2. \A i \in 1..Len(page) : raw[i] \in ReadItems(v)
  <2> SUFFICES ASSUME NEW i \in 1..Len(page) PROVE raw[i] \in ReadItems(v)
    OBVIOUS
  <2>1. page[i] \in Preparation!Changed(v)
    OBVIOUS
  <2>2. raw[i] = [path |-> page[i],
                  patch |-> IF Change[v][page[i]].binary \/ page[i] \in omitted THEN Absent
                            ELSE TruePatch(v, page[i])]
    BY <1>1 DEF TruePatch, RawItems
  <2>3. CASE Change[v][page[i]].binary \/ page[i] \in omitted
    BY <2>1, <2>2, <2>3 DEF ReadItems
  <2>4. CASE ~(Change[v][page[i]].binary \/ page[i] \in omitted)
    BY <2>1, <2>2, <2>4 DEF ReadItems
  <2> QED BY <2>3, <2>4
<1>3. raw \in [1..Len(page) -> ReadItems(v)]
  <2>1. PICK g : g = [i \in 1..Len(page) |-> raw[i]]
    OBVIOUS
  <2>2. g \in [1..Len(page) -> ReadItems(v)]
    BY <1>2, <2>1
  <2>3. raw = g
    BY <1>1, <2>1 DEF RawItems
  <2> QED BY <2>2, <2>3
<1> QED BY <1>1, <1>3

\* The fields of a reading, as a step finds them.
LEMMA FieldsOfReader ==
    ASSUME CiInv, reader # Absent
    PROVE  DOMAIN reader = Fields
BY DEF CiInv, CiTyped

LEMMA PlanFiles ==
    ASSUME CiInv, PlanInv, Preparation!ReadFiles
    PROVE  PlanInv'
<1>1. reader # Absent /\ reader.step = "files" /\ Preparation!Stay /\ DOMAIN reader = Fields
  BY FieldsOfReader DEF Preparation!ReadFiles
<1> SUFFICES ASSUME Gathered PROVE Gathered'
  BY <1>1, PlanReads
<1>2. pr' = pr
  BY <1>1 DEF Preparation!Stay, Preparation!github
<1>3. reader.version = pr /\ reader.page \in Nat \ {0} /\ reader.items \in Seq(ReadItems(pr))
  BY <1>1 DEF Gathered, Early
<1> DEFINE page == Preparation!Page(Preparation!FilesOf(pr), reader.page)
           Front(list) == SubSeq(list, 1, IF Len(list) < MaxFiles THEN Len(list) ELSE MaxFiles)
           Complete(items) == Len(items) = Preparation!Cardinality(Preparation!Changed(reader.version))
<1>4. PICK omitted : LET items == Front(reader.items \o RawItems(pr, page, omitted)) IN
          \/ Preparation!Goto("diff", [reader EXCEPT !.items = items, !.complete = Complete(items)])
          \/ reader' = [reader EXCEPT !.items = items, !.page = reader.page + 1]
  BY DEF Preparation!ReadFiles, RawItems
<1> HIDE DEF page, Front, Complete
<1>5. page \in Seq(Preparation!Changed(pr))
  BY <1>3, ListedFiles, PagePart DEF page
<1>6. PICK raw, all, items, complete :
          /\ raw = RawItems(pr, page, omitted) /\ all = reader.items \o raw /\ items = Front(all)
          /\ complete = Complete(items)
  OBVIOUS
<1>7. raw \in Seq(ReadItems(pr))
  BY <1>5, <1>6, ItemsRead
<1>8. all \in Seq(ReadItems(pr))
  BY <1>3, <1>6, <1>7
<1>9. items \in Seq(ReadItems(pr))
  <2>1. MaxFiles \in Nat /\ Len(all) \in Nat
    BY <1>8, PreparationAssumption
  <2>2. PICK k : k = IF Len(all) < MaxFiles THEN Len(all) ELSE MaxFiles
    OBVIOUS
  <2>3. k \in 0..Len(all)
    BY <2>1, <2>2
  <2>4. SubSeq(all, 1, k) \in Seq(ReadItems(pr))
    BY <1>8, <2>3, FrontIs
  <2> QED BY <1>6, <2>2, <2>4 DEF Front
<1>10. CASE Preparation!Goto("diff", [reader EXCEPT !.items = items, !.complete = complete])
  <2>1. PICK r : r = [reader EXCEPT !.items = items, !.complete = complete]
    OBVIOUS
  <2>2. DOMAIN r = Fields /\ r.version = pr /\ r.items = items /\ r.complete = complete
    BY <1>1, <1>3, <2>1 DEF Fields
  <2>3. reader'.step = "diff" /\ reader'.version = pr /\ reader'.items = items /\ reader'.complete = complete
    BY <1>10, <2>1, <2>2, GotoKeeps
  <2>4. complete = (Len(items) = Cardinality(Preparation!Changed(pr)))
    BY <1>3, <1>6, SameCardinality DEF Complete
  <2> QED BY <1>2, <1>9, <2>3, <2>4 DEF Gathered
<1>11. CASE reader' = [reader EXCEPT !.items = items, !.page = reader.page + 1]
  <2>1. reader'.step = "files" /\ reader'.version = pr /\ reader'.items = items /\ reader'.page = reader.page + 1
    BY <1>1, <1>3, <1>11 DEF Fields
  <2> QED BY <1>2, <1>3, <1>9, <2>1 DEF Gathered
<1> QED BY <1>4, <1>6, <1>10, <1>11

LEMMA PlanDiff ==
    ASSUME CiInv, PlanInv, Preparation!ReadDiff
    PROVE  PlanInv'
<1>1. reader # Absent /\ reader.step = "diff" /\ Preparation!Stay /\ DOMAIN reader = Fields
  BY FieldsOfReader DEF Preparation!ReadDiff
<1> SUFFICES ASSUME Gathered PROVE Gathered'
  BY <1>1, PlanReads
<1>2. pr' = pr
  BY <1>1 DEF Preparation!Stay, Preparation!github
<1>3. /\ reader.version = pr /\ reader.items \in Seq(ReadItems(pr))
      /\ reader.complete => Len(reader.items) = Cardinality(Preparation!Changed(pr))
  BY <1>1 DEF Gathered, Early
<1>4. PICK patches \in {<<>>, [p \in Preparation!Changed(pr) |-> Preparation!Entry(pr, p)]} :
          Preparation!Goto("blobs", [reader EXCEPT !.patches = patches])
  BY DEF Preparation!ReadDiff
<1>5. TrueEntries(pr, patches)
  <2>1. CASE patches = <<>>
    BY <2>1 DEF TrueEntries
  <2>2. CASE patches = [p \in Preparation!Changed(pr) |-> Preparation!Entry(pr, p)]
    <3>1. \A p : TrueEntry(pr, p, Preparation!Entry(pr, p))
      BY DEF TrueEntry, Preparation!Entry, TruePatch
    <3> QED BY <2>2, <3>1 DEF TrueEntries
  <2> QED BY <1>4, <2>1, <2>2
<1>6. PICK r : r = [reader EXCEPT !.patches = patches]
  OBVIOUS
<1>7. DOMAIN r = Fields /\ r.version = pr /\ r.items = reader.items /\ r.complete = reader.complete
      /\ r.patches = patches
  BY <1>1, <1>3, <1>6 DEF Fields
<1>8. /\ reader'.step = "blobs" /\ reader'.version = pr /\ reader'.items = reader.items
      /\ reader'.complete = reader.complete /\ reader'.patches = patches
  BY <1>4, <1>6, <1>7, GotoKeeps
<1> QED BY <1>2, <1>3, <1>5, <1>8 DEF Gathered

LEMMA Overridden ==
    ASSUME NEW v, NEW f, NEW g, TrueEntries(v, f), TrueEntries(v, g)
    PROVE  TrueEntries(v, Preparation!Override(f, g))
<1>1. Preparation!Override(f, g) =
          [p \in DOMAIN f \cup DOMAIN g |-> IF p \in DOMAIN g THEN g[p] ELSE f[p]]
  BY DEF Preparation!Override, Preparation!Has
<1>2. PICK h : h = [p \in DOMAIN f \cup DOMAIN g |-> IF p \in DOMAIN g THEN g[p] ELSE f[p]]
  OBVIOUS
<1>3. DOMAIN h = DOMAIN f \cup DOMAIN g
      /\ \A p \in DOMAIN h : \/ p \in DOMAIN g /\ h[p] = g[p]
                             \/ p \in DOMAIN f /\ h[p] = f[p]
  BY <1>2
<1>4. TrueEntries(v, h)
  BY <1>3 DEF TrueEntries
<1> QED BY <1>1, <1>2, <1>4

LEMMA PlanBlobs ==
    ASSUME CiInv, PlanInv, Preparation!ReadBlobs
    PROVE  PlanInv'
<1>1. reader # Absent /\ reader.step = "blobs" /\ Preparation!Stay /\ DOMAIN reader = Fields
  BY FieldsOfReader DEF Preparation!ReadBlobs
<1> SUFFICES ASSUME Gathered PROVE Gathered'
  BY <1>1, PlanReads
<1>2. pr' = pr
  BY <1>1 DEF Preparation!Stay, Preparation!github
<1>3. /\ reader.version = pr /\ reader.items \in Seq(ReadItems(pr)) /\ TrueEntries(pr, reader.patches)
      /\ reader.complete => Len(reader.items) = Cardinality(Preparation!Changed(pr))
  BY <1>1 DEF Gathered, Early
<1>4. CASE Preparation!Goto("merge", reader)
  <2>1. /\ reader'.step = "merge" /\ reader'.version = pr /\ reader'.items = reader.items
        /\ reader'.complete = reader.complete /\ reader'.patches = reader.patches
    BY <1>1, <1>3, <1>4, GotoKeeps
  <2> QED BY <1>2, <1>3, <2>1 DEF Gathered
<1>5. ASSUME NEW fitting, fitting = Preparation!Reserved(Preparation!Held),
             NEW sized, sized = [p \in Preparation!Objects \ fitting |->
                                    [kind |-> IF Preparation!Blob(p).binary THEN "binary" ELSE "too_large"]],
             Preparation!Goto("texts", [reader EXCEPT !.patches = Preparation!Override(reader.patches, sized),
                                                      !.texts = fitting])
      PROVE  Gathered'
  <2>1. \A p : Preparation!Blob(p) = Change[pr][p]
    BY <1>3 DEF Preparation!Blob
  <2>2. Preparation!Objects \subseteq Preparation!Changed(pr)
    <3>1. \A i \in DOMAIN reader.items : reader.items[i].path \in Preparation!Changed(pr)
      <4>1. \A x \in ReadItems(pr) : x.path \in Preparation!Changed(pr)
        BY DEF ReadItems
      <4> QED BY <1>3, <4>1
    <3>2. Preparation!Candidates \subseteq Preparation!Changed(pr)
      BY <3>1 DEF Preparation!Candidates, Preparation!Needing
    <3> QED BY <3>2 DEF Preparation!Objects
  <2>3. Preparation!Held \subseteq {p \in Preparation!Changed(pr) : ~Change[pr][p].binary}
    BY <2>1, <2>2 DEF Preparation!Held
  <2>4. fitting \subseteq Preparation!Held
    <3>1. PICK small : small = {p \in Preparation!Held : /\ Preparation!Blob(p).before <= MaxBlob
                                                         /\ Preparation!Blob(p).after <= MaxBlob}
      OBVIOUS
    <3>2. small \subseteq Preparation!Held /\ small \subseteq Preparation!Changed(pr)
      BY <2>3, <3>1
    <3>3. IsOrdered(small)
      <4>1. IsOrdered(Preparation!Changed(pr)) /\ IsFiniteSet(Preparation!Changed(pr))
        BY ChangedOrdered
      <4>2. IsFiniteSet(small)
        BY <3>2, <4>1, FS_Subset
      <4> QED BY <3>2, <4>1, <4>2 DEF IsOrdered
    <3>4. fitting = Preparation!FirstFit(small, [p \in small |-> Preparation!Bytes(p)], MaxBlobTotal)
      BY <1>5, <3>1 DEF Preparation!Reserved
    <3>5. fitting \subseteq small
      BY <3>3, <3>4, FirstFitWithin
    <3> QED BY <3>2, <3>5
  <2>5. TrueEntries(pr, sized)
    <3>1. DOMAIN sized \subseteq Preparation!Changed(pr)
      BY <1>5, <2>2
    <3>2. \A p \in DOMAIN sized :
              sized[p].kind = IF Change[pr][p].binary THEN "binary" ELSE "too_large"
      BY <1>5, <2>1
    <3> QED BY <3>1, <3>2 DEF TrueEntries, TrueEntry
  <2>6. PICK patches : patches = Preparation!Override(reader.patches, sized)
    OBVIOUS
  <2>7. TrueEntries(pr, patches)
    BY <1>3, <2>5, <2>6, Overridden
  <2>8. PICK r : r = [reader EXCEPT !.patches = patches, !.texts = fitting]
    OBVIOUS
  <2>9. /\ DOMAIN r = Fields /\ r.version = pr /\ r.items = reader.items /\ r.complete = reader.complete
        /\ r.patches = patches /\ r.texts = fitting
    BY <1>1, <1>3, <2>8 DEF Fields
  <2>10. /\ reader'.step = "texts" /\ reader'.version = pr /\ reader'.items = reader.items
         /\ reader'.complete = reader.complete /\ reader'.patches = patches /\ reader'.texts = fitting
    BY <1>5, <2>6, <2>8, <2>9, GotoKeeps
  <2>11. fitting \subseteq {p \in Preparation!Changed(pr) : ~Change[pr][p].binary}
    BY <2>3, <2>4
  <2> QED BY <1>2, <1>3, <2>7, <2>10, <2>11 DEF Gathered
<1>6. \/ Preparation!Goto("merge", reader)
      \/ \E fitting, sized :
            /\ fitting = Preparation!Reserved(Preparation!Held)
            /\ sized = [p \in Preparation!Objects \ fitting |->
                           [kind |-> IF Preparation!Blob(p).binary THEN "binary" ELSE "too_large"]]
            /\ Preparation!Goto("texts", [reader EXCEPT !.patches = Preparation!Override(reader.patches, sized),
                                                        !.texts = fitting])
  BY DEF Preparation!ReadBlobs
<1> QED BY <1>4, <1>5, <1>6

LEMMA PlanTexts ==
    ASSUME CiInv, PlanInv, Preparation!ReadTexts
    PROVE  PlanInv'
<1>1. reader # Absent /\ reader.step = "texts" /\ Preparation!Stay /\ DOMAIN reader = Fields
  BY FieldsOfReader DEF Preparation!ReadTexts
<1> SUFFICES ASSUME Gathered PROVE Gathered'
  BY <1>1, PlanReads
<1>2. pr' = pr
  BY <1>1 DEF Preparation!Stay, Preparation!github
<1>3. /\ reader.version = pr /\ reader.items \in Seq(ReadItems(pr)) /\ TrueEntries(pr, reader.patches)
      /\ reader.complete => Len(reader.items) = Cardinality(Preparation!Changed(pr))
      /\ reader.texts \subseteq {p \in Preparation!Changed(pr) : ~Change[pr][p].binary}
  BY <1>1 DEF Gathered, Early
<1>4. PICK known \in SUBSET reader.texts :
          Preparation!Goto("merge", [reader EXCEPT !.patches =
              Preparation!Override(reader.patches, [p \in known |-> Preparation!Rebuilt(p)])])
  BY DEF Preparation!ReadTexts
<1>5. PICK patches, rebuilt : /\ rebuilt = [p \in known |-> Preparation!Rebuilt(p)]
                              /\ patches = Preparation!Override(reader.patches, rebuilt)
  OBVIOUS
<1>6. TrueEntries(pr, rebuilt)
  <2>1. \A p : Preparation!Rebuilt(p) = [kind |-> "text", patch |-> TruePatch(pr, p)]
    BY <1>3 DEF Preparation!Rebuilt, Preparation!Blob, TruePatch
  <2>2. DOMAIN rebuilt = known /\ \A p \in known : rebuilt[p].kind = "text" /\ rebuilt[p].patch = TruePatch(pr, p)
    BY <1>5, <2>1
  <2>3. \A p \in known : p \in Preparation!Changed(pr) /\ ~Change[pr][p].binary
    BY <1>3, <1>4
  <2> QED BY <2>2, <2>3 DEF TrueEntries, TrueEntry
<1>7. TrueEntries(pr, patches)
  BY <1>3, <1>5, <1>6, Overridden
<1>8. PICK r : r = [reader EXCEPT !.patches = patches]
  OBVIOUS
<1>9. /\ DOMAIN r = Fields /\ r.version = pr /\ r.items = reader.items /\ r.complete = reader.complete
      /\ r.patches = patches
  BY <1>1, <1>3, <1>8 DEF Fields
<1>10. /\ reader'.step = "merge" /\ reader'.version = pr /\ reader'.items = reader.items
       /\ reader'.complete = reader.complete /\ reader'.patches = patches
  BY <1>4, <1>5, <1>8, <1>9, GotoKeeps
<1> QED BY <1>2, <1>3, <1>7, <1>10 DEF Gathered

LEMMA ItemIs ==
    ASSUME NEW v, NEW item \in ReadItems(v)
    PROVE  /\ item.path \in Preparation!Changed(v)
           /\ item.patch = Absent \/ (item.patch = TruePatch(v, item.path) /\ ~Change[v][item.path].binary)
BY DEF ReadItems

LEMMA MergedTruly ==
    ASSUME NEW v, NEW item \in ReadItems(v), TrueEntries(v, reader.patches)
    PROVE  TrueFile(v, item.path, Preparation!Merged(item))
<1>1. PICK entry : entry = IF Preparation!Has(reader.patches, item.path) THEN reader.patches[item.path]
                           ELSE [kind |-> "text", patch |-> item.patch]
  OBVIOUS
<1>2. /\ entry.kind \in {"binary", "text", "too_large"}
      /\ entry.kind = "binary" => Change[v][item.path].binary
      /\ entry.kind = "text" => \/ entry.patch = Absent
                                \/ entry.patch = TruePatch(v, item.path) /\ ~Change[v][item.path].binary
  <2>1. CASE item.path \in DOMAIN reader.patches
    BY <1>1, <2>1 DEF Preparation!Has, TrueEntries, TrueEntry
  <2>2. CASE item.path \notin DOMAIN reader.patches
    BY <1>1, <2>2, ItemIs DEF Preparation!Has
  <2> QED BY <2>1, <2>2
<1>3. PICK file : file = Preparation!Merged(item)
  OBVIOUS
<1>4. file = CASE entry.kind = "binary" -> [state |-> "binary", patch |-> Absent]
               [] entry.kind = "too_large" -> [state |-> "too_large", patch |-> Absent]
               [] entry.kind = "text" /\ entry.patch = Absent -> [state |-> "missing", patch |-> Absent]
               [] OTHER -> IF Preparation!Usable(entry.patch) THEN [state |-> "available", patch |-> entry.patch]
                           ELSE [state |-> "too_large", patch |-> Absent]
  BY <1>1, <1>3 DEF Preparation!Merged
<1>5. CASE entry.kind = "binary"
  <2>1. file.state = "binary"
    BY <1>4, <1>5
  <2> QED BY <1>2, <1>3, <1>5, <2>1 DEF TrueFile
<1>6. CASE entry.kind = "too_large"
  <2>1. file.state = "too_large" /\ file.patch = Absent
    BY <1>4, <1>6
  <2> QED BY <1>3, <2>1 DEF TrueFile
<1>7. CASE entry.kind = "text" /\ entry.patch = Absent
  <2>1. file.state = "missing" /\ file.patch = Absent
    BY <1>4, <1>7
  <2> QED BY <1>3, <2>1 DEF TrueFile
<1>8. CASE entry.kind = "text" /\ entry.patch # Absent
  <2>1. \/ file.state = "available" /\ file.patch = entry.patch
        \/ file.state = "too_large" /\ file.patch = Absent
    BY <1>4, <1>8
  <2> QED BY <1>2, <1>3, <1>8, <2>1 DEF TrueFile
<1> QED BY <1>2, <1>5, <1>6, <1>7, <1>8

LEMMA PlanMerge ==
    ASSUME CiInv, PlanInv, Preparation!MergeFiles
    PROVE  PlanInv'
<1>1. reader # Absent /\ reader.step = "merge" /\ DOMAIN reader = Fields
  BY FieldsOfReader DEF Preparation!MergeFiles
<1>2. CASE Preparation!Fail
  BY <1>1, <1>2, PlanReads DEF Preparation!Fail
<1> DEFINE items == reader.items
           paths == {items[i].path : i \in DOMAIN items}
<1>3. ASSUME Preparation!Cardinality(paths) = Len(items), Preparation!Stay,
             NEW files, files = [p \in paths |->
                            Preparation!Merged(items[CHOOSE i \in DOMAIN items : items[i].path = p])],
             Preparation!Goto("runs", [reader EXCEPT !.files = files])
      PROVE  PlanInv'
  <2> SUFFICES ASSUME Gathered PROVE Gathered'
    BY <1>1, <1>3, PlanReads
  <2>1. pr' = pr
    BY <1>3 DEF Preparation!Stay, Preparation!github
  <2>2. /\ reader.version = pr /\ items \in Seq(ReadItems(pr)) /\ TrueEntries(pr, reader.patches)
        /\ reader.complete => Len(items) = Cardinality(Preparation!Changed(pr))
    BY <1>1 DEF Gathered, Early
  <2>3. paths \subseteq Preparation!Changed(pr)
    BY <2>2, ItemIs
  <2>4. \A p \in DOMAIN files : TrueFile(pr, p, files[p])
    <3> SUFFICES ASSUME NEW p \in paths PROVE TrueFile(pr, p, files[p])
      BY <1>3
    <3>1. PICK k : k = CHOOSE i \in DOMAIN items : items[i].path = p
      OBVIOUS
    <3>2. k \in DOMAIN items /\ items[k].path = p
      BY <3>1
    <3>3. items[k] \in ReadItems(pr)
      BY <2>2, <3>2
    <3>4. files[p] = Preparation!Merged(items[k])
      BY <1>3, <3>1
    <3> QED BY <2>2, <3>2, <3>3, <3>4, MergedTruly
  <2>5. reader.complete => paths = Preparation!Changed(pr)
    <3> SUFFICES ASSUME reader.complete PROVE paths = Preparation!Changed(pr)
      OBVIOUS
    <3>1. Cardinality(paths) = Cardinality(Preparation!Changed(pr))
      BY <1>3, <2>2, SameCardinality
    <3>2. IsFiniteSet(Preparation!Changed(pr))
      BY ChangedOrdered
    <3> HIDE DEF paths
    <3> QED BY <2>3, <3>1, <3>2, FS_Subset
  <2>6. TrueFiles(pr, files, reader.complete)
    <3>1. DOMAIN files = paths
      BY <1>3
    <3> HIDE DEF paths
    <3> QED BY <2>3, <2>4, <2>5, <3>1 DEF TrueFiles
  <2>7. PICK r : r = [reader EXCEPT !.files = files]
    OBVIOUS
  <2>8. DOMAIN r = Fields /\ r.version = pr /\ r.files = files /\ r.complete = reader.complete
    BY <1>1, <2>2, <2>7 DEF Fields
  <2>9. /\ reader'.step = "runs" /\ reader'.version = pr /\ reader'.files = files
        /\ reader'.complete = reader.complete
    BY <1>3, <2>7, <2>8, GotoKeeps
  <2> QED BY <2>1, <2>6, <2>9 DEF Gathered, Early
<1>4. \/ Preparation!Fail
      \/ /\ Preparation!Cardinality(paths) = Len(items) /\ Preparation!Stay
         /\ \E files : /\ files = [p \in paths |->
                            Preparation!Merged(items[CHOOSE i \in DOMAIN items : items[i].path = p])]
                       /\ Preparation!Goto("runs", [reader EXCEPT !.files = files])
  BY DEF Preparation!MergeFiles
<1> QED BY <1>2, <1>3, <1>4

\* The files are not touched while the checks are read.
FilesKept(r) == r.version = reader.version /\ r.files = reader.files /\ r.complete = reader.complete

LEMMA PlanPages ==
    ASSUME PlanInv, reader # Absent, reader.step \in {"runs", "statuses"}, Preparation!Stay,
           reader'.step \in {"runs", "statuses", "store"}, FilesKept(reader')
    PROVE  PlanInv'
<1> SUFFICES ASSUME Gathered PROVE Gathered'
  BY PlanReads
<1>1. pr' = pr
  BY DEF Preparation!Stay, Preparation!github
<1>2. reader.version = pr /\ TrueFiles(pr, reader.files, reader.complete)
  BY DEF Gathered
<1> QED BY <1>1, <1>2 DEF Gathered, FilesKept, Early

LEMMA PlanChecks ==
    ASSUME CiInv, PlanInv, Preparation!ReadCheckRuns \/ Preparation!ReadStatuses
    PROVE  PlanInv'
<1>1. /\ reader # Absent /\ reader.step \in {"runs", "statuses"} /\ Preparation!Stay
      /\ DOMAIN reader = Fields
  BY FieldsOfReader DEF Preparation!ReadCheckRuns, Preparation!ReadStatuses
<1>2. ASSUME NEW r, DOMAIN r = Fields, FilesKept(r), NEW step \in {"statuses", "store"},
             Preparation!Goto(step, r)
      PROVE  PlanInv'
  <2>1. reader'.step = step /\ FilesKept(reader')
    BY <1>2, GotoKeeps DEF FilesKept
  <2> QED BY <1>1, <1>2, <2>1, PlanPages
<1>3. ASSUME NEW r, DOMAIN r = Fields, FilesKept(r), r.step = reader.step, reader' = r
      PROVE  PlanInv'
  BY <1>1, <1>3, PlanPages
<1>4. CASE Preparation!ReadCheckRuns
  <2>1. PICK checks, raw, whole :
            \/ Preparation!Goto("statuses", [reader EXCEPT !.checks = checks, !.whole = whole])
            \/ reader' = [reader EXCEPT !.checks = checks, !.raw = raw, !.page = reader.page + 1]
    BY <1>4 DEF Preparation!ReadCheckRuns
  <2>2. PICK r, s : /\ r = [reader EXCEPT !.checks = checks, !.whole = whole]
                    /\ s = [reader EXCEPT !.checks = checks, !.raw = raw, !.page = reader.page + 1]
    OBVIOUS
  <2>3. /\ DOMAIN r = Fields /\ FilesKept(r)
        /\ DOMAIN s = Fields /\ FilesKept(s) /\ s.step = reader.step
    BY <1>1, <2>2 DEF Fields, FilesKept
  <2> QED BY <1>2, <1>3, <2>1, <2>2, <2>3
<1>5. CASE Preparation!ReadStatuses
  <2>1. PICK read, raw, whole :
            \/ Preparation!Goto("store", [reader EXCEPT !.whole = whole])
            \/ Preparation!Goto("store", [reader EXCEPT !.read = read, !.whole = whole])
            \/ reader' = [reader EXCEPT !.read = read, !.raw = raw, !.page = reader.page + 1]
    BY <1>5 DEF Preparation!ReadStatuses
  <2>2. PICK q, r, s : /\ q = [reader EXCEPT !.whole = whole]
                       /\ r = [reader EXCEPT !.read = read, !.whole = whole]
                       /\ s = [reader EXCEPT !.read = read, !.raw = raw, !.page = reader.page + 1]
    OBVIOUS
  <2>3. /\ DOMAIN q = Fields /\ FilesKept(q)
        /\ DOMAIN r = Fields /\ FilesKept(r)
        /\ DOMAIN s = Fields /\ FilesKept(s) /\ s.step = reader.step
    BY <1>1, <2>2 DEF Fields, FilesKept
  <2> QED BY <1>2, <1>3, <2>1, <2>2, <2>3
<1> QED BY <1>4, <1>5

LEMMA PlanStore ==
    ASSUME PlanInv, Preparation!StoreContext
    PROVE  PlanInv'
<1>1. /\ reader # Absent /\ reader.step = "store" /\ reader' = Absent /\ UNCHANGED <<pr, plan, steady>>
      /\ context' = context \/ context' = Preparation!Updated(Preparation!StoredFiles)
  BY DEF Preparation!StoreContext, Preparation!github
<1>2. plan = Absent
  BY <1>1 DEF PlanInv
<1>3. PlanTruthful'
  BY <1>1, <1>2 DEF PlanTruthful, Preparation!PlanTruthful
<1>4. ASSUME steady, context' # Absent
      PROVE  TrueFiles(context'.version, context'.files, context'.complete)
  <2>1. CASE context' = context
    BY <1>4, <2>1 DEF PlanInv
  <2>2. CASE context' = Preparation!Updated(Preparation!StoredFiles)
    <3>1. PICK stored : stored = Preparation!StoredFiles
      OBVIOUS
    <3>2. TrueFiles(stored.version, stored.files, stored.complete)
      <4>1. CASE context = Absent
        <5>1. reader.version = pr /\ TrueFiles(pr, reader.files, reader.complete)
          BY <1>1, <1>4, <4>1 DEF PlanInv, Gathered
        <5> QED BY <3>1, <4>1, <5>1 DEF Preparation!StoredFiles
      <4>2. CASE context # Absent
        <5>1. TrueFiles(context.version, context.files, context.complete)
          BY <1>4, <4>2 DEF PlanInv
        <5> QED BY <3>1, <4>2, <5>1 DEF Preparation!StoredFiles
      <4> QED BY <4>1, <4>2
    <3>3. /\ context'.files = stored.files /\ context'.complete = stored.complete
          /\ context'.version = stored.version
      BY <2>2, <3>1 DEF Preparation!Updated
    <3> QED BY <3>2, <3>3
  <2> QED BY <1>1, <2>1, <2>2
<1> QED BY <1>1, <1>3, <1>4 DEF PlanInv

LEMMA PlanLoad ==
    ASSUME PlanInv, Preparation!LoadPullRequest
    PROVE  PlanInv'
<1>1. /\ reader = Absent /\ plan = Absent /\ UNCHANGED <<pr, context>>
      /\ steady' = (steady \/ context = Absent)
  BY DEF Preparation!LoadPullRequest, Preparation!LoadTarget, Preparation!github
<1>2. steady' /\ context' # Absent => TrueFiles(context'.version, context'.files, context'.complete)
  BY <1>1 DEF PlanInv
<1>3. CASE HeadOf[pr] # Target
  <2>1. plan'.outcome = "superseded" /\ reader' = Absent
    BY <1>1, <1>3 DEF Preparation!LoadPullRequest
  <2>2. PlanTruthful'
    BY <2>1 DEF PlanTruthful, Preparation!PlanTruthful
  <2> QED BY <1>2, <2>1, <2>2 DEF PlanInv
<1>4. CASE HeadOf[pr] = Target
  <2>1. plan' = Absent
    BY <1>1, <1>4 DEF Preparation!LoadPullRequest
  <2>2. PlanTruthful'
    BY <2>1 DEF PlanTruthful, Preparation!PlanTruthful
  <2>3. ASSUME context = Absent
        PROVE  Gathered'
    <3>1. reader'.step = "files" /\ reader'.version = pr /\ reader'.page = 1 /\ reader'.items = <<>>
      BY <1>4, <2>3 DEF Preparation!LoadPullRequest
    <3>2. <<>> \in Seq(ReadItems(pr))
      OBVIOUS
    <3> QED BY <1>1, <3>1, <3>2 DEF Gathered
  <2> QED BY <1>1, <1>2, <2>1, <2>2, <2>3 DEF PlanInv
<1> QED BY <1>3, <1>4

LEMMA PlanMoved ==
    ASSUME PlanInv, Preparation!Move
    PROVE  PlanInv'
<1>1. steady' = FALSE /\ UNCHANGED <<plan, reader>>
  BY DEF Preparation!Move
<1>2. PlanTruthful'
  BY <1>1 DEF PlanTruthful, Preparation!PlanTruthful
<1> QED BY <1>1, <1>2 DEF PlanInv

LEMMA CandidatesOrdered ==
    ASSUME NEW files, IsOrdered(files)
    PROVE  IsOrdered(Preparation!CandidateScopes(files))
<1>1. IsFiniteSet(files) /\ files \subseteq Seq(Nat) /\ RuleDepth \in Nat
  BY PreparationAssumption DEF IsOrdered
<1>2. ASSUME NEW p \in files, NEW k \in 0..Preparation!Least(Preparation!Depth(p), RuleDepth)
      PROVE  k \in 0..RuleDepth /\ k \in 0..Len(p) /\ Preparation!Scope(p, k) \in Seq(Nat)
  <2>1. p \in Seq(Nat) /\ Len(p) \in Nat
    BY <1>1
  <2>2. k \in 0..RuleDepth /\ k \in 0..Len(p)
    BY <1>1, <1>2, <2>1 DEF Preparation!Least, Preparation!Depth
  <2>3. Preparation!Scope(p, k) \in Seq(Nat)
    BY <2>1, <2>2, FrontIs DEF Preparation!Scope
  <2> QED BY <2>2, <2>3
<1>3. \A d \in Preparation!CandidateScopes(files) :
          d \in Seq(Nat) /\ \E p \in files, k \in 0..RuleDepth : d = Preparation!Scope(p, k)
  BY <1>2 DEF Preparation!CandidateScopes
<1> DEFINE Pairs == files \X (0..RuleDepth)
           f == [x \in Pairs |-> Preparation!Scope(x[1], x[2])]
           Image == {f[x] : x \in Pairs}
<1>4. IsFiniteSet(Pairs)
  <2>1. IsFiniteSet(0..RuleDepth)
    BY <1>1, FS_Interval
  <2> QED BY <1>1, <2>1, FS_Product
<1>5. f \in Surjection(Pairs, Image)
  <2> HIDE DEF Pairs
  <2> QED BY DEF Surjection
<1>6. IsFiniteSet(Image)
  <2> HIDE DEF Pairs, f, Image
  <2> QED BY <1>4, <1>5, FS_Surjection
<1>7. Preparation!CandidateScopes(files) \subseteq Image
  <2> SUFFICES ASSUME NEW d \in Preparation!CandidateScopes(files) PROVE d \in Image
    OBVIOUS
  <2>1. PICK p \in files, k \in 0..RuleDepth : d = Preparation!Scope(p, k)
    BY <1>3
  <2>2. <<p, k>> \in Pairs /\ f[<<p, k>>] = d
    BY <2>1
  <2> HIDE DEF Pairs, f
  <2> QED BY <2>2
<1>8. IsFiniteSet(Preparation!CandidateScopes(files))
  <2> HIDE DEF Image
  <2> QED BY <1>6, <1>7, FS_Subset
<1> QED BY <1>3, <1>8 DEF IsOrdered

\* The directories of a file, its own and those above it.
RuleScopes(p) == {Preparation!Scope(p, k) : k \in 0..Preparation!Depth(p)}
RulesAbove(p) == {d \in RuleScopes(p) : Rule[d] # Absent /\ Rule[d].kind # "empty"}

\* A file whose rules are not incomplete comes with those of its directories.
RulesRight(files, loaded, incomplete) ==
    \A p \in files \ incomplete : {d \in loaded : Preparation!Below(d, p)} = RulesAbove(p)

LEMMA RulesLoaded ==
    ASSUME NEW files, IsOrdered(files)
    PROVE  RulesRight(files, Preparation!Loaded(files), Preparation!Incomplete(files))
<1> SUFFICES ASSUME NEW p \in files, p \notin Preparation!Incomplete(files)
             PROVE  {d \in Preparation!Loaded(files) : Preparation!Below(d, p)} = RulesAbove(p)
  BY DEF RulesRight
<1>1. p \in Seq(Nat) /\ Len(p) \in Nat /\ Preparation!Depth(p) \in Int /\ Preparation!Depth(p) < Len(p)
  BY DEF IsOrdered, Preparation!Depth
<1>2. IsOrdered(Preparation!CandidateScopes(files))
  BY CandidatesOrdered
<1>3. /\ Preparation!Selected(files) \subseteq Preparation!CandidateScopes(files)
      /\ Preparation!Readable(files) \subseteq Preparation!Selected(files)
  BY DEF Preparation!Selected, Preparation!Readable
<1>4. IsOrdered(Preparation!Readable(files))
  <2>1. IsFiniteSet(Preparation!CandidateScopes(files)) /\ Preparation!CandidateScopes(files) \subseteq Seq(Nat)
    BY <1>2 DEF IsOrdered
  <2>2. Preparation!Readable(files) \subseteq Preparation!CandidateScopes(files)
    BY <1>3
  <2>3. IsFiniteSet(Preparation!Readable(files))
    BY <2>1, <2>2, FS_Subset
  <2> QED BY <2>1, <2>2, <2>3 DEF IsOrdered
<1>5. Preparation!Loaded(files) \subseteq Preparation!Readable(files)
  BY <1>4, FirstFitWithin DEF Preparation!Loaded, Preparation!Fitting
<1>6. ASSUME NEW d \in Preparation!Loaded(files), Preparation!Below(d, p)
      PROVE  d \in RulesAbove(p)
  <2>1. d \in Seq(Nat) /\ Len(d) \in Nat
    BY <1>4, <1>5 DEF IsOrdered
  <2>2. Rule[d] # Absent /\ Rule[d].kind # "empty"
    BY <1>5 DEF Preparation!Readable
  <2>3. Len(d) \in 0..Preparation!Depth(p) /\ d = Preparation!Scope(p, Len(d))
    BY <1>1, <1>6, <2>1 DEF Preparation!Below
  <2> QED BY <2>2, <2>3 DEF RulesAbove, RuleScopes
<1>7. ASSUME NEW d \in RulesAbove(p)
      PROVE  d \in Preparation!Loaded(files) /\ Preparation!Below(d, p)
  <2>1. PICK k \in 0..Preparation!Depth(p) : d = Preparation!Scope(p, k)
    BY DEF RulesAbove, RuleScopes
  <2>2. k \in 0..Len(p) /\ k <= Preparation!Depth(p)
    BY <1>1
  <2>3. Len(d) = k
    BY <1>1, <2>1, <2>2, FrontIs DEF Preparation!Scope
  <2>4. Preparation!Below(d, p)
    BY <2>1, <2>2, <2>3 DEF Preparation!Below
  <2>5. Preparation!Depth(p) <= RuleDepth
    BY <1>1, PreparationAssumption DEF Preparation!Incomplete
  <2>6. Preparation!Least(Preparation!Depth(p), RuleDepth) = Preparation!Depth(p)
    BY <1>1, <2>5, PreparationAssumption DEF Preparation!Least
  <2>7. d \in Preparation!CandidateScopes(files)
    BY <2>1, <2>6 DEF Preparation!CandidateScopes
  <2>8. d \in Preparation!Selected(files)
    BY <2>4, <2>7 DEF Preparation!Incomplete
  <2>9. d \notin Preparation!Unread(files)
    BY <2>4 DEF Preparation!Incomplete
  <2>10. Rule[d] # Absent /\ Rule[d].kind # "empty"
    BY DEF RulesAbove
  <2>11. d \in Preparation!Loaded(files)
    BY <2>8, <2>9, <2>10 DEF Preparation!Unread
  <2> QED BY <2>4, <2>11
<1> QED BY <1>6, <1>7

\* What PlanTruthful asks of a plan.
Together(q, files, p) ==
    {x \in files : q.files[x].unit # Absent /\ q.files[x].unit.group = q.files[p].unit.group}

TruthfulFile(q, v, p) ==
    LET decision == q.files[p].decision
        unit == q.files[p].unit
        together == Together(q, Preparation!Changed(v), p)
    IN  CASE decision = "planned" ->
               /\ ~Change[v][p].binary /\ p \notin Generated
               /\ unit.patch = TruePatch(v, p)
               /\ unit.rules = RulesAbove(p)
               /\ Preparation!Cardinality(together) <= MaxGroup
               /\ \A x \in together : Relation[x] = Relation[p]
          [] decision = "binary" -> Change[v][p].binary
          [] decision = "generated" -> p \in Generated
          [] decision = "rules_incomplete" -> TRUE
          [] OTHER -> ~Preparation!Usable(context.files[p].patch)

Truthful(q) ==
    /\ DOMAIN q.files = Preparation!Changed(context.version)
    /\ \A p \in Preparation!Changed(context.version) : TruthfulFile(q, context.version, p)

LEMMA DecisionIs ==
    ASSUME NEW v, NEW p, TrueFile(v, p, context.files[p]), NEW incomplete,
           NEW decision, decision = Preparation!Decision(p, incomplete)
    PROVE  \/ /\ decision = "planned" /\ p \notin Generated /\ p \notin incomplete
              /\ ~Change[v][p].binary /\ context.files[p].patch = TruePatch(v, p)
           \/ decision = "binary" /\ Change[v][p].binary
           \/ decision = "generated" /\ p \in Generated
           \/ decision \in {"missing", "too_large"} /\ context.files[p].patch = Absent
           \/ decision = "rules_incomplete"
<1> DEFINE file == context.files[p]
<1>1. /\ file.state \in {"binary", "available", "missing", "too_large"}
      /\ file.state = "binary" => Change[v][p].binary
      /\ file.state = "available" => ~Change[v][p].binary /\ file.patch = TruePatch(v, p)
      /\ file.state \in {"missing", "too_large"} => file.patch = Absent
  BY DEF TrueFile
<1>2. decision = CASE file.state = "binary" -> "binary"
                   [] file.state # "binary" /\ p \in Generated -> "generated"
                   [] file.state \in {"missing", "too_large"} /\ p \notin Generated -> file.state
                   [] OTHER -> IF Preparation!Depth(p) > RuleDepth \/ p \in incomplete
                               THEN "rules_incomplete" ELSE "planned"
  BY DEF Preparation!Decision
<1> HIDE DEF file
<1>3. CASE file.state = "binary"
  BY <1>1, <1>2, <1>3
<1>4. CASE file.state # "binary" /\ p \in Generated
  BY <1>2, <1>4
<1>5. CASE file.state \in {"missing", "too_large"} /\ p \notin Generated
  <2>1. decision = file.state
    BY <1>2, <1>5
  <2> QED BY <1>1, <1>5, <2>1 DEF file
<1>6. CASE file.state = "available" /\ p \notin Generated
  <2>1. decision = IF Preparation!Depth(p) > RuleDepth \/ p \in incomplete THEN "rules_incomplete" ELSE "planned"
    BY <1>2, <1>6
  <2> QED BY <1>1, <1>6, <2>1 DEF file
<1> QED BY <1>1, <1>3, <1>4, <1>5, <1>6

LEMMA PlanIsTruthful ==
    ASSUME TrueFiles(context.version, context.files, TRUE), NEW loaded, NEW incomplete,
           RulesRight(DOMAIN context.files, loaded, incomplete),
           NEW q, q = Preparation!Plan(loaded, incomplete)
    PROVE  Truthful(q)
<1>1. PICK v, files, planned : /\ v = context.version /\ files = DOMAIN context.files
                               /\ planned = Preparation!Planned(files, incomplete)
  OBVIOUS
<1>2. files = Preparation!Changed(v) /\ \A p \in files : TrueFile(v, p, context.files[p])
  BY <1>1 DEF TrueFiles
<1>3. DOMAIN q.files = files
  BY <1>1 DEF Preparation!Plan
<1>4. ASSUME NEW p \in files
      PROVE  /\ q.files[p].decision = Preparation!Decision(p, incomplete)
             /\ q.files[p].unit = IF p \in planned THEN Preparation!Unit(p, loaded, planned) ELSE Absent
  BY <1>1, <1>4 DEF Preparation!Plan
<1>5. \A p \in planned : p \in files
  BY <1>1 DEF Preparation!Planned
<1>6. ASSUME NEW p \in planned
      PROVE  /\ q.files[p].unit.patch = context.files[p].patch
             /\ q.files[p].unit.rules = {d \in loaded : Preparation!Below(d, p)}
             /\ q.files[p].unit.group = Preparation!Group(p, planned)
  <2>1. q.files[p].unit = Preparation!Unit(p, loaded, planned)
    BY <1>4, <1>5
  <2> QED BY <2>1 DEF Preparation!Unit
<1>7. ASSUME NEW p \in planned
      PROVE  LET together == Together(q, files, p)
             IN  /\ Preparation!Cardinality(together) <= MaxGroup
                 /\ \A x \in together : Relation[x] = Relation[p]
  <2>1. PICK together, S, g :
            /\ together = Together(q, files, p)
            /\ S = {x \in planned : Relation[x] = Relation[p]}
            /\ g = (Preparation!Rank(p, S) - 1) \div MaxGroup
    OBVIOUS
  <2>2. ASSUME NEW x \in together
        PROVE  x \in S /\ (Preparation!Rank(x, S) - 1) \div MaxGroup = g
    <3>1. x \in files /\ q.files[x].unit # Absent /\ q.files[x].unit.group = q.files[p].unit.group
      BY <2>1 DEF Together
    <3>2. x \in planned
      BY <1>4, <3>1
    <3>3. Preparation!Group(x, planned) = Preparation!Group(p, planned)
      BY <1>6, <3>1, <3>2
    <3>4. PICK T, a, b : /\ T = {y \in planned : Relation[y] = Relation[x]}
                         /\ a = (Preparation!Rank(x, T) - 1) \div MaxGroup
                         /\ b = Relation[x]
      OBVIOUS
    <3>5. Preparation!Group(x, planned)[1] = b /\ Preparation!Group(x, planned)[2] = a
      BY <3>4 DEF Preparation!Group
    <3>6. Preparation!Group(p, planned)[1] = Relation[p] /\ Preparation!Group(p, planned)[2] = g
      BY <2>1 DEF Preparation!Group
    <3>7. b = Relation[p] /\ a = g
      BY <3>3, <3>5, <3>6
    <3>8. T = S
      BY <2>1, <3>4, <3>7
    <3> QED BY <2>1, <3>2, <3>4, <3>7, <3>8
  <2>3. IsOrdered(S)
    <3>1. S \subseteq files
      BY <1>5, <2>1
    <3>2. IsFiniteSet(files) /\ files \subseteq Seq(Nat)
      BY <1>2, ChangedOrdered DEF IsOrdered
    <3>3. IsFiniteSet(S)
      BY <3>1, <3>2, FS_Subset
    <3> QED BY <3>1, <3>2, <3>3 DEF IsOrdered
  <2>4. together \subseteq S
    BY <2>2
  <2>5. Cardinality(together) <= MaxGroup
    BY <2>2, <2>3, <2>4, GroupIsSmall
  <2> QED BY <2>1, <2>4, <2>5, SameCardinality
<1>8. ASSUME NEW p \in files
      PROVE  TruthfulFile(q, v, p)
  <2>1. PICK decision : decision = Preparation!Decision(p, incomplete)
    OBVIOUS
  <2>2. q.files[p].decision = decision
    BY <1>4, <2>1
  <2>3. TrueFile(v, p, context.files[p])
    BY <1>2
  <2>4. \/ /\ decision = "planned" /\ p \notin Generated /\ p \notin incomplete
           /\ ~Change[v][p].binary /\ context.files[p].patch = TruePatch(v, p)
        \/ decision = "binary" /\ Change[v][p].binary
        \/ decision = "generated" /\ p \in Generated
        \/ decision \in {"missing", "too_large"} /\ context.files[p].patch = Absent
        \/ decision = "rules_incomplete"
    BY <2>1, <2>3, DecisionIs
  <2>5. CASE decision = "planned"
    <3>1. p \in planned
      BY <1>1, <2>1, <2>5 DEF Preparation!Planned
    <3>2. {d \in loaded : Preparation!Below(d, p)} = RulesAbove(p)
      BY <1>1, <2>4, <2>5 DEF RulesRight
    <3>3. PICK together : together = Together(q, Preparation!Changed(v), p)
      OBVIOUS
    <3>4. Preparation!Cardinality(together) <= MaxGroup /\ \A x \in together : Relation[x] = Relation[p]
      BY <1>2, <1>7, <3>1, <3>3
    <3> QED BY <1>6, <2>2, <2>4, <2>5, <3>1, <3>2, <3>3, <3>4 DEF TruthfulFile
  <2>6. CASE decision \in {"missing", "too_large"}
    <3>1. ~Preparation!Usable(context.files[p].patch)
      BY <2>4, <2>6 DEF Preparation!Usable
    <3> QED BY <2>2, <2>6, <3>1 DEF TruthfulFile
  <2>7. CASE decision = "binary"
    BY <2>2, <2>4, <2>7 DEF TruthfulFile
  <2>8. CASE decision = "generated"
    BY <2>2, <2>4, <2>8 DEF TruthfulFile
  <2>9. CASE decision = "rules_incomplete"
    BY <2>2, <2>9 DEF TruthfulFile
  <2> QED BY <2>4, <2>5, <2>6, <2>7, <2>8, <2>9
<1> QED BY <1>1, <1>2, <1>3, <1>8 DEF Truthful

LEMMA TruthfulPlan ==
    ASSUME NEW q, Truthful(q), plan' = q, context' = context
    PROVE  PlanTruthful'
<1>1. \A p, v : TruthfulFile(q, v, p) = (TruthfulFile(plan, v, p))'
  BY DEF TruthfulFile, Together, Preparation!Usable
<1>2. (Truthful(plan))'
  BY <1>1 DEF Truthful
<1>3. (Truthful(plan) => PlanTruthful)'
  BY DEF PlanTruthful, Preparation!PlanTruthful, Truthful, TruthfulFile, Together, TruePatch, RulesAbove, RuleScopes,
         Preparation!Usable
<1> QED BY <1>2, <1>3

LEMMA PlanMakes ==
    ASSUME PlanInv, Preparation!PlanReview
    PROVE  PlanInv'
<1>1. reader = Absent /\ context # Absent /\ UNCHANGED <<pr, reader, context, steady>>
  BY DEF Preparation!PlanReview, Preparation!github
<1>2. steady => TrueFiles(context.version, context.files, context.complete)
  BY <1>1 DEF PlanInv
<1>3. PlanTruthful'
  <2>1. CASE ~Preparation!Plannable
    <3>1. plan'.outcome = "failed"
      BY <2>1 DEF Preparation!PlanReview
    <3> QED BY <3>1 DEF PlanTruthful, Preparation!PlanTruthful
  <2>2. CASE ~steady
    BY <1>1, <2>2 DEF PlanTruthful, Preparation!PlanTruthful
  <2>3. CASE Preparation!Plannable /\ steady
    <3>1. PICK files : files = DOMAIN context.files
      OBVIOUS
    <3>2. \/ plan' = Preparation!Plan(Preparation!Loaded(files), Preparation!Incomplete(files))
          \/ plan' = Preparation!Plan({}, files)
      BY <2>3, <3>1 DEF Preparation!PlanReview
    <3>3. TrueFiles(context.version, context.files, TRUE)
      BY <1>2, <2>3 DEF TrueFiles, Preparation!Plannable
    <3>4. IsOrdered(files)
      <4>1. files = Preparation!Changed(context.version)
        BY <3>1, <3>3 DEF TrueFiles
      <4> QED BY <4>1, ChangedOrdered
    <3>5. ASSUME NEW loaded, NEW incomplete, RulesRight(files, loaded, incomplete),
                 plan' = Preparation!Plan(loaded, incomplete)
          PROVE  PlanTruthful'
      <4>1. PICK q : q = Preparation!Plan(loaded, incomplete)
        OBVIOUS
      <4>2. Truthful(q)
        BY <3>1, <3>3, <3>5, <4>1, PlanIsTruthful
      <4> QED BY <1>1, <3>5, <4>1, <4>2, TruthfulPlan
    <3>6. RulesRight(files, Preparation!Loaded(files), Preparation!Incomplete(files))
      BY <3>4, RulesLoaded
    <3>7. RulesRight(files, {}, files)
      BY DEF RulesRight
    <3> QED BY <3>2, <3>5, <3>6, <3>7
  <2> QED BY <2>1, <2>2, <2>3
<1> QED BY <1>1, <1>2, <1>3 DEF PlanInv

LEMMA PlanNext == CiInv /\ PlanInv /\ [ReviewingNext]_reviewingVars => PlanInv'
<1> SUFFICES ASSUME CiInv, PlanInv, [ReviewingNext]_reviewingVars PROVE PlanInv'
  OBVIOUS
<1>1. CASE UNCHANGED preparationVars
  BY <1>1, PlanKept DEF preparationVars
<1>2. CASE Preparation!Register \/ Preparation!Finish \/ Preparation!PostStatus
  <2>1. UNCHANGED <<pr, reader, context, plan, steady>>
    BY <1>2 DEF Preparation!Register, Preparation!Finish, Preparation!PostStatus
  <2> QED BY <2>1, PlanKept
<1>3. \/ UNCHANGED preparationVars
      \/ Preparation!Register \/ Preparation!Finish \/ Preparation!PostStatus
      \/ Preparation!Move \/ Preparation!PlanReview
      \/ Preparation!LoadPullRequest \/ Preparation!ReadFiles
      \/ Preparation!ReadDiff \/ Preparation!ReadBlobs \/ Preparation!ReadTexts \/ Preparation!MergeFiles
      \/ Preparation!ReadCheckRuns \/ Preparation!ReadStatuses \/ Preparation!StoreContext
  BY DEF ReviewingNext, PreparationStep, StreamStep, AnswerStep, Preparation!PreparationNext, reviewingVars
<1> QED BY <1>1, <1>2, <1>3, PlanMoved, PlanMakes, PlanLoad, PlanFiles, PlanDiff, PlanBlobs, PlanTexts, PlanMerge,
           PlanChecks, PlanStore

-----------------------------------------------------------------------------
(* The stream of an answer.                                                *)

ParserFields == {"line_buffer", "data_lines", "event_name", "saw_data_event", "completed", "delta_text",
                 "done_text", "latest_usage", "error"}
IsParser(p) == p = [x \in ParserFields |-> p[x]]
WithBuffer(p, bytes) == [p EXCEPT !.line_buffer = bytes]

\* q is a parser that stands in the same line and the same event as p.
Alongside(p, q) ==
    /\ IsParser(q)
    /\ q.line_buffer = p.line_buffer /\ q.data_lines = p.data_lines /\ q.event_name = p.event_name

LEMMA ParserEqual ==
    ASSUME NEW p, NEW q, IsParser(p), IsParser(q), \A x \in ParserFields : p[x] = q[x]
    PROVE  p = q
<1>1. [x \in ParserFields |-> p[x]] = [x \in ParserFields |-> q[x]]
  OBVIOUS
<1> QED BY <1>1 DEF IsParser

LEMMA FieldSet ==
    ASSUME NEW p, IsParser(p), NEW x \in ParserFields, NEW v
    PROVE  /\ IsParser([p EXCEPT ![x] = v])
           /\ [p EXCEPT ![x] = v][x] = v
           /\ \A y \in ParserFields \ {x} : [p EXCEPT ![x] = v][y] = p[y]
<1>1. DOMAIN p = ParserFields
  <2>1. PICK q : q = [y \in ParserFields |-> p[y]]
    OBVIOUS
  <2>2. DOMAIN q = ParserFields
    BY <2>1
  <2>3. p = q
    BY <2>1 DEF IsParser
  <2> QED BY <2>2, <2>3
<1>2. PICK r : r = [p EXCEPT ![x] = v]
  OBVIOUS
<1>3. /\ DOMAIN r = ParserFields /\ r[x] = v
      /\ \A y \in ParserFields \ {x} : r[y] = p[y]
      /\ r = [y \in DOMAIN r |-> r[y]]
  BY <1>1, <1>2
<1>4. IsParser(r)
  BY <1>3 DEF IsParser
<1> QED BY <1>2, <1>3, <1>4

LEMMA BufferSet ==
    ASSUME NEW p, IsParser(p), NEW bytes
    PROVE  /\ IsParser(WithBuffer(p, bytes))
           /\ WithBuffer(p, bytes).line_buffer = bytes
           /\ \A x \in ParserFields \ {"line_buffer"} : WithBuffer(p, bytes)[x] = p[x]
<1>1. "line_buffer" \in ParserFields
  BY DEF ParserFields
<1> QED BY <1>1, FieldSet DEF WithBuffer

LEMMA BufferSetTwice ==
    ASSUME NEW p, IsParser(p), NEW bytes, NEW other
    PROVE  WithBuffer(WithBuffer(p, other), bytes) = WithBuffer(p, bytes)
<1> DEFINE q == WithBuffer(p, other)
           r == WithBuffer(q, bytes)
           s == WithBuffer(p, bytes)
<1>1. IsParser(q) /\ \A x \in ParserFields \ {"line_buffer"} : q[x] = p[x]
  BY BufferSet
<1>2. /\ IsParser(r) /\ r.line_buffer = bytes
      /\ \A x \in ParserFields \ {"line_buffer"} : r[x] = q[x]
  <2> HIDE DEF q
  <2> QED BY <1>1, BufferSet
<1>3. /\ IsParser(s) /\ s.line_buffer = bytes
      /\ \A x \in ParserFields \ {"line_buffer"} : s[x] = p[x]
  BY BufferSet
<1> HIDE DEF q, r, s
<1>4. \A x \in ParserFields : r[x] = s[x]
  BY <1>1, <1>2, <1>3
<1>5. r = s
  BY <1>2, <1>3, <1>4, ParserEqual
<1> QED BY <1>5 DEF q, r, s

LEMMA BufferUnset ==
    ASSUME NEW p, IsParser(p), NEW bytes, p.line_buffer = bytes
    PROVE  WithBuffer(p, bytes) = p
<1> DEFINE q == WithBuffer(p, bytes)
<1>1. /\ IsParser(q) /\ q.line_buffer = bytes
      /\ \A x \in ParserFields \ {"line_buffer"} : q[x] = p[x]
  BY BufferSet
<1> HIDE DEF q
<1>2. \A x \in ParserFields : q[x] = p[x]
  BY <1>1
<1>3. q = p
  BY <1>1, <1>2, ParserEqual
<1> QED BY <1>3 DEF q

LEMMA SetAlongside ==
    ASSUME NEW p, IsParser(p), NEW v,
           NEW x \in {"completed", "delta_text", "done_text", "latest_usage", "error"}
    PROVE  Alongside(p, [p EXCEPT ![x] = v])
<1>1. /\ x \in ParserFields /\ "line_buffer" \in ParserFields \ {x} /\ "data_lines" \in ParserFields \ {x}
      /\ "event_name" \in ParserFields \ {x}
  BY DEF ParserFields
<1> QED BY <1>1, FieldSet DEF Alongside

LEMMA FailAlongside ==
    ASSUME NEW p, IsParser(p), NEW error
    PROVE  Alongside(p, Stream!Fail(p, error))
<1>1. Alongside(p, [p EXCEPT !.error = error]) /\ Alongside(p, p)
  BY SetAlongside DEF Alongside
<1> QED BY <1>1 DEF Stream!Fail

LEMMA UsageAlongside ==
    ASSUME NEW p, IsParser(p), NEW usage
    PROVE  Alongside(p, Stream!SetUsage(p, usage))
<1>1. Alongside(p, [p EXCEPT !.latest_usage = usage]) /\ Alongside(p, p)
  BY SetAlongside DEF Alongside
<1> QED BY <1>1 DEF Stream!SetUsage

LEMMA AlongsideTwice ==
    ASSUME NEW p, NEW q, NEW r, Alongside(p, q), Alongside(q, r)
    PROVE  Alongside(p, r)
BY DEF Alongside

LEMMA CompletedAlongside ==
    ASSUME NEW p, IsParser(p), NEW response
    PROVE  Alongside(p, Stream!Completed(p, response))
<1> DEFINE q == [p EXCEPT !.completed = response]
<1>1. Alongside(p, q)
  BY SetAlongside
<1>2. Stream!Completed(p, response) = Stream!SetUsage(q, response.usage)
  BY DEF Stream!Completed
<1> HIDE DEF q
<1>3. Alongside(q, Stream!SetUsage(q, response.usage))
  BY <1>1, UsageAlongside DEF Alongside
<1> QED BY <1>1, <1>2, <1>3, AlongsideTwice

LEMMA EventAlongside ==
    ASSUME NEW p, IsParser(p), NEW name, NEW pieces
    PROVE  Alongside(p, Stream!HandleEvent(p, name, pieces))
<1> DEFINE event == Decoded(pieces)
           type == IF event.type # Absent THEN event.type ELSE name
           q == Stream!SetUsage(p, event.usage)
           r == Stream!HandleEvent(p, name, pieces)
<1>1. Alongside(p, p) /\ Alongside(p, Stream!Fail(p, "invalid"))
  BY FailAlongside DEF Alongside
<1>2. Alongside(p, q)
  BY UsageAlongside
<1>3. r = IF pieces = <<"[DONE]">> THEN p
          ELSE IF event = Absent THEN Stream!Fail(p, "invalid")
          ELSE IF type = "delta"
          THEN IF Len(q.delta_text) + Len(event.text) > MaxText THEN Stream!Fail(q, "too_large")
               ELSE [q EXCEPT !.delta_text = q.delta_text \o event.text]
          ELSE IF type = "done"
          THEN IF Len(event.text) > MaxText THEN Stream!Fail(q, "too_large")
               ELSE [q EXCEPT !.done_text = event.text]
          ELSE IF type = "completed"
          THEN IF event.response = Absent THEN Stream!Fail(q, "invalid")
               ELSE Stream!Completed(q, event.response)
          ELSE IF event.whole # Absent THEN Stream!Completed(q, event.whole) ELSE q
  BY Zenon DEF Stream!HandleEvent
<1> HIDE DEF q, event, type, r
<1>4. /\ IsParser(q) /\ Alongside(q, q)
      /\ Alongside(q, Stream!Fail(q, "invalid")) /\ Alongside(q, Stream!Fail(q, "too_large"))
      /\ Alongside(q, [q EXCEPT !.delta_text = q.delta_text \o event.text])
      /\ Alongside(q, [q EXCEPT !.done_text = event.text])
      /\ Alongside(q, Stream!Completed(q, event.response)) /\ Alongside(q, Stream!Completed(q, event.whole))
  <2>1. IsParser(q)
    BY <1>2 DEF Alongside
  <2>2. Alongside(q, q)
    BY <2>1 DEF Alongside
  <2> QED BY <2>1, <2>2, FailAlongside, SetAlongside, CompletedAlongside
<1>5. Alongside(p, r) \/ Alongside(q, r)
  BY <1>1, <1>3, <1>4
<1> QED BY <1>2, <1>5, AlongsideTwice DEF r

\* What a flush leaves has no lines of an event, and a second one changes
\* nothing.
LEMMA FlushFacts ==
    ASSUME NEW p, IsParser(p)
    PROVE  /\ IsParser(Stream!FlushEvent(p)) /\ Stream!FlushEvent(p).line_buffer = p.line_buffer
           /\ Stream!FlushEvent(p).data_lines = <<>> /\ Stream!FlushEvent(p).event_name = Absent
<1> DEFINE a == [p EXCEPT !.event_name = Absent]
           empty == <<>>
           u == [p EXCEPT !.data_lines = empty]
           v == [u EXCEPT !.event_name = Absent]
           w == [v EXCEPT !.saw_data_event = TRUE]
           z == Stream!HandleEvent(w, p.event_name, p.data_lines)
<1> HIDE DEF empty
<1>1. /\ "event_name" \in ParserFields /\ "data_lines" \in ParserFields /\ "saw_data_event" \in ParserFields
      /\ "line_buffer" \in ParserFields
  BY DEF ParserFields
<1>2. /\ IsParser(a) /\ a.event_name = Absent /\ a.line_buffer = p.line_buffer /\ a.data_lines = p.data_lines
  BY <1>1, FieldSet
<1>3. /\ IsParser(u) /\ u.data_lines = empty /\ \A y \in ParserFields \ {"data_lines"} : u[y] = p[y]
  BY <1>1, FieldSet
<1> HIDE DEF u
<1>4. /\ IsParser(v) /\ v.event_name = Absent /\ \A y \in ParserFields \ {"event_name"} : v[y] = u[y]
  BY <1>1, <1>3, FieldSet
<1> HIDE DEF v
<1>5. /\ IsParser(w) /\ w.event_name = Absent /\ w.data_lines = empty /\ w.line_buffer = p.line_buffer
  <2>1. /\ IsParser(w) /\ \A y \in ParserFields \ {"saw_data_event"} : w[y] = v[y]
    BY <1>1, <1>4, FieldSet
  <2> HIDE DEF w
  <2> QED BY <1>1, <1>3, <1>4, <2>1
<1>6. IsParser(z) /\ z.event_name = Absent /\ z.data_lines = empty /\ z.line_buffer = p.line_buffer
  <2> HIDE DEF w
  <2> QED BY <1>5, EventAlongside DEF Alongside
<1>7. Stream!FlushEvent(p) = IF p.data_lines = <<>> THEN a ELSE z
  BY DEF Stream!FlushEvent, u, v, empty
<1> HIDE DEF a, z
<1> QED BY <1>2, <1>6, <1>7 DEF empty

LEMMA FlushTwice ==
    ASSUME NEW p, IsParser(p)
    PROVE  Stream!FlushEvent(Stream!FlushEvent(p)) = Stream!FlushEvent(p)
<1> DEFINE q == Stream!FlushEvent(p)
           r == [q EXCEPT !.event_name = Absent]
<1>1. IsParser(q) /\ q.data_lines = <<>> /\ q.event_name = Absent
  BY FlushFacts
<1> HIDE DEF q
<1>2. "event_name" \in ParserFields
  BY DEF ParserFields
<1>3. /\ IsParser(r) /\ r.event_name = Absent /\ \A y \in ParserFields \ {"event_name"} : r[y] = q[y]
  BY <1>1, <1>2, FieldSet
<1>4. Stream!FlushEvent(q) = r
  BY <1>1 DEF Stream!FlushEvent
<1> HIDE DEF r
<1>5. \A y \in ParserFields : r[y] = q[y]
  BY <1>1, <1>3
<1>6. r = q
  BY <1>1, <1>3, <1>5, ParserEqual
<1> QED BY <1>4, <1>6 DEF q

\* A line leaves the bytes of the next one alone, and an error stays.
LEMMA LineFacts ==
    ASSUME NEW p, IsParser(p), NEW line
    PROVE  /\ IsParser(Stream!HandleLine(p, line)) /\ Stream!HandleLine(p, line).line_buffer = p.line_buffer
           /\ p.error # Absent => Stream!HandleLine(p, line) = p
<1> DEFINE q == Stream!FlushEvent(p)
           named == [q EXCEPT !.event_name = line[2].text]
           more == [p EXCEPT !.data_lines = Append(p.data_lines, line[2].text)]
           z == Stream!HandleLine(p, line)
<1>1. IsParser(q) /\ q.line_buffer = p.line_buffer
  BY FlushFacts
<1>2. /\ "event_name" \in ParserFields /\ "data_lines" \in ParserFields
      /\ "line_buffer" \in ParserFields \ {"event_name"} /\ "line_buffer" \in ParserFields \ {"data_lines"}
  BY DEF ParserFields
<1>3. IsParser(named) /\ named.line_buffer = p.line_buffer
  <2> HIDE DEF q
  <2> QED BY <1>1, <1>2, FieldSet
<1>4. IsParser(more) /\ more.line_buffer = p.line_buffer
  BY <1>2, FieldSet
<1>5. z \in {p, q, named, more} /\ (p.error # Absent => z = p)
  BY Zenon DEF Stream!HandleLine
<1> HIDE DEF q, named, more, z
<1>6. IsParser(z) /\ z.line_buffer = p.line_buffer /\ (p.error # Absent => z = p)
  BY <1>1, <1>3, <1>4, <1>5
<1> QED BY <1>6 DEF z

LEMMA FreshIs == IsParser(Stream!Fresh) /\ Stream!Fresh.line_buffer = <<>>
<1>1. PICK f : f = Stream!Fresh
  OBVIOUS
<1>2. f = [x \in ParserFields |-> f[x]]
  BY <1>1 DEF Stream!Fresh, ParserFields
<1> QED BY <1>1, <1>2 DEF IsParser, Stream!Fresh

-----------------------------------------------------------------------------
\* Where the line of token n begins: at s.
BeginsAt(bytes, n, s) ==
    /\ s \in 1..n
    /\ s = 1 \/ Stream!LineEnd(bytes[s - 1])
    /\ \A i \in s..(n - 1) : ~Stream!LineEnd(bytes[i])

LEMMA LineBegins ==
    ASSUME NEW bytes, NEW n \in Nat \ {0}
    PROVE  BeginsAt(bytes, n, Stream!LineStart(bytes, n))
<1> DEFINE S == {d \in 1..n : d = n \/ Stream!LineEnd(bytes[n - d])}
<1>1. n \in S
  OBVIOUS
<1>2. PICK d \in S : \A e \in S : ~(e < d)
  <2>1. S \in SUBSET (1..n) /\ S # {}
    BY <1>1
  <2> HIDE DEF S
  <2> QED BY <2>1, SmallestOne
<1>3. d \in 1..n /\ (d = n \/ Stream!LineEnd(bytes[n - d]))
  BY <1>2
<1> DEFINE s == n - d + 1
<1>4. s \in 1..n /\ s - 1 = n - d /\ (d = n <=> s = 1)
  BY <1>3
<1>5. s = 1 \/ Stream!LineEnd(bytes[s - 1])
  BY <1>3, <1>4
<1>6. ASSUME NEW i \in s..(n - 1), Stream!LineEnd(bytes[i])
      PROVE  FALSE
  <2> DEFINE e == n - i
  <2>1. i \in 1..(n - 1) /\ e \in 1..n /\ n - e = i /\ e < d
    BY <1>3, <1>4, <1>6
  <2>2. e \in S
    BY <1>6, <2>1
  <2> HIDE DEF e, S
  <2> QED BY <1>2, <2>1, <2>2
<1> HIDE DEF s
<1>7. BeginsAt(bytes, n, s)
  BY <1>4, <1>5, <1>6 DEF BeginsAt
<1>8. Stream!LineStart(bytes, n) = CHOOSE t \in 1..n : /\ t = 1 \/ Stream!LineEnd(bytes[t - 1])
                                                      /\ \A i \in t..(n - 1) : ~Stream!LineEnd(bytes[i])
  BY DEF Stream!LineStart
<1> QED BY <1>7, <1>8 DEF BeginsAt

LEMMA LineBeginsOnce ==
    ASSUME NEW bytes, NEW n \in Nat \ {0}, NEW s, NEW t, BeginsAt(bytes, n, s), BeginsAt(bytes, n, t)
    PROVE  s = t
<1>1. s \in 1..n /\ t \in 1..n
  BY DEF BeginsAt
<1>2. ~(s < t)
  <2> SUFFICES ASSUME s < t PROVE FALSE
    OBVIOUS
  <2>1. t - 1 \in s..(n - 1) /\ t # 1
    BY <1>1
  <2> QED BY <2>1 DEF BeginsAt
<1>3. ~(t < s)
  <2> SUFFICES ASSUME t < s PROVE FALSE
    OBVIOUS
  <2>1. s - 1 \in t..(n - 1) /\ s # 1
    BY <1>1
  <2> QED BY <2>1 DEF BeginsAt
<1> QED BY <1>1, <1>2, <1>3

LEMMA LineStartIs ==
    ASSUME NEW bytes, NEW n \in Nat \ {0}, NEW s, BeginsAt(bytes, n, s)
    PROVE  Stream!LineStart(bytes, n) = s
BY LineBegins, LineBeginsOnce

LEMMA LineStartEnd ==
    ASSUME NEW bytes, NEW n \in Nat, n = 0 \/ Stream!LineEnd(bytes[n])
    PROVE  Stream!LineStart(bytes, n + 1) = n + 1
<1>1. n + 1 \in Nat \ {0} /\ n + 1 \in 1..(n + 1) /\ (n + 1) - 1 = n /\ (n + 1 = 1 <=> n = 0)
      /\ (n + 1)..n = {}
  OBVIOUS
<1>2. BeginsAt(bytes, n + 1, n + 1)
  BY <1>1 DEF BeginsAt
<1> QED BY <1>1, <1>2, LineStartIs

LEMMA LineStartOn ==
    ASSUME NEW bytes, NEW n \in Nat \ {0}, ~Stream!LineEnd(bytes[n])
    PROVE  Stream!LineStart(bytes, n + 1) = Stream!LineStart(bytes, n)
<1> DEFINE s == Stream!LineStart(bytes, n)
<1>1. BeginsAt(bytes, n, s)
  BY LineBegins
<1> HIDE DEF s
<1>2. /\ s \in 1..(n + 1) /\ n + 1 \in Nat \ {0} /\ (n + 1) - 1 = n
      /\ \A i \in s..n : i = n \/ i \in s..(n - 1)
  BY <1>1 DEF BeginsAt
<1>3. BeginsAt(bytes, n + 1, s)
  BY <1>1, <1>2 DEF BeginsAt
<1>4. Stream!LineStart(bytes, n + 1) = s
  BY <1>2, <1>3, LineStartIs
<1> QED BY <1>4 DEF s

-----------------------------------------------------------------------------
\* The parser after the lines that end in the first n tokens: f[n].
HandledStep(bytes, n, before) ==
    IF Stream!EndsLine(bytes, n) THEN Stream!HandleLine(before, Stream!LineBefore(bytes, n)) ELSE before

Handles(bytes, f, k) ==
    f = [n \in 0..k |-> IF n = 0 THEN Stream!Fresh ELSE HandledStep(bytes, n, f[n - 1])]

LEMMA HandlesExist ==
    ASSUME NEW bytes, NEW N \in Nat
    PROVE  \E f : Handles(bytes, f, N)
<1> DEFINE Missing == {k \in 0..N : ~\E f : Handles(bytes, f, k)}
<1> SUFFICES ASSUME Missing # {} PROVE FALSE
  OBVIOUS
<1>1. 0 \notin Missing
  <2>1. PICK f : f = [n \in 0..0 |-> Stream!Fresh]
    OBVIOUS
  <2>2. \A n \in 0..0 : n = 0
    OBVIOUS
  <2>3. f = [n \in 0..0 |-> IF n = 0 THEN Stream!Fresh ELSE HandledStep(bytes, n, f[n - 1])]
    BY <2>1, <2>2
  <2>4. Handles(bytes, f, 0)
    BY <2>3 DEF Handles
  <2> QED BY <2>4
<1>2. Missing \in SUBSET (1..N)
  BY <1>1
<1>3. PICK k \in Missing : \A j \in Missing : ~(j < k)
  <2> HIDE DEF Missing
  <2> QED BY <1>2, SmallestOne
<1>4. k \in 1..N /\ k - 1 \in 0..N /\ k - 1 < k /\ k - 1 \in Nat
  BY <1>2
<1>5. PICK f : Handles(bytes, f, k - 1)
  BY <1>3, <1>4
<1>6. PICK g : g = [n \in 0..k |-> IF n = 0 THEN Stream!Fresh ELSE HandledStep(bytes, n, f[n - 1])]
  OBVIOUS
<1>7. ASSUME NEW n \in 0..(k - 1)
      PROVE  g[n] = f[n]
  <2>1. n \in 0..k
    BY <1>4
  <2>2. g[n] = IF n = 0 THEN Stream!Fresh ELSE HandledStep(bytes, n, f[n - 1])
    BY <1>6, <2>1
  <2>3. f[n] = IF n = 0 THEN Stream!Fresh ELSE HandledStep(bytes, n, f[n - 1])
    BY <1>5 DEF Handles
  <2> QED BY <2>2, <2>3
<1>8. \A n \in 0..k : n # 0 => n - 1 \in 0..(k - 1)
  BY <1>4
<1>9. g = [n \in 0..k |-> IF n = 0 THEN Stream!Fresh ELSE HandledStep(bytes, n, g[n - 1])]
  BY <1>6, <1>7, <1>8
<1>10. Handles(bytes, g, k)
  BY <1>9 DEF Handles
<1> QED BY <1>3, <1>10

Handled(bytes) == CHOOSE f : Handles(bytes, f, Len(bytes))

LEMMA HandledIs ==
    ASSUME NEW T, NEW bytes \in Seq(T)
    PROVE  /\ Handled(bytes)[0] = Stream!Fresh
           /\ \A n \in 1..Len(bytes) : Handled(bytes)[n] = HandledStep(bytes, n, Handled(bytes)[n - 1])
           /\ Stream!LinesHandled(bytes) = Handled(bytes)[Len(bytes)]
<1> DEFINE N == Len(bytes)
           f == CHOOSE g : Handles(bytes, g, N)
<1>1. N \in Nat
  OBVIOUS
<1>2. Handles(bytes, f, N)
  <2> HIDE DEF N
  <2>1. \E g : Handles(bytes, g, N)
    BY <1>1, HandlesExist
  <2> QED BY <2>1
<1>3. Stream!LinesHandled(bytes) = f[N]
  BY DEF Stream!LinesHandled, Handles, HandledStep
<1> HIDE DEF f
<1>4. /\ f[0] = Stream!Fresh
      /\ \A n \in 1..N : f[n] = HandledStep(bytes, n, f[n - 1])
  <2> HIDE DEF N
  <2>1. 0 \in 0..N /\ \A n \in 1..N : n \in 0..N /\ n # 0
    BY <1>1
  <2> QED BY <1>2, <2>1 DEF Handles
<1> QED BY <1>3, <1>4 DEF f, Handled

LEMMA HandledClean ==
    ASSUME NEW T, NEW bytes \in Seq(T), NEW n \in 0..Len(bytes)
    PROVE  IsParser(Handled(bytes)[n]) /\ Handled(bytes)[n].line_buffer = <<>>
<1> DEFINE f == Handled(bytes)
           N == Len(bytes)
           Clean(k) == IsParser(f[k]) /\ f[k].line_buffer = <<>>
           Bad == {k \in 0..N : ~Clean(k)}
<1>1. N \in Nat
  OBVIOUS
<1>2. Clean(0) /\ \A k \in 1..N : f[k] = HandledStep(bytes, k, f[k - 1])
  BY FreshIs, HandledIs
<1> HIDE DEF f, N
<1>3. ASSUME Bad # {}
      PROVE  FALSE
  <2>1. 0 \notin Bad
    BY <1>2
  <2>2. Bad \in SUBSET (1..N)
    BY <1>1, <2>1
  <2>3. PICK k \in Bad : \A m \in Bad : ~(m < k)
    <3> HIDE DEF Bad
    <3> QED BY <1>1, <1>3, <2>2, SmallestOne
  <2>4. k \in 1..N /\ k - 1 \in 0..N /\ k - 1 < k
    <3>1. k \in 1..N
      BY <2>2
    <3> QED BY <1>1, <3>1
  <2>5. Clean(k - 1)
    BY <2>3, <2>4
  <2>6. f[k] = HandledStep(bytes, k, f[k - 1])
    BY <1>2, <2>4
  <2>7. Clean(k)
    BY <2>5, <2>6, LineFacts DEF HandledStep
  <2> QED BY <2>3, <2>7
<1> QED BY <1>3 DEF f, N

\* Where no line ends, nothing is handled.
LEMMA HandledWithin ==
    ASSUME NEW T, NEW bytes \in Seq(T), NEW m \in 0..Len(bytes), NEW n \in 0..Len(bytes), m <= n,
           \A i \in (m + 1)..n : ~Stream!LineEnd(bytes[i])
    PROVE  Handled(bytes)[n] = Handled(bytes)[m]
<1> DEFINE f == Handled(bytes)
           N == Len(bytes)
           Bad == {k \in 1..n : m < k /\ f[k] # f[m]}
<1>1. N \in Nat /\ m \in 0..N /\ n \in 0..N
  OBVIOUS
<1>2. \A k \in 1..N : f[k] = HandledStep(bytes, k, f[k - 1])
  BY HandledIs
<1> HIDE DEF f, N
<1>3. ASSUME Bad # {}
      PROVE  FALSE
  <2>1. PICK k \in Bad : \A j \in Bad : ~(j < k)
    <3>1. Bad \in SUBSET (1..n) /\ n \in Nat
      BY <1>1
    <3> HIDE DEF Bad
    <3> QED BY <1>3, <3>1, SmallestOne
  <2>2. k \in 1..n /\ m < k /\ f[k] # f[m]
    BY <2>1
  <2>3. k \in 1..N /\ k \in (m + 1)..n
    BY <1>1, <2>2
  <2>4. f[k] = f[k - 1]
    BY <1>2, <2>3 DEF HandledStep, Stream!EndsLine
  <2>5. k - 1 # m /\ k - 1 \in 1..n /\ m < k - 1 /\ k - 1 < k
    <3>1. k - 1 # m
      BY <2>2, <2>4
    <3> QED BY <1>1, <2>2, <3>1
  <2>6. k - 1 \in Bad
    BY <2>2, <2>4, <2>5
  <2> QED BY <2>1, <2>5, <2>6
<1>4. n = m \/ (n \in 1..n /\ m < n)
  BY <1>1
<1> QED BY <1>3, <1>4 DEF f

\* An error stays.
LEMMA HandledError ==
    ASSUME NEW T, NEW bytes \in Seq(T), NEW m \in 0..Len(bytes), Handled(bytes)[m].error # Absent
    PROVE  Handled(bytes)[Len(bytes)] = Handled(bytes)[m]
<1> DEFINE f == Handled(bytes)
           N == Len(bytes)
           Bad == {k \in 1..N : m < k /\ f[k] # f[m]}
<1>1. N \in Nat /\ m \in 0..N /\ f[m].error # Absent
  OBVIOUS
<1>2. \A k \in 1..N : f[k] = HandledStep(bytes, k, f[k - 1])
  BY HandledIs
<1>3. IsParser(f[m])
  BY HandledClean
<1> HIDE DEF f, N
<1>4. ASSUME Bad # {}
      PROVE  FALSE
  <2>1. PICK k \in Bad : \A j \in Bad : ~(j < k)
    <3>1. Bad \in SUBSET (1..N)
      OBVIOUS
    <3> HIDE DEF Bad
    <3> QED BY <1>1, <1>4, <3>1, SmallestOne
  <2>2. k \in 1..N /\ m < k /\ f[k] # f[m]
    BY <2>1
  <2>3. k - 1 = m \/ (k - 1 \in 1..N /\ m < k - 1 /\ k - 1 < k)
    BY <1>1, <2>2
  <2>4. f[k - 1] = f[m]
    BY <2>1, <2>3
  <2>5. f[k] = f[k - 1]
    BY <1>1, <1>2, <1>3, <2>2, <2>4, LineFacts DEF HandledStep
  <2> QED BY <2>2, <2>4, <2>5
<1>5. N = m \/ (N \in 1..N /\ m < N)
  BY <1>1
<1> QED BY <1>4, <1>5 DEF f, N

-----------------------------------------------------------------------------
(* One drain of a buffer.                                                  *)
DrainStep(buffer, final, n, s) ==
    IF s.skip /\ buffer[n].kind = "LF" THEN [s EXCEPT !.skip = FALSE]
    ELSE IF Stream!LineEnd(buffer[n]) /\ ~Stream!Held(buffer, n, final)
    THEN [parser |-> Stream!HandleLine(WithBuffer(s.parser, <<>>), s.parser.line_buffer),
          skip |-> buffer[n].kind = "CR"]
    ELSE [parser |-> WithBuffer(s.parser, Append(s.parser.line_buffer, buffer[n])), skip |-> FALSE]

DrainStart(p) == [parser |-> WithBuffer(p, <<>>), skip |-> FALSE]

Drains(buffer, p, final, f, k) ==
    f = [n \in 0..k |-> IF n = 0 THEN DrainStart(p) ELSE DrainStep(buffer, final, n, f[n - 1])]

LEMMA DrainsExist ==
    ASSUME NEW buffer, NEW p, NEW final, NEW N \in Nat
    PROVE  \E f : Drains(buffer, p, final, f, N)
<1> DEFINE Missing == {k \in 0..N : ~\E f : Drains(buffer, p, final, f, k)}
<1> SUFFICES ASSUME Missing # {} PROVE FALSE
  OBVIOUS
<1>1. 0 \notin Missing
  <2>1. PICK f : f = [n \in 0..0 |-> DrainStart(p)]
    OBVIOUS
  <2>2. \A n \in 0..0 : n = 0
    OBVIOUS
  <2>3. f = [n \in 0..0 |-> IF n = 0 THEN DrainStart(p) ELSE DrainStep(buffer, final, n, f[n - 1])]
    BY <2>1, <2>2
  <2>4. Drains(buffer, p, final, f, 0)
    BY <2>3 DEF Drains
  <2> QED BY <2>4
<1>2. Missing \in SUBSET (1..N)
  BY <1>1
<1>3. PICK k \in Missing : \A j \in Missing : ~(j < k)
  <2> HIDE DEF Missing
  <2> QED BY <1>2, SmallestOne
<1>4. k \in 1..N /\ k - 1 \in 0..N /\ k - 1 < k /\ k - 1 \in Nat
  BY <1>2
<1>5. PICK f : Drains(buffer, p, final, f, k - 1)
  BY <1>3, <1>4
<1>6. PICK g : g = [n \in 0..k |-> IF n = 0 THEN DrainStart(p) ELSE DrainStep(buffer, final, n, f[n - 1])]
  OBVIOUS
<1>7. ASSUME NEW n \in 0..(k - 1)
      PROVE  g[n] = f[n]
  <2>1. n \in 0..k
    BY <1>4
  <2>2. g[n] = IF n = 0 THEN DrainStart(p) ELSE DrainStep(buffer, final, n, f[n - 1])
    BY <1>6, <2>1
  <2>3. f[n] = IF n = 0 THEN DrainStart(p) ELSE DrainStep(buffer, final, n, f[n - 1])
    BY <1>5 DEF Drains
  <2> QED BY <2>2, <2>3
<1>8. \A n \in 0..k : n # 0 => n - 1 \in 0..(k - 1)
  BY <1>4
<1>9. g = [n \in 0..k |-> IF n = 0 THEN DrainStart(p) ELSE DrainStep(buffer, final, n, g[n - 1])]
  BY <1>6, <1>7, <1>8
<1>10. Drains(buffer, p, final, g, k)
  BY <1>9 DEF Drains
<1> QED BY <1>3, <1>10

LEMMA DrainIs ==
    ASSUME NEW p, NEW final, NEW N \in Nat, Len(p.line_buffer) = N
    PROVE  \E f : /\ f[0] = DrainStart(p)
                  /\ \A n \in 1..N : f[n] = DrainStep(p.line_buffer, final, n, f[n - 1])
                  /\ Stream!DrainLines(p, final) = f[N].parser
<1> DEFINE f == CHOOSE g : Drains(p.line_buffer, p, final, g, Len(p.line_buffer))
<1>1. Stream!DrainLines(p, final) = f[Len(p.line_buffer)].parser
  BY DEF Stream!DrainLines, Drains, DrainStep, DrainStart, WithBuffer
<1>2. Drains(p.line_buffer, p, final, f, N)
  <2>1. \E g : Drains(p.line_buffer, p, final, g, N)
    BY DrainsExist
  <2> QED BY <2>1
<1> HIDE DEF f
<1>3. /\ f[0] = DrainStart(p)
      /\ \A n \in 1..N : f[n] = DrainStep(p.line_buffer, final, n, f[n - 1])
  <2>1. 0 \in 0..N /\ \A n \in 1..N : n \in 0..N /\ n # 0
    OBVIOUS
  <2> QED BY <1>2, <2>1 DEF Drains
<1> QED BY <1>1, <1>3

-----------------------------------------------------------------------------
\* The parser that handled the lines ended in the first d tokens and keeps
\* what follows them, up to token e.
Settled(bytes, d, e) == WithBuffer(Handled(bytes)[d], SubSeq(bytes, Stream!LineStart(bytes, d + 1), e))

\* A CR is not handled while it is the last token that arrived.
SettledAt(bytes, k) == IF k > 0 /\ bytes[k].kind = "CR" THEN k - 1 ELSE k
At(bytes, k) == Settled(bytes, SettledAt(bytes, k), k)

\* x is how far a drain of the tokens s to e is after j of them.
Waits(bytes, s, e, final, j) == ~final /\ j >= 1 /\ s - 1 + j = e /\ bytes[s - 1 + j].kind = "CR"
DrainInv(bytes, s, e, final, j, x) ==
    /\ x.parser = Settled(bytes, IF Waits(bytes, s, e, final, j) THEN s - 2 + j ELSE s - 1 + j, s - 1 + j)
    /\ x.skip <=> (j >= 1 /\ bytes[s - 1 + j].kind = "CR" /\ ~Waits(bytes, s, e, final, j))

\* No LF stands first whose CR was handled.
SplitsNoEnd(bytes, s) == ~(bytes[s].kind = "LF" /\ s > 1 /\ bytes[s - 1].kind = "CR")

LEMMA SettledFacts ==
    ASSUME NEW T, NEW bytes \in Seq(T), NEW d \in 0..Len(bytes), NEW e
    PROVE  /\ IsParser(Settled(bytes, d, e))
           /\ Settled(bytes, d, e).line_buffer = SubSeq(bytes, Stream!LineStart(bytes, d + 1), e)
           /\ Settled(bytes, d, e).error = Handled(bytes)[d].error
           /\ \A other : WithBuffer(Settled(bytes, d, e), other) = WithBuffer(Handled(bytes)[d], other)
<1> DEFINE p == Handled(bytes)[d]
           rest == SubSeq(bytes, Stream!LineStart(bytes, d + 1), e)
<1>1. IsParser(p)
  BY HandledClean
<1>2. "error" \in ParserFields \ {"line_buffer"}
  BY DEF ParserFields
<1>3. Settled(bytes, d, e) = WithBuffer(p, rest)
  BY DEF Settled
<1> HIDE DEF p, rest
<1>4. /\ IsParser(WithBuffer(p, rest)) /\ WithBuffer(p, rest).line_buffer = rest
      /\ WithBuffer(p, rest).error = p.error
  BY <1>1, <1>2, BufferSet
<1>5. \A other : WithBuffer(WithBuffer(p, rest), other) = WithBuffer(p, other)
  BY <1>1, BufferSetTwice
<1> QED BY <1>3, <1>4, <1>5 DEF p, rest

LEMMA LineStartRange ==
    ASSUME NEW bytes, NEW d \in Nat
    PROVE  Stream!LineStart(bytes, d + 1) \in 1..(d + 1)
BY LineBegins DEF BeginsAt

\* After a line end nothing is kept.
LEMMA SettledEmpty ==
    ASSUME NEW T, NEW bytes \in Seq(T), NEW d \in 0..Len(bytes), d = 0 \/ Stream!LineEnd(bytes[d])
    PROVE  Settled(bytes, d, d) = Handled(bytes)[d]
<1>1. d \in Nat
  OBVIOUS
<1>2. Stream!LineStart(bytes, d + 1) = d + 1
  BY <1>1, LineStartEnd
<1>3. SubSeq(bytes, d + 1, d) = <<>>
  BY <1>1, SubSeqEmpty
<1> QED BY <1>2, <1>3, HandledClean, BufferUnset DEF Settled

LEMMA DrainMoves ==
    ASSUME NEW T, NEW bytes \in Seq(T), NEW e \in 0..Len(bytes), NEW s \in 1..(e + 1), NEW final \in BOOLEAN,
           NEW j \in 1..(e - s + 1), NEW x, NEW buffer, buffer = SubSeq(bytes, s, e),
           SplitsNoEnd(bytes, s), DrainInv(bytes, s, e, final, j - 1, x)
    PROVE  DrainInv(bytes, s, e, final, j, DrainStep(buffer, final, j, x))
<1> DEFINE n == s - 1 + j
           f == Handled(bytes)
           token == bytes[n]
           start == Stream!LineStart(bytes, n)
           y == DrainStep(buffer, final, j, x)
           held == Stream!Held(buffer, j, final)
<1>1. /\ n \in 1..e /\ n \in 1..Len(bytes) /\ n - 1 \in 0..Len(bytes) /\ n \in 0..Len(bytes)
      /\ e \in Nat /\ Len(bytes) \in Nat /\ (n - 1) + 1 = n
      /\ (j - 1 >= 1 <=> j # 1) /\ s - 1 + (j - 1) = n - 1 /\ s - 2 + j = n - 1 /\ (j = 1 => n = s)
      /\ n - 1 < e /\ j >= 1 /\ j \in Nat
  OBVIOUS
<1>2. Len(buffer) = e - s + 1 /\ buffer[j] = token
  <2>1. \A i \in s..e : bytes[i] \in T
    OBVIOUS
  <2> QED BY <2>1, SubSeqProperties
<1>3. held <=> Waits(bytes, s, e, final, j)
  <2>1. j = Len(buffer) <=> n = e
    BY <1>2
  <2> QED BY <1>1, <1>2, <2>1 DEF Stream!Held, Waits
<1>4. /\ x.parser = Settled(bytes, n - 1, n - 1)
      /\ x.skip <=> (j # 1 /\ bytes[n - 1].kind = "CR")
  BY <1>1 DEF DrainInv, Waits
<1>5. /\ x.parser.line_buffer = SubSeq(bytes, start, n - 1)
      /\ \A other : WithBuffer(x.parser, other) = WithBuffer(f[n - 1], other)
  <2> DEFINE d == n - 1
  <2>1. d \in 0..Len(bytes) /\ d + 1 = n /\ x.parser = Settled(bytes, d, d)
    BY <1>1, <1>4
  <2> HIDE DEF d
  <2>2. /\ Settled(bytes, d, d).line_buffer = SubSeq(bytes, Stream!LineStart(bytes, d + 1), d)
        /\ \A other : WithBuffer(Settled(bytes, d, d), other) = WithBuffer(Handled(bytes)[d], other)
    BY <2>1, SettledFacts
  <2> QED BY <2>1, <2>2 DEF d
<1>6. f[n] = HandledStep(bytes, n, f[n - 1]) /\ WithBuffer(f[n - 1], <<>>) = f[n - 1]
  BY <1>1, HandledIs, HandledClean, BufferUnset
<1>7. start \in 1..n
  BY <1>1, LineBegins DEF BeginsAt
<1>8. Append(SubSeq(bytes, start, n - 1), token) = SubSeq(bytes, start, n)
  <2>1. SubSeq(bytes, start, n) = SubSeq(bytes, start, n - 1) \o <<token>>
    <3> HIDE DEF n, start
    <3> QED BY <1>1, <1>7, SubSeqRecursiveSecond
  <2>2. SubSeq(bytes, start, n - 1) \in Seq(T) /\ token \in T
    <3>1. \A i \in start..(n - 1) : bytes[i] \in T
      <4> HIDE DEF n, start
      <4> QED BY <1>1, <1>7
    <3> HIDE DEF start
    <3> QED BY <1>1, <1>7, <3>1, SubSeqProperties
  <2> HIDE DEF n, start, token
  <2> QED BY <2>1, <2>2, AppendIsConcat
<1>9. /\ (y.parser = Settled(bytes, IF held THEN n - 1 ELSE n, n) /\ (y.skip <=> token.kind = "CR" /\ ~held))
         => DrainInv(bytes, s, e, final, j, y)
  <2> HIDE DEF y, held
  <2> QED BY <1>1, <1>3 DEF DrainInv
<1> SUFFICES DrainInv(bytes, s, e, final, j, y)
  OBVIOUS
<1> HIDE DEF n, f, token, start, held
<1>10. y = IF x.skip /\ token.kind = "LF" THEN [x EXCEPT !.skip = FALSE]
           ELSE IF Stream!LineEnd(token) /\ ~held
           THEN [parser |-> Stream!HandleLine(f[n - 1], SubSeq(bytes, start, n - 1)),
                 skip |-> token.kind = "CR"]
           ELSE [parser |-> WithBuffer(f[n - 1], SubSeq(bytes, start, n)), skip |-> FALSE]
  BY <1>2, <1>5, <1>6, <1>8, Zenon DEF DrainStep, held
<1>11. held => token.kind = "CR"
  BY <1>2 DEF Stream!Held, held
<1> HIDE DEF y
<1>12. CASE x.skip /\ token.kind = "LF"
  <2>1. PICK z : z = [x EXCEPT !.skip = FALSE]
    OBVIOUS
  <2>2. y = z /\ z.parser = x.parser /\ z.skip = FALSE
    BY <1>10, <1>12, <2>1
  <2>3. ~held /\ ~Stream!EndsLine(bytes, n) /\ Stream!LineEnd(bytes[n - 1]) /\ Stream!LineEnd(token)
    BY <1>1, <1>4, <1>11, <1>12 DEF Stream!EndsLine, Stream!LineEnd, token
  <2>4. f[n] = f[n - 1]
    BY <1>6, <2>3 DEF HandledStep
  <2>5. Settled(bytes, n - 1, n - 1) = f[n - 1] /\ Settled(bytes, n, n) = f[n]
    BY <1>1, <2>3, SettledEmpty DEF f, token
  <2> QED BY <1>4, <1>9, <1>12, <2>2, <2>3, <2>4, <2>5
<1>13. CASE ~(x.skip /\ token.kind = "LF") /\ Stream!LineEnd(token) /\ ~held
  <2>1. Stream!EndsLine(bytes, n)
    BY <1>1, <1>4, <1>13 DEF Stream!EndsLine, Stream!LineEnd, SplitsNoEnd, token
  <2>2. f[n] = Stream!HandleLine(f[n - 1], SubSeq(bytes, start, n - 1))
    BY <1>6, <2>1 DEF HandledStep, Stream!LineBefore, start
  <2>3. Settled(bytes, n, n) = f[n]
    BY <1>1, <1>13, SettledEmpty DEF f, token
  <2>4. y.parser = f[n] /\ (y.skip <=> token.kind = "CR")
    BY <1>10, <1>13, <2>2
  <2> QED BY <1>9, <1>13, <2>3, <2>4
<1>14. CASE ~Stream!LineEnd(token)
  <2>1. ~Stream!EndsLine(bytes, n) /\ token.kind # "CR" /\ token.kind # "LF" /\ ~held
    BY <1>11, <1>14 DEF Stream!EndsLine, Stream!LineEnd, token
  <2>2. f[n] = f[n - 1]
    BY <1>6, <2>1 DEF HandledStep
  <2>3. Stream!LineStart(bytes, n + 1) = start
    BY <1>1, <1>14, LineStartOn DEF token, start
  <2>4. y.parser = WithBuffer(f[n - 1], SubSeq(bytes, start, n)) /\ y.skip = FALSE
    BY <1>10, <1>14, <2>1
  <2>5. y.parser = Settled(bytes, n, n)
    BY <2>2, <2>3, <2>4 DEF Settled, f
  <2> QED BY <1>9, <2>1, <2>4, <2>5
<1>15. CASE ~(x.skip /\ token.kind = "LF") /\ Stream!LineEnd(token) /\ held
  <2>1. y.parser = WithBuffer(f[n - 1], SubSeq(bytes, start, n)) /\ y.skip = FALSE
    BY <1>10, <1>15
  <2>2. y.parser = Settled(bytes, n - 1, n)
    BY <1>1, <2>1 DEF Settled, f, start
  <2> QED BY <1>9, <1>15, <2>1, <2>2
<1> QED BY <1>12, <1>13, <1>14, <1>15

LEMMA SettledAtRange ==
    ASSUME NEW bytes, NEW k \in Nat
    PROVE  /\ SettledAt(bytes, k) \in 0..k
           /\ SettledAt(bytes, k) = k \/ (k > 0 /\ SettledAt(bytes, k) = k - 1 /\ bytes[k].kind = "CR")
           /\ (k > 0 /\ bytes[k].kind = "CR") => SettledAt(bytes, k) = k - 1
BY DEF SettledAt

\* Draining what is kept of the first k tokens and all up to e is to have read
\* the first e.
LEMMA Drained ==
    ASSUME NEW T, NEW bytes \in Seq(T), NEW e \in 0..Len(bytes), NEW k \in 0..e, NEW final \in BOOLEAN
    PROVE  Stream!DrainLines(Settled(bytes, SettledAt(bytes, k), e), final)
             = Settled(bytes, IF final THEN e ELSE SettledAt(bytes, e), e)
<1> DEFINE c == SettledAt(bytes, k)
           s == Stream!LineStart(bytes, c + 1)
           p == Settled(bytes, c, e)
           f == Handled(bytes)
           buffer == SubSeq(bytes, s, e)
           N == e - s + 1
<1>1. /\ Len(bytes) \in Nat /\ e \in Nat /\ k \in Nat /\ k <= e /\ e <= Len(bytes)
  OBVIOUS
<1>2. /\ c \in 0..k
      /\ c = k \/ (k > 0 /\ c = k - 1 /\ bytes[k].kind = "CR")
      /\ (k > 0 /\ bytes[k].kind = "CR") => c = k - 1
  BY <1>1, SettledAtRange
<1> HIDE DEF c
<1>3. BeginsAt(bytes, c + 1, s)
  <2>1. c + 1 \in Nat \ {0}
    BY <1>1, <1>2
  <2> QED BY <2>1, LineBegins
<1> HIDE DEF s
<1>4. /\ c \in 0..Len(bytes) /\ s \in 1..(c + 1) /\ s \in 1..(e + 1) /\ s - 1 \in 0..Len(bytes) /\ s - 1 <= c
      /\ N \in Nat /\ (c + 1) - 1 = c /\ (s - 1) + 1 = s /\ (s = 1 <=> s - 1 = 0)
  BY <1>1, <1>2, <1>3 DEF BeginsAt
<1>5. /\ s = 1 \/ Stream!LineEnd(bytes[s - 1])
      /\ \A i \in s..c : ~Stream!LineEnd(bytes[i])
  BY <1>3, <1>4 DEF BeginsAt
<1>6. SplitsNoEnd(bytes, s)
  <2>1. CASE s <= c
    <3>1. s \in s..c
      BY <1>4, <2>1
    <3> QED BY <1>5, <3>1 DEF SplitsNoEnd, Stream!LineEnd
  <2>2. CASE s = c + 1
    <3>1. c = k \/ (k > 0 /\ s = k /\ bytes[k].kind = "CR")
      BY <1>1, <1>2, <1>4, <2>2
    <3>2. c = k => (s > 1 => k > 0 /\ s - 1 = k /\ bytes[k].kind # "CR")
      BY <1>1, <1>2, <1>4, <2>2
    <3> QED BY <3>1, <3>2 DEF SplitsNoEnd
  <2> QED BY <1>4, <2>1, <2>2
<1>7. f[c] = f[s - 1]
  BY <1>4, <1>5, HandledWithin
<1>8. Settled(bytes, s - 1, s - 1) = f[s - 1]
  BY <1>4, <1>5, SettledEmpty
<1>9. /\ p.line_buffer = buffer /\ WithBuffer(p, <<>>) = f[c]
      /\ Len(buffer) = N
  <2>1. p.line_buffer = buffer /\ WithBuffer(p, <<>>) = WithBuffer(f[c], <<>>)
    BY <1>4, SettledFacts DEF s
  <2>2. WithBuffer(f[c], <<>>) = f[c]
    BY <1>4, HandledClean, BufferUnset
  <2>3. \A i \in s..e : bytes[i] \in T
    BY <1>1, <1>4
  <2>4. Len(buffer) = N
    BY <1>1, <1>4, <2>3, SubSeqProperties
  <2> QED BY <2>1, <2>2, <2>4
<1> HIDE DEF p, buffer
<1>10. PICK g : /\ g[0] = DrainStart(p)
                /\ \A n \in 1..N : g[n] = DrainStep(buffer, final, n, g[n - 1])
                /\ Stream!DrainLines(p, final) = g[N].parser
  <2> HIDE DEF N
  <2>1. N \in Nat /\ Len(p.line_buffer) = N /\ p.line_buffer = buffer
    BY <1>4, <1>9
  <2>2. \E g : /\ g[0] = DrainStart(p)
               /\ \A n \in 1..N : g[n] = DrainStep(p.line_buffer, final, n, g[n - 1])
               /\ Stream!DrainLines(p, final) = g[N].parser
    BY <2>1, DrainIs
  <2> QED BY <2>1, <2>2
<1>11. DrainInv(bytes, s, e, final, 0, g[0])
  <2>1. g[0].parser = f[c] /\ g[0].skip = FALSE
    BY <1>9, <1>10 DEF DrainStart
  <2>2. ~Waits(bytes, s, e, final, 0) /\ ~(0 >= 1) /\ s - 1 + 0 = s - 1
    BY <1>4 DEF Waits
  <2> QED BY <1>7, <1>8, <2>1, <2>2 DEF DrainInv
<1> DEFINE Bad == {j \in 0..N : ~DrainInv(bytes, s, e, final, j, g[j])}
<1>12. ASSUME Bad # {}
      PROVE  FALSE
  <2>1. Bad \in SUBSET (1..N)
    BY <1>4, <1>11
  <2>2. PICK j \in Bad : \A m \in Bad : ~(m < j)
    <3> HIDE DEF Bad, N
    <3> QED BY <1>4, <1>12, <2>1, SmallestOne
  <2>3. j \in 1..N
    BY <2>1
  <2>4. j - 1 \in 0..N /\ j - 1 < j
    <3> HIDE DEF Bad, N
    <3> QED BY <1>4, <2>3
  <2>5. DrainInv(bytes, s, e, final, j - 1, g[j - 1])
    BY <2>2, <2>4
  <2>6. g[j] = DrainStep(buffer, final, j, g[j - 1])
    BY <1>10, <2>3
  <2>7. DrainInv(bytes, s, e, final, j, g[j])
    BY <1>4, <1>6, <2>3, <2>5, <2>6, DrainMoves DEF buffer
  <2> QED BY <2>2, <2>7
<1>13. DrainInv(bytes, s, e, final, N, g[N])
  BY <1>4, <1>12
<1>14. s - 1 + N = e /\ s - 2 + N = e - 1 /\ (N >= 1 <=> s <= e)
  BY <1>1, <1>4
<1>15. Waits(bytes, s, e, final, N) <=> ~final /\ s <= e /\ bytes[e].kind = "CR"
  BY <1>14 DEF Waits
<1>16. ~final => SettledAt(bytes, e) = IF Waits(bytes, s, e, final, N) THEN e - 1 ELSE e
  <2>1. ~(s <= e) => c = k /\ k = e
    BY <1>1, <1>2, <1>4
  <2>2. s <= e => e > 0
    BY <1>1, <1>4
  <2> QED BY <1>1, <1>2, <1>15, <2>1, <2>2 DEF SettledAt
<1>17. g[N].parser = Settled(bytes, IF final THEN e ELSE SettledAt(bytes, e), e)
  BY <1>13, <1>14, <1>15, <1>16 DEF DrainInv
<1> QED BY <1>10, <1>17 DEF p, c

\* A chunk is read as if it had arrived with what came before.
LEMMA FeedIs ==
    ASSUME NEW T, NEW bytes \in Seq(T), NEW e \in 0..Len(bytes), NEW k \in 0..e
    PROVE  Stream!Feed(At(bytes, k), SubSeq(bytes, k + 1, e)) = At(bytes, e)
<1> DEFINE c == SettledAt(bytes, k)
           s == Stream!LineStart(bytes, c + 1)
           p == At(bytes, k)
<1>1. c \in 0..Len(bytes) /\ k \in Nat /\ e \in Nat /\ k \in 0..Len(bytes) /\ c <= k /\ c \in Nat
  <2>1. k \in Nat
    OBVIOUS
  <2>2. c \in 0..k
    BY <2>1, SettledAtRange
  <2> HIDE DEF c
  <2> QED BY <2>1, <2>2
<1>2. p = Settled(bytes, c, k)
  BY DEF At
<1> HIDE DEF c
<1>3. s \in 1..(c + 1)
  BY <1>1, LineStartRange
<1>4. p.line_buffer = SubSeq(bytes, s, k)
  BY <1>1, <1>2, SettledFacts
<1> HIDE DEF s
<1>5. SubSeq(bytes, s, k) \o SubSeq(bytes, k + 1, e) = SubSeq(bytes, s, e)
  <2>1. s \in 1..(Len(bytes) + 1) /\ k \in (s - 1)..Len(bytes) /\ e \in k..Len(bytes)
    BY <1>1, <1>3
  <2> QED BY <2>1, ConcatAdjacentSubSeq
<1>6. WithBuffer(p, SubSeq(bytes, s, e)) = Settled(bytes, c, e)
  <2>1. \A other : WithBuffer(Settled(bytes, c, k), other) = WithBuffer(Handled(bytes)[c], other)
    BY <1>1, SettledFacts
  <2> HIDE DEF p
  <2> QED BY <1>2, <2>1 DEF Settled, s
<1>7. Stream!Feed(p, SubSeq(bytes, k + 1, e))
        = Stream!DrainLines(WithBuffer(p, p.line_buffer \o SubSeq(bytes, k + 1, e)), FALSE)
  BY DEF Stream!Feed, WithBuffer
<1> HIDE DEF p
<1>8. Stream!DrainLines(Settled(bytes, c, e), FALSE) = Settled(bytes, SettledAt(bytes, e), e)
  BY Drained DEF c
<1> QED BY <1>4, <1>5, <1>6, <1>7, <1>8 DEF p, At

LEMMA AtStart ==
    ASSUME NEW T, NEW bytes \in Seq(T)
    PROVE  At(bytes, 0) = Stream!Fresh
<1>1. 0 \in 0..Len(bytes) /\ SettledAt(bytes, 0) = 0
  BY DEF SettledAt
<1> QED BY <1>1, SettledEmpty, HandledIs DEF At

\* An error is what the whole stream comes to.
LEMMA ErrorWhole ==
    ASSUME NEW T, NEW bytes \in Seq(T), NEW k \in 0..Len(bytes), At(bytes, k).error # Absent
    PROVE  Stream!Refused(At(bytes, k).error) = Stream!WholeStream(bytes)
<1> DEFINE c == SettledAt(bytes, k)
           p == Handled(bytes)[Len(bytes)]
           line == Stream!LineBefore(bytes, Len(bytes) + 1)
<1>1. c \in 0..Len(bytes)
  <2>1. k \in Nat
    OBVIOUS
  <2>2. c \in 0..k
    BY <2>1, SettledAtRange
  <2> HIDE DEF c
  <2> QED BY <2>2
<1>2. At(bytes, k).error = Handled(bytes)[c].error
  BY <1>1, SettledFacts DEF At
<1>3. p = Handled(bytes)[c]
  BY <1>1, <1>2, HandledError
<1>4. IsParser(p) /\ p.error = At(bytes, k).error
  <2>1. Len(bytes) \in 0..Len(bytes)
    OBVIOUS
  <2> QED BY <1>2, <1>3, <2>1, HandledClean
<1>5. Stream!LinesHandled(bytes) = p
  BY HandledIs
<1> HIDE DEF p, line
<1>6. Stream!HandleLine(p, line) = p
  BY <1>4, LineFacts
<1>7. Stream!Response(p) = Stream!Refused(p.error)
  BY <1>4 DEF Stream!Response
<1> QED BY <1>4, <1>5, <1>6, <1>7 DEF Stream!WholeStream, line

LEMMA FinishedWhole ==
    ASSUME NEW T, NEW bytes \in Seq(T)
    PROVE  Stream!Finished(At(bytes, Len(bytes))) = Stream!WholeStream(bytes)
<1> DEFINE N == Len(bytes)
           p == Handled(bytes)[N]
           line == Stream!LineBefore(bytes, N + 1)
           drained == Settled(bytes, N, N)
           q == Stream!HandleLine(p, line)
<1>1. N \in 0..N /\ (N + 1) - 1 = N
  OBVIOUS
<1>2. Stream!DrainLines(At(bytes, N), TRUE) = drained
  BY <1>1, Drained DEF At
<1>3. IsParser(p) /\ p.line_buffer = <<>> /\ WithBuffer(p, <<>>) = p
  BY <1>1, HandledClean, BufferUnset
<1>4. drained.line_buffer = line /\ WithBuffer(drained, <<>>) = p
  BY <1>1, <1>3, SettledFacts DEF Stream!LineBefore
<1>5. line = <<>> => drained = p
  BY <1>3, BufferUnset, <1>1 DEF Settled, Stream!LineBefore
<1>6. Stream!LinesHandled(bytes) = p
  BY HandledIs
<1> DEFINE last == IF line = <<>> THEN p ELSE q
<1>7. Stream!Finished(At(bytes, N)) = Stream!Response(IF last.error = Absent THEN Stream!FlushEvent(last) ELSE last)
  <2> DEFINE r == At(bytes, N)
             final == IF drained.line_buffer = <<>> THEN drained
                      ELSE Stream!HandleLine(WithBuffer(drained, <<>>), drained.line_buffer)
  <2> HIDE DEF r, drained
  <2>1. Stream!Finished(r) = Stream!Response(IF final.error = Absent THEN Stream!FlushEvent(final) ELSE final)
    BY <1>2, Zenon DEF r, Stream!Finished, WithBuffer
  <2> HIDE DEF p, line, q
  <2>2. final = last
    BY <1>4, <1>5 DEF q
  <2> HIDE DEF final, last
  <2> QED BY <2>1, <2>2 DEF r
<1>8. Stream!WholeStream(bytes) = Stream!Response(IF q.error = Absent THEN Stream!FlushEvent(q) ELSE q)
  BY <1>6 DEF Stream!WholeStream
<1> HIDE DEF p, line
<1>9. line = <<>> => q = IF p.error = Absent THEN Stream!FlushEvent(p) ELSE p
  BY DEF Stream!HandleLine
<1>10. Stream!FlushEvent(Stream!FlushEvent(p)) = Stream!FlushEvent(p)
  BY <1>3, FlushTwice
<1>11. (IF last.error = Absent THEN Stream!FlushEvent(last) ELSE last)
          = IF q.error = Absent THEN Stream!FlushEvent(q) ELSE q
  BY <1>9, <1>10
<1> QED BY <1>7, <1>8, <1>11

-----------------------------------------------------------------------------
(* Without a parser the content is what arrived and looks like no stream; the  *)
(* parser has read what arrived.                                               *)
StreamInv ==
    /\ body \in Bodies /\ arrived \in 0..Len(body)
    /\ parser = <<>> => ~declared /\ content = SubSeq(body, 1, arrived) /\ ~Stream!LooksLikeSse(content)
    /\ parser # <<>> => parser = <<At(body, arrived)>>
    /\ StreamWhole

LEMMA BodyTyped ==
    ASSUME body \in Bodies
    PROVE  body \in Seq({body[i] : i \in DOMAIN body}) /\ Len(body) \in Nat
<1>1. body \in Seq({body[i] : i \in DOMAIN body})
  BY StreamAssumption
<1> QED BY <1>1

LEMMA StreamInitial == ReviewingInit => StreamInv
<1> SUFFICES ASSUME ReviewingInit PROVE StreamInv
  OBVIOUS
<1>1. /\ body \in Bodies /\ arrived = 0 /\ declared \in BOOLEAN /\ content = <<>>
      /\ parser = IF declared THEN <<Stream!Fresh>> ELSE <<>>
      /\ received = Absent
  BY DEF ReviewingInit, Stream!StreamInit
<1>2. Len(body) \in Nat /\ At(body, 0) = Stream!Fresh
  BY <1>1, BodyTyped, AtStart
<1>3. SubSeq(body, 1, 0) = <<>>
  BY SubSeqEmpty
<1>4. ~Stream!LooksLikeSse(<<>>)
  BY DEF Stream!LooksLikeSse
<1>5. <<Stream!Fresh>> # <<>>
  OBVIOUS
<1>6. StreamWhole
  BY <1>1 DEF StreamWhole, Stream!StreamWhole
<1> QED BY <1>1, <1>2, <1>3, <1>4, <1>5, <1>6 DEF StreamInv

LEMMA StreamArrives == StreamInv /\ Stream!Arrive => StreamInv'
<1> SUFFICES ASSUME StreamInv, Stream!Arrive PROVE StreamInv'
  OBVIOUS
<1> DEFINE T == {body[i] : i \in DOMAIN body}
<1>1. /\ body \in Bodies /\ body \in Seq(T) /\ Len(body) \in Nat /\ arrived \in 0..Len(body)
      /\ body' = body /\ declared' = declared
  BY BodyTyped DEF StreamInv, Stream!Arrive
<1> HIDE DEF T
<1>2. PICK n \in 1..MaxChunk :
         LET chunk == SubSeq(body, arrived + 1, arrived + n) IN
         /\ arrived + n <= Len(body) /\ arrived' = arrived + n
         /\ IF parser # <<>>
            THEN parser' = <<Stream!Feed(parser[1], chunk)>> /\ UNCHANGED content
            ELSE IF Stream!LooksLikeSse(chunk) \/ Stream!LooksLikeSse(content \o chunk)
            THEN parser' = <<Stream!Feed(Stream!Feed(Stream!Fresh, content), chunk)>> /\ content' = <<>>
            ELSE content' = content \o chunk /\ UNCHANGED parser
  BY DEF Stream!Arrive
<1> DEFINE e == arrived + n
           chunk == SubSeq(body, arrived + 1, e)
<1>3. /\ n \in Nat /\ e \in 0..Len(body) /\ arrived \in 0..e /\ arrived' = e /\ arrived \in Nat
      /\ arrived \in 0..Len(body) /\ 0 \in 0..arrived
  BY <1>1, <1>2, StreamAssumption
<1>4. Stream!Feed(At(body, arrived), chunk) = At(body, e)
  BY <1>1, <1>3, FeedIs
<1>5. Stream!Feed(Stream!Fresh, SubSeq(body, 1, arrived)) = At(body, arrived)
  <2>1. At(body, 0) = Stream!Fresh /\ 0 + 1 = 1
    BY <1>1, AtStart
  <2>2. Stream!Feed(At(body, 0), SubSeq(body, 0 + 1, arrived)) = At(body, arrived)
    BY <1>1, <1>3, FeedIs
  <2> QED BY <2>1, <2>2
<1>6. SubSeq(body, 1, arrived) \o chunk = SubSeq(body, 1, e)
  <2>1. 1 \in 1..(Len(body) + 1) /\ arrived \in (1 - 1)..Len(body) /\ e \in arrived..Len(body)
    BY <1>1, <1>3
  <2> HIDE DEF e
  <2> QED BY <1>1, <2>1, ConcatAdjacentSubSeq
<1> HIDE DEF e, chunk
<1>7. \/ parser' = <<At(body, e)>>
      \/ /\ parser = <<>> /\ parser' = <<>> /\ content' = SubSeq(body, 1, e)
         /\ ~Stream!LooksLikeSse(SubSeq(body, 1, e))
  <2>1. CASE parser # <<>>
    <3>1. parser[1] = At(body, arrived)
      BY <2>1 DEF StreamInv
    <3>2. parser' = <<Stream!Feed(parser[1], chunk)>>
      BY <1>2, <2>1 DEF chunk, e
    <3> QED BY <1>4, <3>1, <3>2
  <2>2. CASE parser = <<>>
    <3>1. content = SubSeq(body, 1, arrived)
      BY <2>2 DEF StreamInv
    <3>2. \/ parser' = <<Stream!Feed(Stream!Feed(Stream!Fresh, content), chunk)>>
          \/ /\ ~Stream!LooksLikeSse(content \o chunk) /\ content' = content \o chunk /\ parser' = parser
      BY <1>2, <2>2 DEF chunk, e
    <3> QED BY <1>4, <1>5, <1>6, <2>2, <3>1, <3>2
  <2> QED BY <2>1, <2>2
<1>8. <<At(body, e)>> # <<>> /\ <<At(body, e)>>[1] = At(body, e)
  OBVIOUS
<1>9. received' = IF parser' # <<>> /\ parser'[1].error # Absent THEN Stream!Refused(parser'[1].error) ELSE Absent
  BY DEF Stream!Arrive
<1>10. StreamWhole'
  <2>1. ASSUME received' # Absent
        PROVE  received' = Stream!WholeStream(body)
    <3>1. parser' = <<At(body, e)>>
      BY <1>7, <1>9, <2>1
    <3>2. At(body, e).error # Absent /\ received' = Stream!Refused(At(body, e).error)
      BY <1>8, <1>9, <2>1, <3>1
    <3> QED BY <1>1, <1>3, <3>2, ErrorWhole
  <2>2. (received # Absent /\ (declared \/ Stream!LooksLikeSse(body)) => received = Stream!WholeStream(body))'
    BY <1>1, <2>1
  <2> QED BY <2>2 DEF StreamWhole, Stream!StreamWhole
<1>11. parser = <<>> => ~declared
  BY DEF StreamInv
<1> QED BY <1>1, <1>3, <1>7, <1>8, <1>10, <1>11 DEF StreamInv

LEMMA StreamEnds == StreamInv /\ Stream!EndOfBody => StreamInv'
<1> SUFFICES ASSUME StreamInv, Stream!EndOfBody PROVE StreamInv'
  OBVIOUS
<1> DEFINE T == {body[i] : i \in DOMAIN body}
<1>1. /\ body \in Bodies /\ body \in Seq(T) /\ arrived = Len(body)
      /\ UNCHANGED <<body, arrived, declared, content, parser>>
  BY BodyTyped DEF StreamInv, Stream!EndOfBody
<1> HIDE DEF T
<1>2. CASE parser # <<>>
  <2>1. parser[1] = At(body, Len(body)) /\ received' = Stream!Finished(parser[1])
    BY <1>1, <1>2 DEF StreamInv, Stream!EndOfBody
  <2>2. received' = Stream!WholeStream(body)
    BY <1>1, <2>1, FinishedWhole
  <2>3. (received # Absent /\ (declared \/ Stream!LooksLikeSse(body)) => received = Stream!WholeStream(body))'
    BY <1>1, <2>2
  <2>4. StreamWhole'
    BY <2>3 DEF StreamWhole, Stream!StreamWhole
  <2> QED BY <1>1, <2>4 DEF StreamInv
<1>3. CASE parser = <<>>
  <2>1. SubSeq(body, 1, Len(body)) = body
    BY <1>1, SubSeqFull
  <2>2. ~declared /\ ~Stream!LooksLikeSse(body)
    BY <1>1, <1>3, <2>1 DEF StreamInv
  <2>3. (received # Absent /\ (declared \/ Stream!LooksLikeSse(body)) => received = Stream!WholeStream(body))'
    BY <1>1, <2>2
  <2>4. StreamWhole'
    BY <2>3 DEF StreamWhole, Stream!StreamWhole
  <2> QED BY <1>1, <2>4 DEF StreamInv
<1> QED BY <1>2, <1>3

LEMMA StreamNextKeeps == StreamInv /\ [ReviewingNext]_reviewingVars => StreamInv'
<1> SUFFICES ASSUME StreamInv, [ReviewingNext]_reviewingVars PROVE StreamInv'
  OBVIOUS
<1>1. Stream!Arrive \/ Stream!EndOfBody \/ UNCHANGED streamVars
  BY DEF ReviewingNext, PreparationStep, StreamStep, AnswerStep, Stream!StreamNext, reviewingVars
<1>2. CASE UNCHANGED streamVars
  <2>1. UNCHANGED <<body, arrived, declared, content, parser, received>>
    BY <1>2 DEF streamVars
  <2>2. StreamWhole'
    BY <2>1 DEF StreamInv, StreamWhole, Stream!StreamWhole
  <2> QED BY <2>1, <2>2 DEF StreamInv
<1> QED BY <1>1, <1>2, StreamArrives, StreamEnds

-----------------------------------------------------------------------------
(* The theorems.                                                           *)

\* An accepted answer names only units, rules, evidence and files of its
\* input and agrees with its verdict, and a call reports the cost of all its
\* answered requests (AnswerReported), for any input and any answers.
THEOREM AcceptedIsSound == ReviewingSpec => []AnswerReported
<1>1. AnswerInv => AnswerReported
  BY DEF AnswerInv, AnswerReported, Answer!AnswerReported, Answer!AnswerSound, Answer!UsageReported
<1> QED BY <1>1, AnswerInitial, AnswerNext, PTL DEF ReviewingSpec

\* A reading that claims to have seen all checks saw every one there was when
\* it began: what it says of them is so, whatever came or finished between its
\* pages (CiConclusive), for any page size, limit and number of checks.
THEOREM ConclusiveIsTrue == ReviewingSpec => []CiConclusive
BY CiInitial, CiNext, CiTells, PTL DEF ReviewingSpec

\* However the sources of the patches fail and the limits cut, a plan of a pull
\* request that stood still names every changed file, plans one with its own
\* patch and every rule of its directories, leaves one out for a reason that
\* holds, and puts together only files that are related and few (PlanTruthful),
\* for any changes, rules, page size and limits.
THEOREM PlansAreTrue == ReviewingSpec => []PlanTruthful
<1>1. ReviewingInit => CiInv /\ PlanInv
  BY CiInitial, PlanInitial
<1>2. CiInv /\ PlanInv /\ [ReviewingNext]_reviewingVars => (CiInv /\ PlanInv)'
  BY CiNext, PlanNext
<1>3. PlanInv => PlanTruthful
  BY DEF PlanInv
<1> QED BY <1>1, <1>2, <1>3, PTL DEF ReviewingSpec
\* A stream is read as the response its lines come to, or refused with the same
\* error, however its bytes are cut into chunks (StreamWhole), for any bodies,
\* events, chunks and limit.
THEOREM StreamsAreWhole == ReviewingSpec => []StreamWhole
<1>1. StreamInv => StreamWhole
  BY DEF StreamInv
<1> QED BY <1>1, StreamInitial, StreamNextKeeps, PTL DEF ReviewingSpec
=============================================================================
