----------------------------- MODULE ModelAnswer -----------------------------
(* What a review() call makes of the answers it gets.  An answer is parsed by *)
(* the rules of its protocol; a truncated one is asked for once more in a      *)
(* compact form, one that breaks the contract once more to be repaired, every  *)
(* other failure ends the call.  Each answered request is settled with the     *)
(* usage it is known to have cost.                                             *)
EXTENDS Integers, Sequences

CONSTANTS Protocols,  \* subset of {"responses", "chat_completions", "messages"}
          Units,      \* the units of the input, in order: [key, file]
          Evidence,   \* the identities of the context evidence, in order
          Rules,      \* paths of the rules and knowledge documents of the input
          Texts,      \* the structured texts a model may answer
          Usages,     \* the usages an answer may report
          None

VARIABLES protocol,
          permits,    \* connection_test, allow_truncation_retry, summary
          request,    \* the kind of the request under way, or "done"
          first,      \* the error of the first answer
          settled,    \* the known usage of each answered request, None when uncertain
          result      \* what the call returns or raises

answerVars == <<protocol, permits, request, first, settled, result>>

NoResult == [kind |-> "none", usage |-> None, findings |-> <<>>, verdict |-> None]

AnswerInit ==
    /\ protocol \in Protocols
    /\ permits \in [connection_test : BOOLEAN, allow_truncation_retry : BOOLEAN, summary : BOOLEAN]
    /\ permits.connection_test => ~permits.summary
    /\ request = "initial"
    /\ first = NoResult
    /\ settled = <<>>
    /\ result = NoResult

---------------------------------------------------------------------------
(* The answers of a protocol: how the output ended, whether a refusal is among *)
(* its blocks, its text, its usage, and at most one flaw: no usage, a number   *)
(* of it damaged, a part of it above the whole, or a damaged identity.         *)
Ends == [responses |-> {"completed", "max_output_tokens", "length", "content_filter", "incomplete", "failed"},
         chat_completions |-> {"stop", "length", "content_filter", "other"},
         messages |-> {"end_turn", "max_tokens", "refusal", "other"}]

Payloads ==
    [end : Ends[protocol], refusal : {FALSE} \cup {protocol # "messages"}, text : Texts \cup {None},
     usage : Usages,
     flaw : {"none", "missing", "damaged", "identity"} \cup (IF protocol = "messages" THEN {} ELSE {"contradictory"})]

\* _usage_from_payload: unlike the parser it reports nothing for what it cannot read.
KnownUsage(payload) == IF payload.flaw \in {"none", "identity"} THEN payload.usage ELSE None

Error(kind, usage) == [kind |-> kind, usage |-> usage, findings |-> <<>>, verdict |-> None]

(* _parse_structured_text, with the usage attached only to a broken contract.  *)
Structured(text, usage) ==
    IF text.form = "empty" THEN Error("invalid", None)
    ELSE IF \/ text.form = "malformed"
            \/ text.verdict = "no_actionable_issue" /\ text.findings # <<>>
            \/ text.verdict = "issues_found" /\ text.findings = <<>>
    THEN Error("contract", usage)
    ELSE [kind |-> "accepted", usage |-> usage, findings |-> text.findings, verdict |-> text.verdict]

(* The parts of the parsers that follow a normal end: the blocks, the usage,   *)
(* the text, the response's identity.                                          *)
Body(payload) ==
    IF payload.refusal THEN Error("refused", None)
    ELSE IF payload.text = None \/ payload.flaw \in {"missing", "contradictory"} THEN Error("invalid", None)
    ELSE IF payload.flaw = "damaged" THEN Error("exception", None)
    ELSE LET parsed == Structured(payload.text, payload.usage) IN
         IF parsed.kind = "accepted" /\ payload.flaw = "identity" THEN Error("exception", None) ELSE parsed

ParseResponses(payload) ==
    CASE payload.end = "content_filter" -> Error("refused", KnownUsage(payload))
      [] payload.end \in {"max_output_tokens", "length", "incomplete"} -> Error("truncated", KnownUsage(payload))
      [] payload.end = "failed" -> Error("invalid", None)
      [] OTHER -> Body(payload)

ParseChatCompletions(payload) ==
    CASE payload.end = "length" -> Error("truncated", KnownUsage(payload))
      [] payload.end = "content_filter" -> Error("refused", None)
      [] payload.end = "other" -> Error("invalid", None)
      [] OTHER -> Body(payload)

ParseMessages(payload) ==
    CASE payload.end = "max_tokens" -> Error("truncated", KnownUsage(payload))
      [] payload.end = "refusal" -> Error("refused", None)
      [] payload.end = "other" -> Error("invalid", None)
      [] OTHER -> Body(payload)

ParseSuccess(payload) ==
    CASE protocol = "responses" -> ParseResponses(payload)
      [] protocol = "chat_completions" -> ParseChatCompletions(payload)
      [] protocol = "messages" -> ParseMessages(payload)

---------------------------------------------------------------------------
(* normalize_model_references.  A model names units and evidence by their      *)
(* short numbers or by their identities; a rule may carry a section or version *)
(* suffix, which only a document of the input loses.                           *)
Entries(known) == {known[n] : n \in DOMAIN known}

Resolved(reference, known) ==
    IF reference.number \in DOMAIN known THEN known[reference.number]
    ELSE IF reference.number = 0 /\ reference.key \in Entries(known) THEN reference.key
    ELSE None

UnitKeys == [n \in DOMAIN Units |-> Units[n].key]
FileOf(key) == Units[CHOOSE n \in DOMAIN Units : Units[n].key = key].file

Referenced(finding) ==
    /\ \A c \in Entries(finding.context_references) : Resolved(c, Evidence) # None
    /\ finding.rule_reference # None => finding.rule_reference.path \in Rules
    /\ Resolved(finding.unit_key, UnitKeys) # None
    /\ finding.file # None => finding.file = FileOf(Resolved(finding.unit_key, UnitKeys))

Normalized(finding) ==
    [unit_key |-> Resolved(finding.unit_key, UnitKeys),
     rule_reference |-> IF finding.rule_reference = None THEN None ELSE finding.rule_reference.path,
     context_references |-> {Resolved(c, Evidence) : c \in Entries(finding.context_references)},
     file |-> finding.file]

\* Defect: the references are restored without being compared.
WithReferencesTrusted(parsed, kind, usage) ==
    IF permits.summary \/ parsed.kind # "accepted" THEN parsed
    ELSE [parsed EXCEPT !.findings = [i \in DOMAIN @ |-> Normalized(@[i])]]

WithReferences(parsed, kind, usage) ==
    IF permits.summary \/ parsed.kind # "accepted" THEN parsed
    ELSE IF \A i \in DOMAIN parsed.findings : Referenced(parsed.findings[i])
    THEN [parsed EXCEPT !.findings = [i \in DOMAIN @ |-> Normalized(@[i])]]
    ELSE Error(kind, usage)

\* An unknown reference breaks the contract; a repair can mend it.
ParseBatchResponse(payload) ==
    LET parsed == ParseSuccess(payload) IN WithReferences(parsed, "contract", parsed.usage)

---------------------------------------------------------------------------
\* _failed_usage: an unknown usage counts as nothing.
FailedUsage(usage) == IF usage = None THEN 0 ELSE usage

CombineUsage(one, two) == one + two

Finish(outcome) ==
    /\ request' = "done" /\ result' = outcome
    /\ UNCHANGED first

Retry(kind, error) ==
    /\ request' = kind /\ first' = error
    /\ UNCHANGED result

\* _should_retry_truncated_output: an unknown reason is not taken for the length.
LengthReached(payload) == payload.end \in {"max_output_tokens", "length", "max_tokens"}

InitialAnswer ==
    /\ request = "initial"
    /\ \E payload \in Payloads :
         LET parsed == ParseBatchResponse(payload) IN
         /\ settled' = Append(settled, parsed.usage)
         /\ IF parsed.kind = "truncated" /\ permits.allow_truncation_retry /\ ~permits.connection_test
               /\ LengthReached(payload)
            THEN Retry("compact", parsed)
            ELSE IF parsed.kind = "contract" /\ ~permits.connection_test
            THEN Retry("repair", parsed)
            ELSE Finish(parsed)
    /\ UNCHANGED <<protocol, permits>>

(* Both requests' usages are reported together, whether the retry succeeded or *)
(* not.                                                                        *)
Together(outcome) ==
    [outcome EXCEPT !.usage = CombineUsage(FailedUsage(first.usage), FailedUsage(@))]

RepairAnswer ==
    /\ request = "repair"
    /\ \E payload \in Payloads :
         LET parsed == ParseBatchResponse(payload) IN
         /\ settled' = Append(settled, parsed.usage)
         /\ Finish(Together(parsed))
    /\ UNCHANGED <<protocol, permits>>

(* The references of a compact answer are compared once the retry is over: an  *)
(* unknown one is no longer repaired, and the error names no usage.            *)
CompactAnswer ==
    /\ request = "compact"
    /\ \E payload \in Payloads :
         LET parsed == ParseSuccess(payload) IN
         /\ settled' = Append(settled, parsed.usage)
         /\ Finish(WithReferences(Together(parsed), "unknown_reference", None))
    /\ UNCHANGED <<protocol, permits>>

(* A request without an answer: rejected, timed out or broken off.             *)
NoAnswer ==
    /\ request # "done"
    /\ Finish(IF request = "initial" THEN Error("transport", None) ELSE Together(Error("transport", None)))
    /\ UNCHANGED <<protocol, permits, settled>>

AnswerNext == InitialAnswer \/ RepairAnswer \/ CompactAnswer \/ NoAnswer

AnswerSpec == AnswerInit /\ [][AnswerNext]_answerVars

---------------------------------------------------------------------------
(* A result a review goes on with comes from an answer that ended normally:    *)
(* its verdict agrees with its findings, and every finding names a unit, a     *)
(* rule and evidence of this input by their identities and lies in the file of *)
(* its unit, whichever of the two answers it came from.                        *)
AnswerSound ==
    result.kind = "accepted" =>
        /\ result.verdict = "issues_found" => result.findings # <<>>
        /\ result.verdict = "no_actionable_issue" => result.findings = <<>>
        /\ ~permits.summary =>
             \A i \in DOMAIN result.findings :
                 LET finding == result.findings[i] IN
                 /\ \E n \in DOMAIN Units : /\ Units[n].key = finding.unit_key
                                            /\ finding.file \in {None, Units[n].file}
                 /\ finding.rule_reference \in Rules \cup {None}
                 /\ finding.context_references \subseteq Entries(Evidence)

(* The usage a call reports is that of all its answered requests, as far as it *)
(* is known, and it is the usage they were settled with; only a compact answer *)
(* with unknown references reports nothing of what was paid.                   *)
UsageReported ==
    request = "done" =>
        LET cost(n) == IF n \in DOMAIN settled THEN FailedUsage(settled[n]) ELSE 0
            paid == CombineUsage(cost(1), cost(2)) IN
        /\ Len(settled) <= 2
        /\ result.usage # None => result.usage = paid
        /\ (result.usage = None /\ result.kind # "unknown_reference") => paid = 0
        /\ result.kind = "accepted" => settled[Len(settled)] # None

(* An answer is accepted only when it is sound, and what it cost is reported  *)
(* once, repaired or refused.                                                 *)
AnswerReported == AnswerSound /\ UsageReported
=============================================================================
