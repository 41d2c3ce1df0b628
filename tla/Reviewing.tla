------------------------------ MODULE Reviewing ------------------------------
(* What one review learns from outside before it can be stored: the files, the *)
(* rules and the checks of its pull request, read while people push and CI     *)
(* runs (ReviewPreparation), the body of an answer as it arrives               *)
(* (ResponseStream), and the answers of one call of a model (ModelAnswer).     *)
(* Each hands the next a finished value, and they step by turns.               *)
EXTENDS Integers, Sequences, FiniteSets

CONSTANTS Versions, HeadOf, Target, Paths, Change, Rule, Generated, Documents, Relation, MaxGroup,
          PageSize, MaxFiles, MaxPatch, MaxBlobFiles, MaxBlob, MaxBlobTotal, RuleDepth, MaxCandidates,
          MaxRules, MaxChecks, Contexts, MaxListed, MaxPolls,
          Bodies, Decoded(_), JsonOf(_), MaxChunk, MaxText,
          Protocols, InputUnits, Evidence, Documented, Texts, Usages,
          Absent

ASSUME PreparationAssumption ==
    /\ PageSize \in Nat \ {0} /\ MaxChecks \in Nat \ {0} /\ MaxListed \in Nat \ {0}
    /\ MaxFiles \in Nat /\ RuleDepth \in Nat /\ MaxGroup \in Nat \ {0}
    /\ IsFiniteSet(Paths) /\ Paths \subseteq Seq(Nat)

ASSUME AnswerAssumption ==
    /\ Protocols \subseteq {"responses", "chat_completions", "messages"}
    /\ Usages \subseteq Nat /\ Absent \notin Nat
    /\ \A t \in Texts : t.findings \in Seq({t.findings[i] : i \in DOMAIN t.findings})

\* A body is a sequence of tokens (ResponseStream).
ASSUME StreamAssumption ==
    /\ \A b \in Bodies : b \in Seq({b[i] : i \in DOMAIN b})
    /\ MaxText \in Nat /\ MaxChunk \in Nat

VARIABLES pr, runs, result, statuses, reader, polls, context, plan, steady, listed,
          body, arrived, declared, content, parser, received,
          protocol, permits, request, first, settled, given

Preparation == INSTANCE ReviewPreparation WITH MaxDepth <- RuleDepth, None <- Absent

Stream == INSTANCE ResponseStream WITH read <- arrived, answer <- received, None <- Absent

Answer == INSTANCE ModelAnswer WITH Units <- InputUnits, Rules <- Documented, result <- given,
                                         None <- Absent

preparationVars == <<pr, runs, result, statuses, reader, polls, context, plan, steady, listed>>
streamVars == <<body, arrived, declared, content, parser, received>>
answerVars == <<protocol, permits, request, first, settled, given>>
reviewingVars == <<preparationVars, streamVars, answerVars>>

ReviewingInit == Preparation!PreparationInit /\ Stream!StreamInit /\ Answer!AnswerInit

PreparationStep == Preparation!PreparationNext /\ UNCHANGED <<streamVars, answerVars>>
StreamStep == Stream!StreamNext /\ UNCHANGED <<preparationVars, answerVars>>
AnswerStep == Answer!AnswerNext /\ UNCHANGED <<preparationVars, streamVars>>

ReviewingNext == PreparationStep \/ StreamStep \/ AnswerStep

ReviewingSpec == ReviewingInit /\ [][ReviewingNext]_reviewingVars

---------------------------------------------------------------------------
\* A plan lists what the pull request changes (ReviewPreparation).
PlanTruthful == Preparation!PlanTruthful

\* A conclusive CI result is one (ReviewPreparation).
CiConclusive == Preparation!CiConclusive

\* A stream is read the same however it is cut (ResponseStream).
StreamWhole == Stream!StreamWhole

\* An accepted answer is sound, and every request's usage is reported (ModelAnswer).
AnswerReported == Answer!AnswerReported
=============================================================================
