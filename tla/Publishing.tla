----------------------------- MODULE Publishing -----------------------------
(* The publication of one approved review on GitHub: two short transactions   *)
(* of the API around GitHub calls that happen outside any transaction, the    *)
(* ledger of external actions that serialises each GitHub write under a short *)
(* lease, and the GitHub objects the writes leave behind.  Several publish    *)
(* requests may run at once: one that is still marked as publishing after the *)
(* recovery period may be taken over by the next.                             *)
EXTENDS Integers, Sequences, FiniteSets

CONSTANTS Attempts,       \* calls of the publish endpoint
          Requests,       \* idempotency keys
          Findings,       \* findings of the review
          Order,          \* the findings in the order of their creation
          Inlineable,     \* findings that pass _can_publish_inline when valid
          Size,           \* bytes of the rendered comment of a finding
          MaxRequest,     \* _MAX_INLINE_REVIEW_REQUEST_BYTES
          MaxBatches,     \* _MAX_INLINE_REVIEW_REQUESTS
          MaxInline,      \* _MAX_INLINE_COMMENTS
          MaxTime,        \* bound on the clock
          MaxFaults,      \* bound on crashes, lost answers and rejected writes
          MaxEdits,       \* bound on operator actions and pushes
          NoAttempt       \* no publication under way, no owner, no request yet

ASSUME PublishingAssumption ==
    /\ NoAttempt \notin Attempts \cup Requests
    /\ IsFiniteSet(Findings) /\ Inlineable \subseteq Findings
    /\ Order \in Seq(Findings)
    /\ \A i, j \in 1..Len(Order) : Order[i] = Order[j] => i = j
    /\ Size \in [Findings -> Nat]
    /\ {MaxRequest, MaxBatches, MaxInline, MaxTime, MaxFaults, MaxEdits} \subseteq Nat

VARIABLES run,        \* workflow status, publish_attempt_token and updated_at
          valid,      \* findings adjudicated as valid
          completed,  \* requests whose completed event is stored
          head,       \* "current", or "moved" once the pull request has a new commit
          stale,      \* coverage_status is stale
          attempt,    \* the program state of each call
          ledger,     \* the external action rows, by action key
          github,     \* what the pull request shows
          clock,      \* in units of the recovery period and of the action lease
          faults, edits,
          round,      \* history: how often the review was approved
          overlap     \* history: "none"; "some" once two calls were active together,
                      \* "lost" once an answer was lost meanwhile

vars == <<run, valid, completed, head, stale, attempt, ledger, github, clock,
          faults, edits, round, overlap>>

---------------------------------------------------------------------------
(* Keys of the ledger.  The key of a write does not depend on the content,    *)
(* the method or the path: only on the run, the type and the discriminator.   *)
CheckKey == [type |-> "check_run", index |-> 0, batch |-> <<>>]
SummaryKey == [type |-> "summary_comment", index |-> 0, batch |-> <<>>]
InlineKey(i, batch) == [type |-> "inline_review", index |-> i, batch |-> batch]

IdleAttempt == [pc |-> "idle", write |-> "inline", request |-> NoAttempt,
                shown |-> {}, todo |-> <<>>, index |-> 0, inline |-> 0,
                missing |-> 0, exists |-> FALSE,
                outcome |-> "none", round |-> 0]

Init ==
    /\ run = [status |-> "awaiting_publish", token |-> NoAttempt, updated |-> 0]
    /\ valid \in SUBSET Findings
    /\ completed = {}
    /\ head = "current" /\ stale = FALSE
    /\ attempt = [a \in Attempts |-> IdleAttempt]
    /\ ledger = <<>>
    /\ github = [check |-> <<>>, summary |-> <<>>, inline |-> [f \in Findings |-> 0]]
    /\ clock = 0 /\ faults = 0 /\ edits = 0
    /\ round = 0 /\ overlap = "none"

Working == {"load", "validate", "inline", "check", "summary",
            "acquire", "send", "record", "finish", "fail"}
Active(a) == attempt[a].pc \in Working
\* Between the reading of GitHub and the end of the write it decides on.
MidWrite(a) == attempt[a].pc \in {"acquire", "send", "record"}

Overlapping(a) == \E b \in Attempts \ {a} : Active(b)

\* The call has returned: nothing of its program state is used any more.
Return(a) == attempt' = [attempt EXCEPT ![a] = [IdleAttempt EXCEPT !.pc = "done"]]
Goto(a, pc) == attempt' = [attempt EXCEPT ![a].pc = pc]
\* Every exception of the publisher leads to _mark_publish_failed.
Raise(a) == attempt' = [attempt EXCEPT ![a] = [IdleAttempt EXCEPT !.pc = "fail"]]

---------------------------------------------------------------------------
(* Phase 1: one transaction under the row lock of the run.                    *)
Recoverable == run.status = "publishing" /\ clock > run.updated

\* Defect: a token left by an earlier call is kept.
BeginKeepingToken(a, q) ==
    /\ attempt[a].pc = "idle"
    /\ ~stale
    /\ q \notin completed
    /\ run.status = "awaiting_publish" \/ Recoverable
    /\ run' = [status |-> "publishing", token |-> IF run.token = NoAttempt THEN a ELSE run.token, updated |-> clock]
    /\ attempt' = [attempt EXCEPT ![a].pc = "load", ![a].request = q, ![a].round = round]
    /\ overlap' = IF overlap = "none" /\ Overlapping(a) THEN "some" ELSE overlap
    /\ UNCHANGED <<valid, completed, head, stale, ledger, github, clock, faults, edits, round>>

Begin(a, q) ==
    /\ attempt[a].pc = "idle"
    /\ ~stale
    /\ q \notin completed
    /\ run.status = "awaiting_publish" \/ Recoverable
    /\ run' = [status |-> "publishing", token |-> a, updated |-> clock]
    /\ attempt' = [attempt EXCEPT ![a].pc = "load", ![a].request = q, ![a].round = round]
    /\ overlap' = IF overlap = "none" /\ Overlapping(a) THEN "some" ELSE overlap
    /\ UNCHANGED <<valid, completed, head, stale, ledger, github, clock, faults, edits, round>>

(* Phase 2: the findings are read in a transaction of their own, GitHub is    *)
(* asked whether the pull request is still open at the reviewed commit.       *)
Load(a) ==
    /\ attempt[a].pc = "load"
    /\ attempt' = [attempt EXCEPT ![a].pc = "validate", ![a].shown = valid]
    /\ UNCHANGED <<run, valid, completed, head, stale, ledger, github, clock, faults, edits, round, overlap>>

ValidateTarget(a) ==
    /\ attempt[a].pc = "validate"
    /\ IF head = "current" THEN Goto(a, "inline") ELSE Raise(a)
    /\ UNCHANGED <<run, valid, completed, head, stale, ledger, github, clock, faults, edits, round, overlap>>

\* The members of a set, in the order of a sequence.
Chosen(seq, set) ==
    LET chosen[i \in 0..Len(seq)] ==
            IF i = 0 THEN <<>>
            ELSE IF seq[i] \in set THEN Append(chosen[i - 1], seq[i])
            ELSE chosen[i - 1]
    IN  chosen[Len(seq)]

InlineCandidates(a) ==
    LET all == Chosen(Order, attempt[a].shown \cap Inlineable)
    IN  SubSeq(all, 1, IF Len(all) < MaxInline THEN Len(all) ELSE MaxInline)

Bytes(batch) ==
    LET bytes[i \in 0..Len(batch)] == IF i = 0 THEN 0 ELSE bytes[i - 1] + Size[batch[i]]
    IN  bytes[Len(batch)]

\* A comment joins the open batch while the request stays within its limit.
AddComment(batches, f) ==
    LET n == Len(batches) IN
    IF n > 0 /\ Bytes(Append(batches[n], f)) <= MaxRequest
    THEN [batches EXCEPT ![n] = Append(@, f)]
    ELSE Append(batches, <<f>>)

(* Greedy batches of one review request each; the last is the open one.       *)
InlineBatches(seq) ==
    LET batches[i \in 0..Len(seq)] == IF i = 0 THEN <<>> ELSE AddComment(batches[i - 1], seq[i])
    IN  batches[Len(seq)]

TooLarge(batches) ==
    \/ Len(batches) > MaxBatches
    \/ \E i \in DOMAIN batches : Bytes(batches[i]) > MaxRequest

LoadInlineMarkers(a) ==
    LET candidates == InlineCandidates(a)
        missing == Chosen(candidates, {f \in Findings : github.inline[f] = 0})
        batches == InlineBatches(missing)
        existing == Len(candidates) - Len(missing)
    IN  /\ attempt[a].pc = "inline"
        /\ attempt' = [attempt EXCEPT ![a] =
               [@ EXCEPT !.pc = IF missing = <<>> \/ TooLarge(batches)
                                THEN "check" ELSE "acquire",
                         !.write = "inline",
                         !.todo = IF TooLarge(batches) THEN <<>> ELSE batches,
                         !.index = 0,
                         !.missing = Len(missing),
                         !.inline = IF TooLarge(batches) THEN existing ELSE Len(candidates)]]
        /\ UNCHANGED <<run, valid, completed, head, stale, ledger, github, clock, faults, edits, round, overlap>>

FindCheckRun(a) ==
    /\ attempt[a].pc = "check"
    /\ attempt' = [attempt EXCEPT ![a].pc = "acquire", ![a].write = "check",
                                  ![a].exists = github.check # <<>>]
    /\ UNCHANGED <<run, valid, completed, head, stale, ledger, github, clock, faults, edits, round, overlap>>

FindSummaryComment(a) ==
    /\ attempt[a].pc = "summary"
    /\ attempt' = [attempt EXCEPT ![a].pc = "acquire", ![a].write = "summary",
                                  ![a].exists = github.summary # <<>>]
    /\ UNCHANGED <<run, valid, completed, head, stale, ledger, github, clock, faults, edits, round, overlap>>

---------------------------------------------------------------------------
(* The ledger.                                                                *)
Key(a) == CASE attempt[a].write = "inline" -> InlineKey(attempt[a].index, Head(attempt[a].todo))
            [] attempt[a].write = "check" -> CheckKey
            [] OTHER -> SummaryKey

AfterWrite(a) ==
    CASE attempt[a].write = "inline" ->
             [attempt[a] EXCEPT !.todo = Tail(@), !.index = @ + 1, !.outcome = "none",
                                !.pc = IF Len(attempt[a].todo) = 1 THEN "check" ELSE "acquire"]
      [] attempt[a].write = "check" ->
             [attempt[a] EXCEPT !.pc = "summary", !.exists = FALSE, !.outcome = "none"]
      [] OTHER -> [attempt[a] EXCEPT !.pc = "finish"]

\* A position GitHub no longer accepts: the publication goes on without comments.
WithoutComments(a) ==
    [attempt[a] EXCEPT !.pc = "check", !.todo = <<>>, !.outcome = "none",
                       !.inline = @ - attempt[a].missing]

Succeeded(k) == k \in DOMAIN ledger /\ ledger[k].state = "succeeded"

Busy(k, a) == /\ k \in DOMAIN ledger /\ ledger[k].state = "running"
              /\ ledger[k].owner # a /\ ledger[k].expires > clock

SetRow(k, row) == ledger' = [x \in DOMAIN ledger \cup {k} |-> IF x = k THEN row ELSE ledger[x]]

Acquire(a) ==
    LET k == Key(a)
    IN  /\ attempt[a].pc = "acquire"
        /\ \/ /\ Succeeded(k)
              /\ attempt' = [attempt EXCEPT ![a] = AfterWrite(a)]
              /\ UNCHANGED ledger
           \/ /\ ~Succeeded(k) /\ Busy(k, a)
              /\ Raise(a)
              /\ UNCHANGED ledger
           \/ /\ ~Succeeded(k) /\ ~Busy(k, a)
              /\ SetRow(k, [state |-> "running", owner |-> a, expires |-> clock + 1])
              /\ Goto(a, "send")
        /\ UNCHANGED <<run, valid, completed, head, stale, github, clock, faults, edits, round, overlap>>

Upsert(objects, exists, content) ==
    IF exists THEN [objects EXCEPT ![1] = content] ELSE Append(objects, content)

(* What GitHub holds after the write of the current stage has landed.         *)
Landed(a) ==
    LET content == [shown |-> attempt[a].shown, inline |-> attempt[a].inline]
        batch == Head(attempt[a].todo)
    IN  CASE attempt[a].write = "inline" ->
                 [github EXCEPT !.inline = [f \in Findings |->
                     @[f] + (IF \E i \in DOMAIN batch : batch[i] = f THEN 1 ELSE 0)]]
          [] attempt[a].write = "check" -> [github EXCEPT !.check = Upsert(@, attempt[a].exists, content)]
          [] OTHER -> [github EXCEPT !.summary = Upsert(@, attempt[a].exists, content)]

(* The request of an attempt, with what the client learns of it: success,     *)
(* a rejection that changed nothing (with "invalid" for the 422 of a          *)
(* position GitHub no longer accepts) or a lost answer to a request that      *)
(* landed.                                                                    *)
Send(a) ==
    /\ attempt[a].pc = "send"
    /\ \E outcome \in {"ok", "rejected", "invalid", "lost"} :
         /\ outcome = "invalid" => attempt[a].write = "inline"
         /\ outcome # "ok" => faults < MaxFaults
         /\ faults' = IF outcome = "ok" THEN faults ELSE faults + 1
         /\ github' = IF outcome \in {"ok", "lost"} THEN Landed(a) ELSE github
         /\ overlap' = IF outcome = "lost" /\ Overlapping(a) THEN "lost" ELSE overlap
         /\ attempt' = [attempt EXCEPT ![a].pc = "record", ![a].outcome = outcome]
    /\ UNCHANGED <<run, valid, completed, head, stale, ledger, clock, edits, round>>

Owns(a, k) == k \in DOMAIN ledger /\ ledger[k].owner = a

\* Defect: an error of a write does not end the publication.
RecordIgnoringErrors(a) ==
    LET k == Key(a)
        out == attempt[a].outcome
    IN  /\ attempt[a].pc = "record"
        /\ IF Owns(a, k)
           THEN SetRow(k, [state |-> IF out = "ok" THEN "succeeded" ELSE "failed",
                           owner |-> NoAttempt, expires |-> clock])
           ELSE UNCHANGED ledger
        /\ CASE out = "ok" /\ Owns(a, k) -> attempt' = [attempt EXCEPT ![a] = AfterWrite(a)]
             [] out = "invalid" -> attempt' = [attempt EXCEPT ![a] = WithoutComments(a)]
             [] OTHER -> attempt' = [attempt EXCEPT ![a] = AfterWrite(a)]
        /\ UNCHANGED <<run, valid, completed, head, stale, github, clock, faults, edits, round, overlap>>

(* succeed raises when the row has another owner by now; fail does nothing    *)
(* then.  A 422 of an inline batch only degrades the publication.             *)
Record(a) ==
    LET k == Key(a)
        out == attempt[a].outcome
    IN  /\ attempt[a].pc = "record"
        /\ IF Owns(a, k)
           THEN SetRow(k, [state |-> IF out = "ok" THEN "succeeded" ELSE "failed",
                           owner |-> NoAttempt, expires |-> clock])
           ELSE UNCHANGED ledger
        /\ CASE out = "ok" /\ Owns(a, k) -> attempt' = [attempt EXCEPT ![a] = AfterWrite(a)]
             [] out = "invalid" -> attempt' = [attempt EXCEPT ![a] = WithoutComments(a)]
             [] OTHER -> Raise(a)
        /\ UNCHANGED <<run, valid, completed, head, stale, github, clock, faults, edits, round, overlap>>

---------------------------------------------------------------------------
(* Phase 3: a transaction under the row lock, and its counterpart for errors. *)
Finish(a) ==
    /\ attempt[a].pc = "finish"
    /\ Return(a)
    /\ IF attempt[a].request \in completed
       THEN UNCHANGED <<run, completed>>
       ELSE IF run.status = "publishing" /\ run.token = a
       THEN /\ run' = [status |-> "completed", token |-> NoAttempt, updated |-> clock]
            /\ completed' = completed \cup {attempt[a].request}
       ELSE /\ run' = [run EXCEPT !.token = IF @ = a THEN NoAttempt ELSE @]
            /\ UNCHANGED completed
    /\ UNCHANGED <<valid, head, stale, ledger, github, clock, faults, edits, round, overlap>>

MarkPublishFailed(a) ==
    /\ attempt[a].pc = "fail"
    /\ Return(a)
    /\ IF run.status = "publishing" /\ run.token = a
       THEN run' = [status |-> "awaiting_publish", token |-> NoAttempt, updated |-> clock]
       ELSE UNCHANGED run
    /\ UNCHANGED <<valid, completed, head, stale, ledger, github, clock, faults, edits, round, overlap>>

(* The API process dies, or the database fails under one of the transactions. *)
Crash(a) ==
    /\ Active(a) /\ faults < MaxFaults
    /\ faults' = faults + 1
    /\ Return(a)
    /\ UNCHANGED <<run, valid, completed, head, stale, ledger, github, clock, edits, round, overlap>>

---------------------------------------------------------------------------
(* The operators, the author of the pull request, and time.                   *)
Edit == edits < MaxEdits /\ edits' = edits + 1

\* review_finding asks for no workflow status.
ReviewFinding(f) ==
    /\ Edit
    /\ valid' = IF f \in valid THEN valid \ {f} ELSE valid \cup {f}
    /\ UNCHANGED <<run, completed, head, stale, attempt, ledger, github, clock, faults, round, overlap>>

Reject ==
    /\ Edit
    /\ run.status = "awaiting_publish"
    /\ run' = [run EXCEPT !.status = "reviewing", !.updated = clock]
    /\ UNCHANGED <<valid, completed, head, stale, attempt, ledger, github, clock, faults, round, overlap>>

\* RETRY_FAILED_NODE accepts a review that is being published and leaves its token.
RetryFailedNode ==
    /\ Edit
    /\ ~stale
    /\ run.status \in {"awaiting_publish", "publishing", "completed"}
    /\ run' = [run EXCEPT !.status = "reviewing", !.updated = clock]
    /\ UNCHANGED <<valid, completed, head, stale, attempt, ledger, github, clock, faults, round, overlap>>

\* The repeated stages end with new findings, decided and approved again.
Approve ==
    /\ run.status = "reviewing" /\ ~stale
    /\ run' = [run EXCEPT !.status = "awaiting_publish", !.updated = clock]
    /\ valid' \in SUBSET Findings
    /\ round' = round + 1
    /\ UNCHANGED <<completed, head, stale, attempt, ledger, github, clock, faults, edits, overlap>>

Push ==
    /\ Edit
    /\ head = "current" /\ head' = "moved"
    /\ UNCHANGED <<run, valid, completed, stale, attempt, ledger, github, clock, faults, round, overlap>>

\* The planner of the newer review marks this one.
Supersede ==
    /\ head = "moved" /\ ~stale /\ stale' = TRUE
    /\ UNCHANGED <<run, valid, completed, head, attempt, ledger, github, clock, faults, edits, round, overlap>>

\* A read of GitHub, the write it decides on and its record take less than a lease:
\* every request has a timeout far below it.
Tick ==
    /\ clock < MaxTime
    /\ \A a \in Attempts : ~MidWrite(a)
    /\ clock' = clock + 1
    /\ UNCHANGED <<run, valid, completed, head, stale, attempt, ledger, github, faults, edits, round, overlap>>

Step(a) == \/ \E q \in Requests : Begin(a, q)
           \/ Load(a) \/ ValidateTarget(a) \/ LoadInlineMarkers(a)
           \/ FindCheckRun(a) \/ FindSummaryComment(a)
           \/ Acquire(a) \/ Send(a) \/ Record(a)
           \/ Finish(a) \/ MarkPublishFailed(a)

Next == \/ \E a \in Attempts : Step(a) \/ Crash(a)
        \/ \E f \in Findings : ReviewFinding(f)
        \/ Reject \/ RetryFailedNode \/ Approve \/ Push \/ Supersede \/ Tick

Spec == Init /\ [][Next]_vars

---------------------------------------------------------------------------
Keys == [type : {"check_run", "summary_comment", "inline_review"}, index : Nat,
         batch : Seq(Findings)]
Content == [shown : SUBSET Findings, inline : Nat]
LedgerRow == [state : {"running", "succeeded", "failed"},
              owner : Attempts \cup {NoAttempt}, expires : Nat]
CallState == [pc : Working \cup {"idle", "done"}, write : {"inline", "check", "summary"},
              request : Requests \cup {NoAttempt}, shown : SUBSET Findings,
              todo : Seq(Seq(Findings)), index : Nat, inline : Nat, missing : Nat,
              exists : BOOLEAN, outcome : {"none", "ok", "rejected", "invalid", "lost"},
              round : Nat]
GitHubState == [check : Seq(Content), summary : Seq(Content), inline : [Findings -> Nat]]

\* Types of the rows, of the calls and of what GitHub holds.
TypeOK ==
    /\ run \in [status : {"awaiting_publish", "publishing", "completed", "reviewing"},
                token : Attempts \cup {NoAttempt}, updated : 0..MaxTime]
    /\ valid \subseteq Findings /\ completed \subseteq Requests
    /\ head \in {"current", "moved"} /\ stale \in BOOLEAN
    /\ attempt \in [Attempts -> CallState]
    /\ \A k \in DOMAIN ledger : k \in Keys /\ ledger[k] \in LedgerRow
    /\ github \in GitHubState
    /\ clock \in 0..MaxTime /\ faults \in 0..MaxFaults /\ edits \in 0..MaxEdits
    /\ round \in Nat /\ overlap \in {"none", "some", "lost"}

\* Crashes, rejected writes and lost answers never lead to a second check run,
\* summary or comment on the same finding: the next call finds what an earlier
\* one left.  Only calls that overlap may comment twice on a finding, and only
\* when an answer is lost meanwhile do they create a check or a summary twice.
NoDuplicates ==
    /\ overlap # "lost" => Len(github.check) <= 1 /\ Len(github.summary) <= 1
    /\ overlap = "none" => \A f \in Findings : github.inline[f] <= 1

\* A review is only completed when its check run and its summary are on GitHub,
\* whichever call created them and whatever became of that call.
CompletedIsPublished ==
    run.status = "completed" => github.check # <<>> /\ github.summary # <<>>

\* The check and the summary never announce more inline comments than the pull
\* request has, batches refused half-way included.
CountTruthful ==
    LET posted == Cardinality({f \in Findings : github.inline[f] > 0})
    IN  \A c \in {github.check[i] : i \in DOMAIN github.check}
              \cup {github.summary[i] : i \in DOMAIN github.summary} : c.inline <= posted

\* What GitHub shows of a review: once, whole and true.
GitHubTruthful == NoDuplicates /\ CompletedIsPublished /\ CountTruthful

\* A call completes the review only under the approval it was started under: the
\* token RETRY_FAILED_NODE leaves behind never lets an old call complete a later
\* approval.
OwnApprovalOnly ==
    [][\A a \in Attempts :
         run.status # "completed" /\ run'.status = "completed" /\ Finish(a)
            => attempt[a].round = round]_vars

\* A call that completes the review leaves a check run and a summary that show
\* the findings it was given.
CompletedIsCurrent ==
    [][\A a \in Attempts :
         run.status # "completed" /\ run'.status = "completed" /\ Finish(a)
            => /\ github.check[1].shown = attempt[a].shown
               /\ github.summary[1].shown = attempt[a].shown]_vars
=============================================================================
