----------------------------- MODULE ReviewReuse -----------------------------
(***************************************************************************)
(* Answers kept across commits: an agent whose input is the same, apart    *)
(* from the commit it belongs to, takes the answer of an earlier review    *)
(* (services/review_reuse.py, persistence/review_reuse.py and             *)
(* _PersistentBatchedReviewer.review).                                     *)
(*                                                                         *)
(* An automatic retry runs a finished agent again over its saved batches.   *)
(*                                                                         *)
(* One agent of one repository.  What the key digests is the record the    *)
(* digest is taken of; a unit is its run and file, a translated unit the   *)
(* file alone.  Time is counted in days and a request lasts less.          *)
(***************************************************************************)
EXTENDS Integers, FiniteSets

CONSTANTS
    Files, Contents, Profiles, Heads,
    Documents, \* knowledge documents of the frozen profiles
    MaxRuns,   \* reviews (bound)
    MaxAge,    \* days an entry may be used
    MaxDays,   \* bound
    None

VARIABLES
    inputs,  \* run -> head, files and their contents, review profile
    active,  \* documents not archived: filter_active_chunks
    sealed,  \* run -> its batches: "none", "claimed" for an entry, "lost" by
             \* the process that claimed, or "done" with an answer
    entries, \* key -> the entry kept for it
    today

reuseVars == <<inputs, active, sealed, entries, today>>

Runs == 1..MaxRuns
Known(r) == inputs[r] # None

\* reuse_identity: everything the request depends on but the commit.
Key(r) == [contents |-> inputs[r].contents, profile |-> inputs[r].profile,
           knowledge |-> active]

\* normalize, and back into the units of another run.
Digest(unit) == unit.file
Unit(r, f) == [run |-> r, file |-> f]

Findings(r) == [unit : {Unit(r, f) : f \in DOMAIN inputs[r].contents},
                mentions : {None, inputs[r].head}]

NoBatch == [state |-> "none", entry |-> None, answer |-> None]

ReuseInit ==
    /\ inputs = [r \in Runs |-> None]
    /\ active = Documents
    /\ sealed = [r \in Runs |-> NoBatch]
    /\ entries = {}
    /\ today = 0

\* A review of some commit; two of them may be of the same one.
Begin(r) ==
    /\ ~Known(r) /\ \A q \in 1..(r - 1) : Known(q)
    /\ \E head \in Heads, files \in SUBSET Files \ {{}}, profile \in Profiles :
       \E contents \in [files -> Contents] :
           /\ \A q \in Runs : Known(q) /\ inputs[q].head = head =>
                  inputs[q].contents = contents
           /\ inputs' = [inputs EXCEPT ![r] =
                  [head |-> head, contents |-> contents, profile |-> profile]]
    /\ UNCHANGED <<active, sealed, entries, today>>

\* load_reused_review: another run's entry, no older than a week.
Usable(r) == {e \in entries : /\ e.key = Key(r) /\ e.source # r
                              /\ e.created + MaxAge >= today
                              /\ e.head # inputs[r].head}

\* ensure_model_batches and claim_model_batch, for the whole input at once;
\* the entry is the worker's from here on.
Seal(r) ==
    /\ Known(r) /\ sealed[r].state = "none"
    /\ \E e \in Usable(r) :
           sealed' = [sealed EXCEPT ![r] =
                         [NoBatch EXCEPT !.state = "claimed", !.entry = e]]
    /\ UNCHANGED <<inputs, active, entries, today>>

\* The worker dies with the batch claimed.
Crash(r) ==
    /\ sealed[r].state = "claimed"
    /\ sealed' = [sealed EXCEPT ![r] = [NoBatch EXCEPT !.state = "lost"]]
    /\ UNCHANGED <<inputs, active, entries, today>>

\* made: the input the model was given; used: the one it is taken for.
Answer(findings, source, made, used) ==
    [findings |-> findings, source |-> source, made |-> made, used |-> used]

Done(answer) == [NoBatch EXCEPT !.state = "done", !.answer = answer]

\* restore_reused and complete_model_batch.
Restore(r) ==
    /\ sealed[r].state = "claimed"
    /\ LET e == sealed[r].entry
           findings == {[unit |-> Unit(r, d.unit), mentions |-> d.mentions] :
                            d \in e.output}
       IN  sealed' = [sealed EXCEPT ![r] =
                         Done(Answer(findings, e.source, e.made, e.key))]
    /\ UNCHANGED <<inputs, active, entries, today>>

\* reusable_payload: a model's own answer which does not name its commit.
Reusable(r, answer) ==
    /\ answer.source = r
    /\ \A d \in answer.findings : d.mentions = None

Kept(r, answer) ==
    [key |-> Key(r), source |-> r, head |-> inputs[r].head, created |-> today,
     made |-> answer.made,
     output |-> {[unit |-> Digest(d.unit), mentions |-> d.mentions] :
                    d \in answer.findings}]

\* store_reusable_review: one entry for a key, the latest.
Store(r, answer) ==
    entries' = IF Reusable(r, answer)
               THEN {e \in entries : e.key # Key(r)} \union {Kept(r, answer)}
               ELSE entries

\* _review_batches: the model is asked, also by a run that died with its
\* batch claimed.  Keeping the answer for others may fail.
Ask(r) ==
    /\ Known(r)
    /\ \/ sealed[r].state = "none" /\ Usable(r) = {}
       \/ sealed[r].state = "lost"
    /\ \E f \in SUBSET Findings(r) :
           LET answer == Answer(f, r, Key(r), Key(r))
           IN  /\ Cardinality(f) <= 1
               /\ sealed' = [sealed EXCEPT ![r] = Done(answer)]
               /\ Store(r, answer) \/ UNCHANGED entries
    /\ UNCHANGED <<inputs, active, today>>

\* An automatic retry: the saved batches of a finished agent are combined,
\* and the answer is kept again, for the input of this turn.
Rerun(r) ==
    /\ sealed[r].state = "done"
    /\ Store(r, sealed[r].answer)
    /\ UNCHANGED <<inputs, active, sealed, today>>

\* The operator has the agents reviewed anew.
Reset(r) ==
    /\ sealed[r].state \in {"done", "lost"}
    /\ sealed' = [sealed EXCEPT ![r] = NoBatch]
    /\ UNCHANGED <<inputs, active, entries, today>>

Archive(d) ==
    /\ d \in active
    /\ active' = active \ {d}
    /\ UNCHANGED <<inputs, sealed, entries, today>>

Tick ==
    /\ today < MaxDays
    /\ today' = today + 1
    /\ UNCHANGED <<inputs, active, sealed, entries>>

ReuseNext ==
    \/ \E r \in Runs : \/ Begin(r) \/ Seal(r) \/ Crash(r) \/ Restore(r)
                         \/ Ask(r) \/ Rerun(r) \/ Reset(r)
    \/ \E d \in Documents : Archive(d)
    \/ Tick

ReuseSpec == ReuseInit /\ [][ReuseNext]_reuseVars

-----------------------------------------------------------------------------
(* Property.                                                               *)

\* "跨提交的精确输入复用：只移除提交身份，保留代码、位置、证据和方案"
\* (services/review_reuse.py:1): an answer is only reused for the input it
\* was given for, the commit aside.
ReuseExact ==
    \A r \in Runs : sealed[r].state = "done" =>
        sealed[r].answer.made = sealed[r].answer.used
=============================================================================
