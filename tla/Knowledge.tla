------------------------------ MODULE Knowledge ------------------------------
(* The managed Markdown library.  Administrators write documents under one    *)
(* revision; built-in documents are seeded once and updated by an explicit    *)
(* synchronisation that must respect what people changed or deleted; every    *)
(* process serves reviews from a snapshot it refreshes when the revision      *)
(* moved, in two reads between which administrators may write.                *)
EXTENDS Integers, Sequences, FiniteSets

CONSTANTS Sources,      \* document paths
          Sizes,        \* contents, each is its own size in bytes
          Packs,        \* what a release ships: per source a content or None
          Previous,     \* contents of earlier releases, per source
          MaxFiles,     \* 128
          MaxTotal,     \* max_total_bytes, 5 MiB
          MaxEdits,     \* bound on the revision
          None

VARIABLES revision,     \* knowledge_library, None before the first access
          documents,    \* knowledge_documents with their versions, per source
          deletions,    \* knowledge_deletions
          pack,         \* the knowledge directory of the deployed release
          snapshot,     \* a process's chunks and the revision they are for
          reading,      \* the revision that process read first, None when it reads nothing
          handwritten   \* history: what a person last wrote at each source

knowledgeVars == <<revision, documents, deletions, pack, snapshot, reading, handwritten>>

Stored == {s \in Sources : documents[s] # None}
Content(d) == d.versions[Len(d.versions)]
Active(d) == d # None /\ d.enabled /\ ~d.archived
\* The bytes of the active documents among S, one by one.
BytesIn(library, S) == UNION {{s} \X (1..Content(library[s])) : s \in {t \in S : Active(library[t])}}
BytesOf(library, S) == Cardinality(BytesIn(library, S))
EnabledBytes(S) == BytesOf(documents, S)
Fits(s, size) == EnabledBytes(Sources \ {s}) + size <= MaxTotal

NewDocument(content, enabled, placed) ==
    [versions |-> <<content>>, enabled |-> enabled, archived |-> FALSE, placed |-> placed]

\* What a release ships; it leaves out what does not fit into a library.
Shipped(release) == {s \in Sources : release[s] # None}
Seeded(release) ==
    [s \in Sources |-> IF release[s] = None THEN None ELSE NewDocument(release[s], TRUE, "system")]
PackFits(release) ==
    Cardinality(Shipped(release)) <= MaxFiles /\ BytesOf(Seeded(release), Sources) <= MaxTotal

KnowledgeInit ==
    /\ revision = None /\ deletions = {} /\ pack \in Packs
    /\ documents = [s \in Sources |-> None]
    /\ snapshot = None /\ reading = None
    /\ handwritten = [s \in Sources |-> None]

---------------------------------------------------------------------------
(* Seeding, at the first access of a process that starts: only a library that *)
(* never had a document is filled.                                            *)
Seed ==
    /\ revision \in {None, 0}
    /\ documents' = Seeded(pack)
    /\ revision' = IF Shipped(pack) # {} THEN 1 ELSE 0
    /\ UNCHANGED <<deletions, pack, snapshot, reading, handwritten>>

(* Administrators.  A write that saw an older revision is refused and is not  *)
(* a step.                                                                    *)
Edit(after) ==
    /\ revision # None /\ revision < MaxEdits
    /\ revision' = revision + 1 /\ documents' = after
    /\ UNCHANGED <<pack, snapshot, reading>>

CreateDocument(s) ==
    /\ documents[s] = None /\ Cardinality(Stored) < MaxFiles
    /\ \E content \in Sizes, enabled \in BOOLEAN :
         /\ enabled => EnabledBytes(Sources) + content <= MaxTotal
         /\ Edit([documents EXCEPT ![s] = NewDocument(content, enabled, "person")])
         /\ handwritten' = [handwritten EXCEPT ![s] = content]
    /\ UNCHANGED deletions

(* A new content is a new version; the path may change with it.               *)
UpdateDocument(s) ==
    /\ documents[s] # None /\ ~documents[s].archived
    /\ \E content \in Sizes, enabled \in BOOLEAN, to \in Sources :
         LET d == documents[s]
             versions == IF content = Content(d) THEN d.versions ELSE Append(d.versions, content)
         IN  /\ to # s => documents[to] = None
             /\ enabled => Fits(s, content)
             /\ Edit([documents EXCEPT ![s] = None,
                        ![to] = [d EXCEPT !.versions = versions, !.enabled = enabled,
                                          !.placed = IF to = s THEN @ ELSE "person"]])
             /\ handwritten' = [[handwritten EXCEPT ![s] = None] EXCEPT ![to] = content]
    /\ UNCHANGED deletions

\* Defect: only an edit counts against the capacity.
ArchiveDocumentUnmeasured(s, archived) ==
    /\ documents[s] # None
    /\ \E enabled \in BOOLEAN :
         Edit([documents EXCEPT ![s].archived = archived, ![s].enabled = ~archived /\ enabled])
    /\ UNCHANGED <<deletions, handwritten>>

ArchiveDocument(s, archived) ==
    /\ documents[s] # None
    /\ \E enabled \in BOOLEAN :
         /\ ~archived /\ enabled => Fits(s, Content(documents[s]))
         /\ Edit([documents EXCEPT ![s].archived = archived, ![s].enabled = ~archived /\ enabled])
    /\ UNCHANGED <<deletions, handwritten>>

\* A historical version becomes the current one as a further version.
RestoreVersion(s) ==
    /\ documents[s] # None /\ ~documents[s].archived
    /\ \E i \in DOMAIN documents[s].versions :
         LET d == documents[s]
             content == d.versions[i]
         IN  /\ content # Content(d)
             /\ d.enabled => Fits(s, content)
             /\ Edit([documents EXCEPT ![s].versions = Append(@, content)])
             /\ handwritten' = [handwritten EXCEPT ![s] = content]
    /\ UNCHANGED deletions

\* The text goes, the fact stays: nothing may import it again.
DeleteDocument(s) ==
    /\ documents[s] # None
    /\ Edit([documents EXCEPT ![s] = None])
    /\ deletions' = deletions \cup {s}
    /\ handwritten' = [handwritten EXCEPT ![s] = None]

---------------------------------------------------------------------------
(* sync_pack --apply, for the revision of a preview: a new release's contents *)
(* replace those of earlier releases; contents that no release shipped are    *)
(* conflicts, and one conflict refuses the whole pack.                        *)
Deploy ==
    /\ \E next \in Packs \ {pack} : pack' = next
    /\ UNCHANGED <<revision, documents, deletions, snapshot, reading, handwritten>>

Known(s) == documents[s] # None /\ Content(documents[s]) \in Previous[s]
\* Defect: a conflict does not stop the pack.
NoConflicts == {}

Conflicts ==
    {s \in Sources \ deletions :
       /\ documents[s] # None /\ Content(documents[s]) # pack[s] /\ ~Known(s)
       /\ pack[s] = None => Previous[s] # {} /\ ~documents[s].archived}

Synced(s) ==
    LET d == documents[s] IN
    IF s \in deletions THEN d
    ELSE IF pack[s] = None
    THEN IF d # None /\ ~d.archived /\ Known(s)
         THEN [d EXCEPT !.archived = TRUE, !.enabled = FALSE] ELSE d
    ELSE IF d = None THEN NewDocument(pack[s], TRUE, "system")
    ELSE IF Content(d) = pack[s] THEN d
    ELSE [d EXCEPT !.versions = Append(@, pack[s])]

SyncPack ==
    LET after == [s \in Sources |-> Synced(s)] IN
    /\ Conflicts = {} /\ after # documents
    /\ Cardinality({s \in Sources : after[s] # None}) <= MaxFiles /\ BytesOf(after, Sources) <= MaxTotal
    /\ Edit(after)
    /\ handwritten' = [s \in Sources |-> IF documents[s] # None /\ Known(s) THEN None ELSE handwritten[s]]
    /\ UNCHANGED deletions

---------------------------------------------------------------------------
(* chunks(): the revision first, then the documents.                          *)
Current == {<<s, Content(documents[s])>> : s \in {t \in Sources : Active(documents[t])}}

ReadRevision ==
    /\ reading = None /\ revision # None
    /\ snapshot # None => snapshot.revision # revision
    /\ reading' = revision
    /\ UNCHANGED <<revision, documents, deletions, pack, snapshot, handwritten>>

\* Defect: the snapshot is labelled with the revision at its end.
ReadDocumentsLabelledLate ==
    /\ reading # None
    /\ snapshot' = [revision |-> reading + 1, chunks |-> Current]
    /\ reading' = None
    /\ UNCHANGED <<revision, documents, deletions, pack, handwritten>>

ReadDocuments ==
    /\ reading # None
    /\ snapshot' = [revision |-> reading, chunks |-> Current]
    /\ reading' = None
    /\ UNCHANGED <<revision, documents, deletions, pack, handwritten>>

KnowledgeNext ==
    \/ Seed \/ Deploy \/ SyncPack \/ ReadRevision \/ ReadDocuments
    \/ \E s \in Sources :
         \/ CreateDocument(s) \/ UpdateDocument(s) \/ RestoreVersion(s) \/ DeleteDocument(s)
         \/ \E archived \in BOOLEAN : ArchiveDocument(s, archived)

KnowledgeSpec == KnowledgeInit /\ [][KnowledgeNext]_knowledgeVars

---------------------------------------------------------------------------
(* A process that takes its snapshot for current serves the library of that   *)
(* revision: a write that fell between its two reads is noticed by the next   *)
(* review.                                                                    *)
KnowledgeServed ==
    snapshot # None /\ snapshot.revision = revision => snapshot.chunks = Current

(* What people did to the library stays: a text no release shipped is not     *)
(* replaced by a release, a deleted document is not brought back by one, and  *)
(* no order of edits, restorations and releases exceeds the capacity.         *)
KnowledgeKept ==
    /\ \A s \in Sources :
         /\ handwritten[s] # None /\ handwritten[s] \notin Previous[s] =>
              documents[s] # None /\ Content(documents[s]) = handwritten[s]
         /\ documents[s] # None /\ documents[s].placed = "system" => s \notin deletions
    /\ EnabledBytes(Sources) <= MaxTotal /\ Cardinality(Stored) <= MaxFiles

(* The library is served as it is stored, and keeps what people did to it     *)
(* within its limits.                                                         *)
LibrarySound == KnowledgeServed /\ KnowledgeKept
=============================================================================
