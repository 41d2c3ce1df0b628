--------------------------- MODULE Administration ---------------------------
(* What administrators change while the system runs: the AI settings with the *)
(* runtime and the profiles taken from them, the master keys, the accounts    *)
(* and the knowledge library.  They share no row, so a behaviour moves one of *)
(* them, its subject; the settings come in three parts, of which several      *)
(* reviewing threads share the first changes only.                            *)
EXTENDS Integers, Sequences, FiniteSets

CONSTANTS Providers, Agents, Urls, Models, Windows, Keys, Policies, Readers, MaxLibrary,
          Slots, Values, BatchSize, MaxVersion, MaxWrites,
          Roles, Passwords, Logins, MaxAttempts, Window, TTL, Recheck, MaxTime,
          Sources, Sizes, Packs, Previous, MaxFiles, MaxTotal, MaxEdits,
          MaxRevision,     \* bound on changes of the settings and of the member
          SharedChanges,   \* bound on those that several reviewing threads see
          None

ASSUME AdministrationAssumption ==
    /\ Slots \subseteq Int /\ IsFiniteSet(Slots) /\ BatchSize \in Nat \ {0}
    /\ Readers # {}
    /\ {TTL, Recheck, Window, MaxAttempts} \subseteq Nat \ {0}
    /\ None \notin Values
    /\ None \notin [value : Values, version : Nat, nonce : Nat]
    /\ None \notin [count : Nat, started : Nat]

\* The library's paths, contents and limits.
ASSUME LibraryAssumption ==
    /\ IsFiniteSet(Sources) /\ Sizes \subseteq Nat /\ {MaxFiles, MaxTotal} \subseteq Nat
    /\ None \notin Nat
    /\ None \notin [versions : Seq(Sizes), enabled : BOOLEAN, archived : BOOLEAN,
                    placed : {"system", "person"}]
    /\ Packs # {} /\ Packs \subseteq [Sources -> Sizes \cup {None}]

\* What was never tested has no result.
ASSUME UntestedAssumption == None # "succeeded"

VARIABLES subject,
          settings, providers, agents, test, library, cache, readers, lock, capture, profiles, proven,
          secrets, ring, rotation, complete, writer, saved, written,
          member, limiter, login, sessions, tokens, streams, now, attempts, ended, late,
          revision, documents, deletions, pack, snapshot, reading, handwritten

AI == INSTANCE AISettings
Rotation == INSTANCE SecretRotation
Account == INSTANCE Accounts
Library == INSTANCE Knowledge

\* A release ships no more than a library holds (_read_seed_documents).
ASSUME PackAssumption == \A release \in Packs : Library!PackFits(release)

aiVars == <<settings, providers, agents, test, library, cache, readers, lock, capture, profiles, proven>>
rotationVars == <<secrets, ring, rotation, complete, writer, saved, written>>
accountVars == <<member, limiter, login, sessions, tokens, streams, now, attempts, ended, late>>
libraryVars == <<revision, documents, deletions, pack, snapshot, reading, handwritten>>
allVars == <<subject, aiVars, rotationVars, accountVars, libraryVars>>

AISubjects == {"runtime", "threads", "profiles"}

\* One initial state of what is not the subject is enough.
Init ==
    /\ subject \in AISubjects \cup {"rotation", "accounts", "library"}
    /\ AI!AIInit /\ Rotation!RotationInit /\ Account!AccountInit /\ Library!KnowledgeInit
    /\ subject \notin AISubjects => settings.active = None
    /\ subject # "rotation" => secrets = [s \in Slots |-> None]
    /\ subject # "accounts" => member.role = CHOOSE role \in Roles : TRUE
    /\ subject # "library" => pack = CHOOSE release \in Packs : TRUE

AINext ==
    \/ subject \in AISubjects /\ (subject = "threads" => settings.revision < SharedChanges) /\ AI!Administer
    \/ subject = "runtime" /\ AI!Current(CHOOSE t \in Readers : TRUE)
    \/ subject = "threads" /\ \E t \in Readers : AI!Current(t)
    \/ subject = "profiles" /\ AI!CaptureProfile

Next ==
    /\ UNCHANGED subject
    /\ \/ AINext /\ UNCHANGED <<rotationVars, accountVars, libraryVars>>
       \/ subject = "rotation" /\ Rotation!RotationNext /\ UNCHANGED <<aiVars, accountVars, libraryVars>>
       \/ subject = "accounts" /\ Account!AccountNext /\ UNCHANGED <<aiVars, rotationVars, libraryVars>>
       \/ subject = "library" /\ Library!KnowledgeNext /\ UNCHANGED <<aiVars, rotationVars, accountVars>>

Spec == Init /\ [][Next]_allVars

---------------------------------------------------------------------------
\* The worker's runtime is one tested configuration (AISettings).
RuntimeSound == subject \in AISubjects => AI!RuntimeSound

\* A saved profile is one moment of the configuration (AISettings).
ProfileUnmixed == subject \in AISubjects => AI!ProfileUnmixed

\* Rotation loses no key (SecretRotation).
KeysReadable == subject = "rotation" => Rotation!KeysReadable

\* An access ends with what it was granted for (Accounts).
AccessEnds == subject = "accounts" => Account!AccessEnds

\* Login attempts are limited across windows (Accounts).
AttemptsLimited == subject = "accounts" => Account!AttemptsLimited

\* The library is served as it is and keeps what people did (Knowledge).
LibrarySound == subject = "library" => Library!LibrarySound
=============================================================================
