------------------------ MODULE AdministrationProofs ------------------------
(* Proofs about what administrators change while the system runs: rotation of *)
(* the master keys, sessions and login attempts, the worker's runtime, the    *)
(* review profiles and the knowledge library.                                 *)
EXTENDS Administration, FiniteSetTheorems, TLAPS

-----------------------------------------------------------------------------
(* The rotation of the master keys.                                        *)

Secret == [value : Values, version : Nat, nonce : Nat]

LEMMA SameCardinality == \A S : Rotation!Cardinality(S) = Cardinality(S)
  BY DEF Rotation!Cardinality, Cardinality

\* A first batch that is not full holds everything.
LEMMA FirstOfAll ==
    ASSUME NEW S \in SUBSET Slots, NEW n \in Nat,
           Rotation!Cardinality(Rotation!FirstOf(S, n)) < n
    PROVE  S \subseteq Rotation!FirstOf(S, n)
  <1> DEFINE Below(x) == {o \in S : o < x}
             F == Rotation!FirstOf(S, n)
             Rest == S \ F
             T == {Below(x) : x \in Rest}
  <1>1. S \subseteq Int /\ IsFiniteSet(S)
    BY AdministrationAssumption, FS_Subset
  <1>2. F = {s \in S : Cardinality(Below(s)) < n}
    BY SameCardinality DEF Rotation!FirstOf
  <1> SUFFICES ASSUME Rest # {} PROVE FALSE
    OBVIOUS
  <1>3. T \subseteq FiniteSubsetsOf(S) /\ T # {}
    <2>1. \A x : Below(x) \subseteq S /\ IsFiniteSet(Below(x))
      BY <1>1, FS_Subset
    <2>2. T \subseteq FiniteSubsetsOf(S)
      <3> HIDE DEF Below, Rest
      <3> QED BY <2>1 DEF FiniteSubsetsOf
    <2> QED BY <2>2
  <1>4. PICK D \in T : \A E \in T : ~(<<E, D>> \in StrictSubsetOrdering(S))
    <2> HIDE DEF T
    <2> QED BY <1>1, <1>3, FS_StrictSubsetOrderingWellFounded, WFMin
  <1>5. PICK x \in Rest : D = Below(x)
    BY <1>4
  <1>6. ASSUME NEW y \in Below(x) PROVE y \in F
    <2> SUFFICES ASSUME y \in Rest PROVE FALSE
      BY <1>6
    <2>1. y < x /\ ~(y < y) /\ \A z \in S : z < y => z < x
      BY <1>1, <1>6
    <2>2. Below(y) \subseteq Below(x) /\ y \in Below(x) /\ y \notin Below(y)
      BY <2>1, <1>6
    <2>3. Below(y) \in T /\ Below(y) \subseteq S /\ Below(x) \subseteq S
      OBVIOUS
    <2> HIDE DEF Below, T
    <2> QED BY <1>4, <1>5, <2>2, <2>3 DEF StrictSubsetOrdering
  <1>7. Cardinality(Below(x)) < n
    <2>1. IsFiniteSet(F) /\ Below(x) \subseteq F
      BY <1>1, <1>2, <1>6, FS_Subset
    <2>2. Cardinality(Below(x)) <= Cardinality(F) /\ IsFiniteSet(Below(x))
      BY <2>1, FS_Subset
    <2>3. Cardinality(F) < n
      BY SameCardinality
    <2>4. Cardinality(F) \in Nat /\ Cardinality(Below(x)) \in Nat
      BY <2>1, <2>2, FS_CardinalityType
    <2> QED BY <2>2, <2>3, <2>4
  <1> QED BY <1>2, <1>5, <1>7

\* What the batch read is what is stored, or the row got a newer ciphertext.
BatchInv ==
    rotation # None =>
        /\ rotation.slots \subseteq Slots
        /\ \A s \in rotation.slots :
              /\ rotation.read[s] \in Secret /\ rotation.read[s].nonce < written
              /\ secrets[s] # None /\ secrets[s].nonce = rotation.read[s].nonce
                     => secrets[s].value = rotation.read[s].value
        /\ Cardinality(rotation.slots) < BatchSize => Rotation!Outdated \subseteq rotation.slots

\* A row that was loaded under the current master key still is under it.
WriterInv ==
    writer # None =>
        /\ writer.slot \in Slots /\ writer.row \in Secret \cup {None}
        /\ writer.row # None /\ writer.row.version = ring.current =>
              secrets[writer.slot] # None /\ secrets[writer.slot].version = ring.current

SecretsType ==
    /\ secrets \in [Slots -> Secret \cup {None}]
    /\ saved \in [Slots -> Values \cup {None}]
    /\ ring \in [current : Nat, previous : SUBSET Nat]
    /\ written \in Nat /\ complete \in BOOLEAN

RotationInv ==
    /\ SecretsType /\ BatchInv /\ WriterInv
    /\ \A s \in Slots : secrets[s] # None => secrets[s].nonce < written
    /\ complete => Rotation!Outdated = {}
    /\ Rotation!KeysReadable

LEMMA RotationStart == Rotation!RotationInit => RotationInv
  <1> SUFFICES ASSUME Rotation!RotationInit PROVE RotationInv
    OBVIOUS
  <1>1. secrets \in [Slots -> {None} \cup [value : Values, version : {1}, nonce : {0}]]
    BY DEF Rotation!RotationInit
  <1>2. \A s \in Slots : secrets[s] # None =>
            /\ secrets[s] \in Secret /\ secrets[s].value \in Values
            /\ secrets[s].version = 1 /\ secrets[s].nonce = 0
    BY <1>1 DEF Secret
  <1>3. ring = [current |-> 1, previous |-> {}] /\ rotation = None /\ writer = None
        /\ written = 1 /\ complete = FALSE
        /\ saved = [s \in Slots |-> IF secrets[s] = None THEN None ELSE secrets[s].value]
    BY DEF Rotation!RotationInit
  <1>4. SecretsType
    BY <1>1, <1>2, <1>3 DEF SecretsType
  <1>5. Rotation!KeysReadable
    BY <1>2, <1>3, AdministrationAssumption DEF Rotation!KeysReadable, Rotation!Decryptable
  <1> QED BY <1>2, <1>3, <1>4, <1>5 DEF RotationInv, BatchInv, WriterInv

\* What the steps say of the ring.
LEMMA RotationTyped ==
    ASSUME RotationInv
    PROVE  /\ SecretsType
           /\ \A s \in Slots : secrets[s] \in Secret \cup {None} /\ saved[s] \in Values \cup {None}
           /\ ring.current \in Nat /\ ring.previous \subseteq Nat
           /\ \A value \in Values : Rotation!Encrypted(value) \in Secret
           /\ None \notin Secret /\ None \notin Values
  <1>1. SecretsType
    BY DEF RotationInv
  <1>2. ring.current \in Nat /\ ring.previous \subseteq Nat /\ written \in Nat
    BY <1>1 DEF SecretsType
  <1>3. \A value \in Values : Rotation!Encrypted(value) \in Secret
    BY <1>2 DEF Rotation!Encrypted, Secret
  <1> QED BY <1>1, <1>2, <1>3, AdministrationAssumption DEF SecretsType, Secret

LEMMA RotationDeploy ==
    ASSUME RotationInv, Rotation!DeployKey PROVE RotationInv'
  <1> USE DEF Rotation!DeployKey
  <1>1. /\ ring'.current = ring.current + 1 /\ ring'.previous = ring.previous \cup {ring.current}
        /\ ring' \in [current : Nat, previous : SUBSET Nat]
    BY RotationTyped
  <1>2. SecretsType'
    BY <1>1, RotationTyped DEF SecretsType
  <1>3. Rotation!KeysReadable'
    BY <1>1, RotationTyped DEF RotationInv, Rotation!KeysReadable, Rotation!Decryptable
  <1> QED BY <1>2, <1>3 DEF RotationInv, BatchInv, WriterInv

\* Only when nothing is left under an old key are the old keys dropped.
LEMMA RotationRetire ==
    ASSUME RotationInv, Rotation!RetireKeys PROVE RotationInv'
  <1> USE DEF Rotation!RetireKeys
  <1>1. /\ ring'.current = ring.current /\ ring'.previous = {}
        /\ ring' \in [current : Nat, previous : SUBSET Nat]
    BY RotationTyped DEF SecretsType
  <1>2. SecretsType'
    BY <1>1, RotationTyped DEF SecretsType
  <1>3. \A s \in Slots : secrets[s] # None => secrets[s].version = ring.current
    BY DEF RotationInv, Rotation!Outdated
  <1>4. Rotation!KeysReadable'
    BY <1>1, <1>3 DEF RotationInv, Rotation!KeysReadable, Rotation!Decryptable
  <1> QED BY <1>2, <1>4 DEF RotationInv, BatchInv, WriterInv

LEMMA RotationRead ==
    ASSUME RotationInv, Rotation!ReadBatch PROVE RotationInv'
  <1> DEFINE batch == Rotation!FirstOf(Rotation!Outdated, BatchSize)
  <1>1. /\ rotation'.slots = batch
        /\ \A s \in batch : rotation'.read[s] = secrets[s]
        /\ UNCHANGED <<secrets, ring, complete, writer, saved, written>>
    BY DEF Rotation!ReadBatch
  <1>2. batch \subseteq Rotation!Outdated /\ Rotation!Outdated \subseteq Slots
    BY DEF Rotation!FirstOf, Rotation!Outdated
  <1>3. \A s \in batch : secrets[s] \in Secret /\ secrets[s].nonce < written
    BY <1>2, RotationTyped DEF RotationInv, Rotation!Outdated
  <1>4. Cardinality(batch) < BatchSize => Rotation!Outdated \subseteq batch
    BY <1>2, FirstOfAll, SameCardinality, AdministrationAssumption
  <1>5. Rotation!Outdated' = Rotation!Outdated
    BY <1>1 DEF Rotation!Outdated
  <1>6. BatchInv'
    <2> HIDE DEF batch
    <2> QED BY <1>1, <1>2, <1>3, <1>4, <1>5 DEF BatchInv
  <1> QED BY <1>1, <1>5, <1>6 DEF RotationInv, SecretsType, WriterInv, Rotation!KeysReadable, Rotation!Decryptable

LEMMA RotationStop ==
    ASSUME RotationInv, Rotation!StopRotation PROVE RotationInv'
  BY DEF Rotation!StopRotation, RotationInv, SecretsType, BatchInv, WriterInv,
         Rotation!Outdated, Rotation!KeysReadable, Rotation!Decryptable

LEMMA RotationLoad ==
    ASSUME RotationInv, Rotation!LoadRow PROVE RotationInv'
  <1>1. PICK s \in Slots : writer' = [slot |-> s, row |-> secrets[s]]
    BY DEF Rotation!LoadRow
  <1>2. UNCHANGED <<secrets, ring, rotation, complete, saved, written>>
    BY DEF Rotation!LoadRow
  <1>3. WriterInv'
    BY <1>1, <1>2, RotationTyped DEF WriterInv
  <1> QED BY <1>2, <1>3 DEF RotationInv, SecretsType, BatchInv,
         Rotation!Outdated, Rotation!KeysReadable, Rotation!Decryptable

\* The rows the compared update hits get the value they had, under the new key.
LEMMA RotationSave ==
    ASSUME RotationInv, Rotation!SaveBatch PROVE RotationInv'
  <1> DEFINE R == Rotation!Replaceable
             new(s) == Rotation!Encrypted(rotation.read[s].value)
  <1>1. /\ rotation # None /\ rotation' = None
        /\ secrets' = [s \in Slots |-> IF s \in R THEN new(s) ELSE secrets[s]]
        /\ written' = IF R = {} THEN written ELSE written + 1
        /\ complete' = (Rotation!Cardinality(rotation.slots) < BatchSize /\ R = rotation.slots)
        /\ UNCHANGED <<ring, writer, saved>>
    BY DEF Rotation!SaveBatch
  <1>2. R \subseteq Slots /\ R \subseteq rotation.slots
    BY <1>1 DEF RotationInv, BatchInv, Rotation!Replaceable
  <1>3. \A s \in R : /\ secrets[s] # None /\ rotation.read[s].value \in Values
                      /\ secrets[s].value = rotation.read[s].value
    BY <1>1, <1>2 DEF RotationInv, BatchInv, Rotation!Replaceable, Secret
  <1>4. \A s \in R : /\ new(s) \in Secret /\ new(s).value = secrets[s].value
                      /\ new(s).version = ring.current /\ new(s).nonce = written
    BY <1>3, RotationTyped DEF Rotation!Encrypted
  <1> HIDE DEF R, new
  <1>5. SecretsType'
    BY <1>1, <1>4, RotationTyped DEF SecretsType
  <1>6. \A s \in Slots : secrets'[s] # None => secrets'[s].nonce < written'
    <2>1. R # {} => written' > written
      BY <1>1, RotationTyped DEF SecretsType
    <2>2. \A s \in Slots : secrets[s] # None => secrets[s].nonce < written /\ secrets[s].nonce \in Nat
      BY RotationTyped DEF RotationInv, Secret
    <2> QED BY <1>1, <1>4, <2>1, <2>2, RotationTyped DEF SecretsType
  <1>7. complete' => Rotation!Outdated' = {}
    <2> SUFFICES ASSUME complete', NEW s \in Slots, secrets'[s] # None
                 PROVE  secrets'[s].version = ring'.current
      BY DEF Rotation!Outdated
    <2>1. Cardinality(rotation.slots) < BatchSize /\ R = rotation.slots
      BY <1>1, SameCardinality
    <2>2. Rotation!Outdated \subseteq R
      BY <1>1, <2>1 DEF RotationInv, BatchInv
    <2> QED BY <1>1, <1>4, <2>2 DEF Rotation!Outdated
  <1>8. WriterInv'
    BY <1>1, <1>4, RotationTyped DEF RotationInv, WriterInv
  <1>9. Rotation!KeysReadable'
    BY <1>1, <1>3, <1>4, RotationTyped DEF RotationInv, Rotation!KeysReadable, Rotation!Decryptable
  <1> QED BY <1>1, <1>5, <1>6, <1>7, <1>8, <1>9 DEF RotationInv, BatchInv

\* A saved key is under the current master key, whichever columns were written.
LEMMA RotationSaveKey ==
    ASSUME RotationInv, Rotation!SaveKey PROVE RotationInv'
  <1>1. PICK value \in Values :
          LET fresh == Rotation!Encrypted(value)
              kept == writer.row # None /\ writer.row.version = fresh.version
          IN  /\ secrets' = [secrets EXCEPT ![writer.slot] =
                    IF kept THEN [fresh EXCEPT !.version = secrets[writer.slot].version] ELSE fresh]
              /\ saved' = [saved EXCEPT ![writer.slot] = value]
    BY DEF Rotation!SaveKey
  <1>2. /\ writer # None /\ writer' = None /\ written' = written + 1
        /\ UNCHANGED <<ring, rotation, complete>>
    BY DEF Rotation!SaveKey
  <1> DEFINE fresh == Rotation!Encrypted(value)
             w == writer.slot
  <1>3. /\ fresh \in Secret /\ fresh.value = value /\ fresh.version = ring.current
        /\ fresh.nonce = written
        /\ fresh = [value |-> value, version |-> ring.current, nonce |-> written]
    BY RotationTyped DEF Rotation!Encrypted
  <1>4. w \in Slots
    BY <1>2 DEF RotationInv, WriterInv
  <1>5. secrets'[w] = fresh /\ \A s \in Slots \ {w} : secrets'[s] = secrets[s]
    <2>1. CASE writer.row # None /\ writer.row.version = fresh.version
      <3>1. secrets[w].version = ring.current
        BY <1>2, <1>3, <2>1 DEF RotationInv, WriterInv
      <3>2. [fresh EXCEPT !.version = secrets[w].version] = fresh
        BY <1>3, <3>1
      <3> QED BY <1>1, <1>4, <2>1, <3>2, RotationTyped DEF SecretsType
    <2>2. CASE ~(writer.row # None /\ writer.row.version = fresh.version)
      BY <1>1, <1>4, <2>2, RotationTyped DEF SecretsType
    <2> QED BY <2>1, <2>2
  <1>6. saved'[w] = value /\ (\A s \in Slots \ {w} : saved'[s] = saved[s])
        /\ saved' \in [Slots -> Values \cup {None}]
    BY <1>1, <1>4, RotationTyped DEF SecretsType
  <1>7. secrets' \in [Slots -> Secret \cup {None}]
    <2>1. DOMAIN secrets' = Slots /\ secrets' = [s \in DOMAIN secrets' |-> secrets'[s]]
      BY <1>1, RotationTyped DEF SecretsType
    <2> QED BY <1>3, <1>5, <2>1, RotationTyped
  <1> HIDE DEF fresh, w
  <1>8. SecretsType'
    BY <1>2, <1>6, <1>7, RotationTyped DEF SecretsType
  <1>9. \A s \in Slots : secrets'[s] # None => secrets'[s].nonce < written'
    <2>1. \A s \in Slots : secrets[s] # None => secrets[s].nonce < written /\ secrets[s].nonce \in Nat
      BY RotationTyped DEF RotationInv, Secret
    <2> QED BY <1>2, <1>3, <1>5, <2>1, RotationTyped DEF SecretsType
  <1>10. Rotation!Outdated' \subseteq Rotation!Outdated
    BY <1>2, <1>3, <1>5, RotationTyped DEF Rotation!Outdated
  <1>11. BatchInv'
    <2> SUFFICES ASSUME rotation # None
                 PROVE  \A s \in rotation.slots :
                          /\ rotation.read[s].nonce < written'
                          /\ secrets'[s] # None /\ secrets'[s].nonce = rotation.read[s].nonce
                                 => secrets'[s].value = rotation.read[s].value
      BY <1>2, <1>10 DEF RotationInv, BatchInv
    <2> TAKE s \in rotation.slots
    <2>1. s \in Slots /\ rotation.read[s] \in Secret /\ rotation.read[s].nonce < written
      BY DEF RotationInv, BatchInv
    <2>2. rotation.read[s].nonce \in Nat /\ written \in Nat
      BY <2>1, RotationTyped DEF Secret, SecretsType
    <2>3. CASE s = w
      BY <1>2, <1>3, <1>5, <2>1, <2>2, <2>3
    <2>4. CASE s # w
      BY <1>2, <1>5, <2>1, <2>2, <2>4 DEF RotationInv, BatchInv
    <2> QED BY <2>3, <2>4
  <1>12. Rotation!KeysReadable'
    BY <1>2, <1>3, <1>4, <1>5, <1>6, RotationTyped
    DEF RotationInv, Rotation!KeysReadable, Rotation!Decryptable
  <1> QED BY <1>2, <1>8, <1>9, <1>10, <1>11, <1>12 DEF RotationInv, WriterInv

LEMMA RotationClear ==
    ASSUME RotationInv, Rotation!ClearKey PROVE RotationInv'
  <1>1. /\ writer # None /\ writer' = None
        /\ secrets' = [secrets EXCEPT ![writer.slot] = None]
        /\ saved' = [saved EXCEPT ![writer.slot] = None]
        /\ UNCHANGED <<ring, rotation, complete, written>>
    BY DEF Rotation!ClearKey
  <1>2. writer.slot \in Slots
    BY <1>1 DEF RotationInv, WriterInv
  <1>3. /\ secrets' \in [Slots -> Secret \cup {None}] /\ saved' \in [Slots -> Values \cup {None}]
        /\ secrets'[writer.slot] = None /\ saved'[writer.slot] = None
        /\ \A s \in Slots \ {writer.slot} : secrets'[s] = secrets[s] /\ saved'[s] = saved[s]
    BY <1>1, <1>2, RotationTyped DEF SecretsType
  <1>4. Rotation!Outdated' \subseteq Rotation!Outdated
    BY <1>1, <1>3 DEF Rotation!Outdated
  <1>5. BatchInv'
    BY <1>1, <1>3, <1>4 DEF RotationInv, BatchInv
  <1>6. Rotation!KeysReadable'
    BY <1>1, <1>3 DEF RotationInv, Rotation!KeysReadable, Rotation!Decryptable
  <1> QED BY <1>1, <1>3, <1>4, <1>5, <1>6, RotationTyped DEF RotationInv, WriterInv, SecretsType

LEMMA RotationStep ==
    ASSUME RotationInv, [Rotation!RotationNext]_rotationVars PROVE RotationInv'
  <1>1. CASE UNCHANGED rotationVars
    BY <1>1 DEF rotationVars, RotationInv, SecretsType, BatchInv, WriterInv, Rotation!Outdated,
                Rotation!KeysReadable, Rotation!Decryptable
  <1>2. CASE Rotation!RotationNext
    BY <1>2, RotationDeploy, RotationRetire, RotationRead, RotationSave, RotationStop,
       RotationLoad, RotationSaveKey, RotationClear DEF Rotation!RotationNext
  <1> QED BY <1>1, <1>2

-----------------------------------------------------------------------------
(* Sessions.                                                               *)

\* A token was made for the member as it was at that revision; an ended login
\* has no row that counts.
LoginInv(l) ==
    /\ login[l] = [pc |-> login[l].pc, user |-> login[l].user]
    /\ login[l].pc \in {"store", "in"} =>
          /\ tokens[l].revision \in Nat /\ tokens[l].revision <= member.revision
          /\ tokens[l].revision = member.revision => login[l].user = member
    /\ l \in ended => login[l].pc = "in" /\ (sessions[l] = None \/ sessions[l].revoked)
    /\ sessions[l] # None => "revoked" \in DOMAIN sessions[l]
    /\ streams[l] # None =>
          /\ streams[l].next \in Int /\ streams[l].since \in Int
          /\ streams[l].next <= streams[l].since + Recheck

AccountInv ==
    /\ login = [l \in Logins |-> login[l]] /\ sessions = [l \in Logins |-> sessions[l]]
    /\ tokens = [l \in Logins |-> tokens[l]] /\ streams = [l \in Logins |-> streams[l]]
    /\ member.revision \in Nat /\ now \in Nat
    /\ late \in Int /\ late < Recheck
    /\ \A l \in Logins : LoginInv(l)

LEMMA AccountStart == Account!AccountInit => AccountInv
  <1> SUFFICES ASSUME Account!AccountInit PROVE AccountInv
    OBVIOUS
  <1>1. member.revision = 1 /\ now = 0 /\ ended = {} /\ late = 0
    BY DEF Account!AccountInit
  <1>2. /\ login = [l \in Logins |-> [pc |-> "idle", user |-> None]]
        /\ sessions = [l \in Logins |-> None] /\ tokens = [l \in Logins |-> None]
        /\ streams = [l \in Logins |-> None]
    BY DEF Account!AccountInit, Account!NoLogin
  <1>3. ASSUME NEW l \in Logins PROVE LoginInv(l)
    BY <1>1, <1>2 DEF LoginInv
  <1> QED BY <1>1, <1>2, <1>3, AdministrationAssumption DEF AccountInv

\* A login that moves to a stage without a token.
LEMMA LoginMoves ==
    ASSUME AccountInv, NEW l \in Logins, NEW next,
           login' = [login EXCEPT ![l] = next], next = [pc |-> next.pc, user |-> next.user],
           next.pc \notin {"store", "in"}, login[l].pc # "in",
           UNCHANGED <<member, sessions, tokens, streams, now, ended, late>>
    PROVE  AccountInv'
  <1>1. login'[l] = next /\ \A k \in Logins \ {l} : login'[k] = login[k]
    BY DEF AccountInv
  <1>2. login' = [k \in Logins |-> login'[k]]
    BY DEF AccountInv
  <1>3. ASSUME NEW k \in Logins PROVE LoginInv(k)'
    <2>1. CASE k = l
      BY <1>1, <2>1 DEF AccountInv, LoginInv
    <2>2. CASE k # l
      BY <1>1, <2>2 DEF AccountInv, LoginInv
    <2> QED BY <2>1, <2>2
  <1> QED BY <1>2, <1>3 DEF AccountInv

LEMMA AccountConsume ==
    ASSUME AccountInv, NEW l \in Logins, Account!Consume(l) PROVE AccountInv'
  <1>1. CASE UNCHANGED login
    BY <1>1 DEF Account!Consume, AccountInv, LoginInv
  <1>2. CASE Account!Goto(l, "password")
    <2> DEFINE next == [login[l] EXCEPT !.pc = "password"]
    <2>1. login' = [login EXCEPT ![l] = next]
      BY <1>2 DEF Account!Goto
    <2>2. next = [pc |-> next.pc, user |-> next.user] /\ next.pc = "password"
      BY DEF AccountInv, LoginInv
    <2> HIDE DEF next
    <2> QED BY <2>1, <2>2, LoginMoves DEF Account!Consume
  <1> QED BY <1>1, <1>2 DEF Account!Consume

LEMMA AccountAuthenticate ==
    ASSUME AccountInv, NEW l \in Logins, Account!Authenticate(l) PROVE AccountInv'
  <1>1. PICK next : /\ login' = [login EXCEPT ![l] = next]
                    /\ next \in {[pc |-> "reset", user |-> member], Account!NoLogin}
    BY DEF Account!Authenticate, Account!Give
  <1>2. next = [pc |-> next.pc, user |-> next.user] /\ next.pc \in {"reset", "idle"}
    BY <1>1 DEF Account!NoLogin
  <1> QED BY <1>1, <1>2, LoginMoves DEF Account!Authenticate

LEMMA AccountReset ==
    ASSUME AccountInv, NEW l \in Logins, Account!ResetLimiter(l) PROVE AccountInv'
  <1> DEFINE next == [login[l] EXCEPT !.pc = "session"]
  <1>1. login' = [login EXCEPT ![l] = next]
    BY DEF Account!ResetLimiter, Account!Goto
  <1>2. next = [pc |-> next.pc, user |-> next.user] /\ next.pc = "session"
    BY DEF AccountInv, LoginInv
  <1> HIDE DEF next
  <1> QED BY <1>1, <1>2, LoginMoves DEF Account!ResetLimiter

\* The account is still the one whose password was checked.
LEMMA AccountToken ==
    ASSUME AccountInv, NEW l \in Logins, Account!CreateToken(l) PROVE AccountInv'
  <1>1. CASE member = login[l].user
    <2> DEFINE token == [role |-> member.role, revision |-> member.revision,
                         issued |-> now, expires |-> now + TTL]
    <2>1. /\ tokens' = [tokens EXCEPT ![l] = token]
          /\ login' = [login EXCEPT ![l].pc = "store"]
          /\ UNCHANGED <<member, sessions, streams, now, ended, late>>
          /\ login[l].pc = "session"
      BY <1>1 DEF Account!CreateToken, Account!Goto
    <2>2. /\ login'[l].pc = "store" /\ login'[l].user = member
          /\ login'[l] = [pc |-> "store", user |-> login[l].user]
          /\ tokens'[l].revision = member.revision
      BY <1>1, <2>1 DEF AccountInv, LoginInv
    <2>3. \A k \in Logins \ {l} : login'[k] = login[k] /\ tokens'[k] = tokens[k]
      BY <2>1 DEF AccountInv
    <2>4. login' = [k \in Logins |-> login'[k]] /\ tokens' = [k \in Logins |-> tokens'[k]]
      BY <2>1 DEF AccountInv
    <2> HIDE DEF token
    <2>5. ASSUME NEW k \in Logins PROVE LoginInv(k)'
      <3>1. CASE k = l
        BY <2>1, <2>2, <3>1 DEF AccountInv, LoginInv
      <3>2. CASE k # l
        BY <2>1, <2>3, <3>2 DEF AccountInv, LoginInv
      <3> QED BY <3>1, <3>2
    <2> QED BY <2>1, <2>4, <2>5 DEF AccountInv
  <1>2. CASE member # login[l].user
    <2>1. login' = [login EXCEPT ![l] = Account!NoLogin] /\ UNCHANGED tokens
      BY <1>2 DEF Account!CreateToken, Account!Give
    <2> QED BY <2>1, LoginMoves DEF Account!CreateToken, Account!NoLogin
  <1> QED BY <1>1, <1>2

LEMMA AccountStore ==
    ASSUME AccountInv, NEW l \in Logins, Account!StoreSession(l) PROVE AccountInv'
  <1>1. /\ sessions' = [k \in Logins |->
              IF k = l THEN [role |-> tokens[l].role, expires |-> tokens[l].expires, revoked |-> FALSE]
              ELSE IF sessions[k] # None /\ sessions[k].expires <= tokens[l].issued THEN None
              ELSE sessions[k]]
        /\ login' = [login EXCEPT ![l].pc = "in"] /\ login[l].pc = "store"
        /\ UNCHANGED <<member, tokens, streams, now, ended, late>>
    BY DEF Account!StoreSession, Account!Goto
  <1>2. login'[l] = [pc |-> "in", user |-> login[l].user]
    BY <1>1 DEF AccountInv, LoginInv
  <1>3. /\ \A k \in Logins \ {l} : login'[k] = login[k] /\ sessions'[k] \in {None, sessions[k]}
        /\ login' = [k \in Logins |-> login'[k]] /\ sessions' = [k \in Logins |-> sessions'[k]]
    BY <1>1 DEF AccountInv
  <1>4. ASSUME NEW k \in Logins PROVE LoginInv(k)'
    <2>1. CASE k = l
      <3>1. sessions'[l] = [role |-> tokens[l].role, expires |-> tokens[l].expires, revoked |-> FALSE]
        BY <1>1
      <3>2. l \notin ended
        BY <1>1 DEF AccountInv, LoginInv
      <3>3. LoginInv(l)
        BY DEF AccountInv
      <3>4. LoginInv(l)'
        BY <1>1, <1>2, <3>1, <3>2, <3>3 DEF LoginInv
      <3> QED BY <2>1, <3>4
    <2>2. CASE k # l
      <3>1. LoginInv(k)
        BY DEF AccountInv
      <3> QED BY <1>1, <1>3, <2>2, <3>1 DEF LoginInv
    <2> QED BY <2>1, <2>2
  <1> QED BY <1>1, <1>3, <1>4 DEF AccountInv

\* Revocations: of one session, of all, and of all with a change of the member.
LEMMA AccountRevoke ==
    ASSUME AccountInv, NEW S \in SUBSET Logins, Account!Revoke(S),
           NEW E, ended' = ended \cup E, \A l \in E : l \in S /\ login[l].pc = "in",
           member'.revision \in Nat,
           member' = member \/ member'.revision > member.revision,
           UNCHANGED <<login, tokens, streams, now, late>>
    PROVE  AccountInv'
  <1>1. /\ sessions' = [l \in Logins |-> sessions'[l]]
        /\ \A l \in Logins : sessions'[l] = IF l \in S /\ sessions[l] # None
                                           THEN [sessions[l] EXCEPT !.revoked = TRUE] ELSE sessions[l]
    BY DEF Account!Revoke
  <1>2. ASSUME NEW l \in Logins PROVE LoginInv(l)'
    <2>1. LoginInv(l)
      BY DEF AccountInv
    <2>2. login[l].pc \in {"store", "in"} =>
            /\ tokens[l].revision <= member'.revision
            /\ tokens[l].revision = member'.revision => login[l].user = member'
      BY <2>1 DEF LoginInv, AccountInv
    <2>3. sessions[l] # None =>
            /\ "revoked" \in DOMAIN [sessions[l] EXCEPT !.revoked = TRUE]
            /\ [sessions[l] EXCEPT !.revoked = TRUE].revoked
      BY <2>1 DEF LoginInv
    <2>4. /\ sessions[l] = None => sessions'[l] = None
          /\ sessions[l] # None /\ sessions[l].revoked => sessions'[l].revoked
          /\ l \in S => sessions'[l] = None \/ sessions'[l].revoked
          /\ sessions'[l] # None => "revoked" \in DOMAIN sessions'[l]
      BY <1>1, <2>1, <2>3 DEF LoginInv
    <2> QED BY <2>1, <2>2, <2>4 DEF LoginInv
  <1> QED BY <1>1, <1>2 DEF AccountInv

LEMMA AccountEnds ==
    ASSUME AccountInv,
           Account!SaveMember \/ \E l \in Logins : Account!Logout(l) \/ Account!RevokeAll(l)
    PROVE  AccountInv'
  <1>1. CASE Account!SaveMember
    <2> DEFINE E == {l \in Logins : login[l].pc = "in"}
    <2>1. /\ member'.revision = member.revision + 1 /\ Account!Revoke(Logins)
          /\ ended' = ended \cup E /\ UNCHANGED <<login, tokens, streams, now, late>>
      BY <1>1 DEF Account!SaveMember
    <2>2. member'.revision \in Nat /\ member'.revision > member.revision
      BY <2>1 DEF AccountInv
    <2>3. \A l \in E : l \in Logins /\ login[l].pc = "in"
      OBVIOUS
    <2> HIDE DEF E
    <2> QED BY <2>1, <2>2, <2>3, AccountRevoke
  <1>2. ASSUME NEW l \in Logins, Account!Logout(l) PROVE AccountInv'
    <2>1. /\ login[l].pc = "in" /\ Account!Revoke({l}) /\ ended' = ended \cup {l}
          /\ UNCHANGED <<member, login, tokens, streams, now, late>>
      BY <1>2 DEF Account!Logout, Account!Accepted
    <2>2. member'.revision \in Nat
      BY <2>1 DEF AccountInv
    <2> QED BY <2>1, <2>2, AccountRevoke
  <1>3. ASSUME NEW l \in Logins, Account!RevokeAll(l) PROVE AccountInv'
    <2> DEFINE E == {k \in Logins : login[k].pc = "in"}
    <2>1. /\ Account!Revoke(Logins) /\ ended' = ended \cup E
          /\ UNCHANGED <<member, login, tokens, streams, now, late>>
      BY <1>3 DEF Account!RevokeAll
    <2>2. member'.revision \in Nat
      BY <2>1 DEF AccountInv
    <2>3. \A k \in E : k \in Logins /\ login[k].pc = "in"
      OBVIOUS
    <2> HIDE DEF E
    <2> QED BY <2>1, <2>2, <2>3, AccountRevoke
  <1> QED BY <1>1, <1>2, <1>3

LEMMA AccountStream ==
    ASSUME AccountInv, NEW l \in Logins, Account!OpenStream(l) \/ Account!Stream(l)
    PROVE  AccountInv'
  <1>1. /\ UNCHANGED <<member, login, sessions, tokens, now, ended>>
        /\ streams' = [k \in Logins |-> streams'[k]]
        /\ \A k \in Logins \ {l} : streams'[k] = streams[k]
    BY DEF AccountInv, Account!OpenStream, Account!Stream
  <1>2. /\ streams'[l] # None =>
              /\ streams'[l].next \in Int /\ streams'[l].since \in Int
              /\ streams'[l].next <= streams'[l].since + Recheck
        /\ late' \in Int /\ late' < Recheck
    <2>0. Recheck \in Nat \ {0} /\ now \in Nat
      BY AdministrationAssumption DEF AccountInv
    <2>1. CASE Account!OpenStream(l)
      <3>1. streams'[l] = [next |-> now, since |-> now] /\ late' = late
        BY <2>1 DEF AccountInv, Account!OpenStream
      <3> QED BY <2>0, <3>1 DEF AccountInv
    <2>2. CASE Account!Stream(l)
      <3> DEFINE checks == now >= streams[l].next
                 stops == now >= tokens[l].expires \/ (checks /\ ~Account!Accepted(l))
      <3>1. streams[l].next \in Int /\ streams[l].since \in Int
            /\ streams[l].next <= streams[l].since + Recheck
        BY <2>2 DEF Account!Stream, AccountInv, LoginInv
      <3>2. CASE stops
        BY <2>2, <3>2 DEF Account!Stream, AccountInv
      <3>3. CASE ~stops
        <4>1. streams'[l] = IF checks THEN [next |-> now + Recheck, since |-> now] ELSE streams[l]
          BY <2>2, <3>3 DEF Account!Stream, AccountInv
        <4>2. late' = IF Account!Accepted(l) \/ now - streams[l].since <= late THEN late
                      ELSE now - streams[l].since
          BY <2>2, <3>3 DEF Account!Stream
        <4>3. ~Account!Accepted(l) => now - streams[l].since < Recheck
          BY <2>0, <3>1, <3>3
        <4> QED BY <2>0, <3>1, <4>1, <4>2, <4>3 DEF AccountInv
      <3> QED BY <3>2, <3>3
    <2> QED BY <2>1, <2>2
  <1>3. ASSUME NEW k \in Logins PROVE LoginInv(k)'
    BY <1>1, <1>2 DEF AccountInv, LoginInv
  <1> QED BY <1>1, <1>2, <1>3 DEF AccountInv

LEMMA AccountStep ==
    ASSUME AccountInv, [Account!AccountNext]_accountVars PROVE AccountInv'
  <1>1. CASE UNCHANGED accountVars
    BY <1>1 DEF accountVars, AccountInv, LoginInv
  <1>2. CASE Account!Tick
    BY <1>2 DEF Account!Tick, AccountInv, LoginInv
  <1>3. CASE Account!AccountNext
    BY <1>2, <1>3, AccountConsume, AccountAuthenticate, AccountReset, AccountToken, AccountStore,
       AccountEnds, AccountStream DEF Account!AccountNext
  <1> QED BY <1>1, <1>3

LEMMA AccessFollows == AccountInv => Account!AccessEnds
  <1> SUFFICES ASSUME AccountInv, NEW l \in Logins, Account!Accepted(l)
               PROVE  l \notin ended /\ login[l].user = member
    BY DEF AccountInv, Account!AccessEnds
  <1> QED BY DEF AccountInv, LoginInv, Account!Accepted

-----------------------------------------------------------------------------
(* Login attempts.                                                         *)

LEMMA SameCounting == \A S : Account!Cardinality(S) = Cardinality(S)
  BY DEF Account!Cardinality, Cardinality

\* The attempts in the span of a window's length that ends with attempt i.
Span(i) == {j \in 1..Len(attempts) : attempts[i] - Window < attempts[j] /\ attempts[j] <= attempts[i]}

\* Since the row was opened there was one attempt at its start and the counted
\* ones after it; of those before, fewer than a full window's are recent.
WindowInv(k) ==
    /\ k < Len(attempts)
    /\ Len(attempts) - k = IF limiter.count > MaxAttempts THEN MaxAttempts ELSE limiter.count
    /\ attempts[k + 1] = limiter.started
    /\ \A j \in 1..k : attempts[j] < limiter.started
    /\ \A j \in k+1..Len(attempts) :
          limiter.started <= attempts[j] /\ attempts[j] < limiter.started + Window
    /\ Cardinality({j \in 1..k : limiter.started - Window < attempts[j]}) < MaxAttempts

LimiterInv ==
    /\ now \in Nat /\ attempts \in Seq(Nat)
    /\ \A i \in 1..Len(attempts) : attempts[i] <= now
    /\ limiter \in {None} \cup [count : Nat, started : Nat]
    /\ limiter = None => attempts = <<>>
    /\ limiter # None => limiter.count > 0 /\ \E k \in Nat : WindowInv(k)
    /\ \A i \in 1..Len(attempts) : Cardinality(Span(i)) < 2 * MaxAttempts

\* Subsets of an interval are no larger than it.
LEMMA IntervalBound ==
    ASSUME NEW a \in Int, NEW b \in Int, a <= b + 1, NEW S \in SUBSET (a..b)
    PROVE  IsFiniteSet(S) /\ Cardinality(S) \in Nat /\ Cardinality(S) <= b - a + 1
  <1>1. IsFiniteSet(a..b) /\ Cardinality(a..b) = b - a + 1
    BY FS_Interval
  <1> QED BY <1>1, FS_Subset, FS_CardinalityType

\* The span of an attempt of the current window: what is left of the earlier
\* ones, and the window's own.
LEMMA SpanOfWindow ==
    ASSUME NEW R, IsFiniteSet(R), Cardinality(R) < MaxAttempts,
           NEW B, IsFiniteSet(B), Cardinality(B) <= MaxAttempts,
           NEW S, S \subseteq R \cup B
    PROVE  Cardinality(S) < 2 * MaxAttempts
  <1>0. MaxAttempts \in Nat \ {0}
    BY AdministrationAssumption
  <1>1. /\ IsFiniteSet(R \cup B) /\ IsFiniteSet(R \cap B)
        /\ Cardinality(R \cup B) = Cardinality(R) + Cardinality(B) - Cardinality(R \cap B)
    BY FS_Union, FS_Subset
  <1>2. Cardinality(S) <= Cardinality(R \cup B) /\ IsFiniteSet(S)
    BY <1>1, FS_Subset
  <1>3. Cardinality(S) \in Nat /\ Cardinality(R) \in Nat /\ Cardinality(B) \in Nat
        /\ Cardinality(R \cap B) \in Nat
    BY <1>1, <1>2, FS_CardinalityType
  <1> QED BY <1>0, <1>1, <1>2, <1>3

LEMMA LimiterStart == Account!AccountInit => LimiterInv
  BY DEF Account!AccountInit, LimiterInv

\* An attempt that is let through comes last.
LEMMA Attempted ==
    ASSUME LimiterInv, attempts' = Append(attempts, now)
    PROVE  /\ attempts' \in Seq(Nat) /\ Len(attempts') = Len(attempts) + 1
           /\ Len(attempts) \in Nat
           /\ \A j \in 1..Len(attempts) : attempts'[j] = attempts[j] /\ attempts[j] \in Nat
           /\ attempts'[Len(attempts) + 1] = now
           /\ \A j \in 1..Len(attempts') : attempts'[j] <= now
  BY DEF LimiterInv

\* An attempt opens a window: at most one less than a full window is recent.
LEMMA WindowOpens ==
    ASSUME LimiterInv, Account!Counted = [count |-> 1, started |-> now],
           limiter' = Account!Counted, attempts' = Append(attempts, now), UNCHANGED now,
           limiter = None \/ limiter.started <= now - Window
    PROVE  LimiterInv'
  <1>n. PICK n \in Nat : n = Len(attempts)
    BY Attempted
  <1>a. /\ attempts' \in Seq(Nat) /\ Len(attempts') = n + 1
        /\ \A j \in 1..n : attempts'[j] = attempts[j] /\ attempts[j] \in Nat
        /\ attempts'[n + 1] = now
        /\ \A j \in 1..Len(attempts') : attempts'[j] <= now
    BY <1>n, Attempted
  <1> DEFINE R == {j \in 1..n : now - Window < attempts[j]}
  <1>0. MaxAttempts \in Nat \ {0} /\ Window \in Nat \ {0} /\ now \in Nat /\ n \in Nat
    BY AdministrationAssumption DEF LimiterInv
  <1>1. /\ limiter' = [count |-> 1, started |-> now] /\ limiter'.count = 1 /\ limiter'.started = now
        /\ limiter' \in [count : Nat, started : Nat] /\ limiter' # None
    BY <1>0, AdministrationAssumption
  <1>2. IsFiniteSet(R) /\ Cardinality(R) < MaxAttempts /\ \A j \in 1..n : attempts[j] < now
    <2>1. CASE limiter = None
      <3>1. n = 0 /\ R = {}
        BY <1>n, <2>1 DEF LimiterInv
      <3> QED BY <1>0, <3>1, FS_EmptySet
    <2>2. CASE limiter # None
      <3>1. PICK k \in Nat : WindowInv(k)
        BY <2>2 DEF LimiterInv
      <3>2. limiter.started \in Nat /\ limiter.started <= now - Window
        BY <2>2 DEF LimiterInv
      <3>3. \A j \in 1..n : attempts[j] \in Nat
        BY <1>a
      <3>4. \A j \in 1..n : attempts[j] < now
        <4> SUFFICES ASSUME NEW j \in 1..n PROVE attempts[j] < now
          OBVIOUS
        <4>1. j \in 1..k \/ j \in k+1..n
          BY <1>0
        <4>2. attempts[j] < limiter.started + Window
          BY <1>n, <1>0, <3>1, <3>2, <3>3, <4>1 DEF WindowInv
        <4> QED BY <1>0, <3>2, <3>3, <4>2
      <3>5. R \subseteq k+2..n
        BY <1>n, <1>0, <3>1, <3>2, <3>3 DEF WindowInv
      <3>6. k < n /\ n - k <= MaxAttempts
        BY <1>n, <1>0, <3>1, <2>2 DEF WindowInv, LimiterInv
      <3>7. IsFiniteSet(R) /\ Cardinality(R) \in Nat /\ Cardinality(R) <= n - (k + 2) + 1
        <4>1. k + 2 \in Int /\ n \in Int /\ k + 2 <= n + 1
          BY <1>0, <3>6
        <4> HIDE DEF R
        <4> QED BY <3>5, <4>1, IntervalBound
      <3> QED BY <1>0, <3>4, <3>6, <3>7
    <2> QED BY <2>1, <2>2
  <1>3. WindowInv(n)'
    <2>1. {j \in 1..n : now - Window < attempts'[j]} = R
      BY <1>a
    <2>2. Len(attempts') = n + 1 /\ attempts'[n + 1] = now
      BY <1>a
    <2>3. \A j \in 1..n : attempts'[j] < now
      BY <1>2, <1>a
    <2>4. n + 1..Len(attempts') = {n + 1} /\ n < Len(attempts') /\ Len(attempts') - n = 1
      BY <1>0, <2>2
    <2> HIDE DEF R
    <2>5. ~(limiter'.count > MaxAttempts) /\ now < now + Window /\ now <= now
      BY <1>0, <1>1
    <2>6. Cardinality({j \in 1..n : limiter'.started - Window < attempts'[j]}) < MaxAttempts
      BY <1>1, <1>2, <2>1
    <2>7. \A j \in n + 1..Len(attempts') :
            limiter'.started <= attempts'[j] /\ attempts'[j] < limiter'.started + Window
      BY <1>1, <2>2, <2>4, <2>5
    <2>8. \A j \in 1..n : attempts'[j] < limiter'.started
      BY <1>1, <2>3
    <2>9. Len(attempts') - n = IF limiter'.count > MaxAttempts THEN MaxAttempts ELSE limiter'.count
      BY <1>1, <2>4, <2>5
    <2>10. attempts'[n + 1] = limiter'.started
      BY <1>1, <2>2
    <2> QED BY <2>4, <2>6, <2>7, <2>8, <2>9, <2>10 DEF WindowInv
  <1>4. ASSUME NEW i \in 1..Len(attempts') PROVE Cardinality(Span(i)') < 2 * MaxAttempts
    <2>1. CASE i \in 1..n
      <3>1. Span(i)' = Span(i)
        <4>1. attempts'[i] = attempts[i] /\ attempts[i] < now /\ attempts[i] \in Nat
          BY <1>2, <2>1, <1>a
        <4>2. ~(now <= attempts[i])
          BY <1>0, <4>1
        <4>3. 1..Len(attempts') = 1..n \cup {n + 1}
          BY <1>0, <1>a
        <4> QED BY <4>1, <4>2, <4>3, <1>n, <1>a DEF Span
      <3> QED BY <1>n, <2>1, <3>1 DEF LimiterInv
    <2>2. CASE i = n + 1
      <3> DEFINE Q == {j \in 1..n : now - Window < attempts'[j]}
      <3>1. attempts'[i] = now /\ Span(i)' \subseteq Q \cup (n+1..n+1)
        BY <1>0, <2>2, <1>n, <1>a DEF Span
      <3>2. Cardinality(Q) < MaxAttempts /\ Q \subseteq 1..n
        BY <1>3, <1>1 DEF WindowInv
      <3>3. IsFiniteSet(Q)
        <4>1. IsFiniteSet(1..n)
          BY <1>0, FS_Interval
        <4> HIDE DEF Q
        <4> QED BY <3>2, <4>1, FS_Subset
      <3>4. IsFiniteSet(n+1..n+1) /\ Cardinality(n+1..n+1) <= MaxAttempts
        <4>1. n+1..n+1 = {n+1}
          BY <1>0
        <4>2. IsFiniteSet({n+1}) /\ Cardinality({n+1}) = 1
          BY FS_Singleton
        <4> HIDE DEF Q
        <4> QED BY <1>0, <4>1, <4>2
      <3> HIDE DEF Q
      <3> QED BY <3>1, <3>2, <3>3, <3>4, SpanOfWindow
    <2> QED BY <1>0, <2>1, <2>2, <1>a
  <1> QED BY <1>0, <1>1, <1>3, <1>4, <1>a DEF LimiterInv

\* A further attempt of the window.
LEMMA WindowCounts ==
    ASSUME LimiterInv, limiter # None, ~(limiter.started <= now - Window),
           limiter.count < MaxAttempts, limiter' = [limiter EXCEPT !.count = @ + 1],
           attempts' = Append(attempts, now), UNCHANGED now
    PROVE  LimiterInv'
  <1> DEFINE n == Len(attempts)
  <1>0. MaxAttempts \in Nat \ {0} /\ Window \in Nat \ {0} /\ now \in Nat /\ n \in Nat
    BY AdministrationAssumption, Attempted DEF LimiterInv
  <1>1. /\ limiter.count \in Nat /\ limiter.started \in Nat
        /\ limiter'.count = limiter.count + 1 /\ limiter'.started = limiter.started
        /\ limiter' \in [count : Nat, started : Nat] /\ limiter' # None
    BY AdministrationAssumption DEF LimiterInv
  <1>2. PICK k \in Nat : WindowInv(k)
    BY DEF LimiterInv
  <1>3. k < n /\ n - k = limiter.count
    BY <1>0, <1>1, <1>2 DEF WindowInv
  <1>4. limiter.started <= now /\ now < limiter.started + Window
    <2>0. k + 1 \in 1..n
      BY <1>0, <1>3
    <2>1. attempts[k + 1] <= now /\ attempts[k + 1] = limiter.started
      BY <1>2, <2>0 DEF LimiterInv, WindowInv
    <2> QED BY <1>0, <1>1, <2>1
  <1>5. WindowInv(k)'
    <2>1. {j \in 1..k : limiter'.started - Window < attempts'[j]} =
          {j \in 1..k : limiter.started - Window < attempts[j]}
      BY <1>0, <1>1, <1>3, Attempted, SMTT(30)
    <2>2. Cardinality({j \in 1..k : limiter.started - Window < attempts[j]}) < MaxAttempts
      BY <1>2 DEF WindowInv
    <2>3. \A j \in 1..k : attempts'[j] < limiter'.started
      BY <1>0, <1>1, <1>2, <1>3, Attempted DEF WindowInv
    <2>4. \A j \in k+1..Len(attempts') :
            limiter'.started <= attempts'[j] /\ attempts'[j] < limiter'.started + Window
      <3> SUFFICES ASSUME NEW j \in k+1..n+1
                   PROVE  limiter'.started <= attempts'[j] /\ attempts'[j] < limiter'.started + Window
        BY <1>0, Attempted
      <3>1. CASE j = n + 1
        BY <1>0, <1>1, <1>4, <3>1, Attempted
      <3>2. CASE j # n + 1
        <4>1. j \in k+1..n /\ j \in 1..n
          BY <1>0, <3>2
        <4> QED BY <1>1, <1>2, <4>1, Attempted DEF WindowInv
      <3> QED BY <3>1, <3>2
    <2>5. attempts'[k + 1] = limiter'.started /\ k < Len(attempts')
      BY <1>0, <1>1, <1>2, <1>3, Attempted, SMTT(30) DEF WindowInv
    <2>6. Len(attempts') - k = limiter'.count /\ ~(limiter'.count > MaxAttempts)
      BY <1>0, <1>1, <1>3, Attempted
    <2> QED BY <2>1, <2>2, <2>3, <2>4, <2>5, <2>6 DEF WindowInv
  <1>6. ASSUME NEW i \in 1..Len(attempts') PROVE Cardinality(Span(i)') < 2 * MaxAttempts
    <2>1. CASE i \in 1..k
      <3>0. attempts'[i] < limiter.started /\ attempts'[i] = attempts[i] /\ attempts[i] \in Nat
        BY <1>0, <1>1, <1>2, <1>3, <2>1, Attempted DEF WindowInv
      <3>1. Span(i)' = Span(i)
        <4>1. ~(now <= attempts[i])
          BY <1>0, <1>1, <1>4, <3>0
        <4>2. 1..Len(attempts') = 1..n \cup {n + 1}
          BY <1>0, Attempted
        <4> QED BY <3>0, <4>1, <4>2, Attempted DEF Span
      <3>2. i \in 1..n
        BY <1>0, <1>3, <2>1
      <3> QED BY <3>1, <3>2 DEF LimiterInv
    <2>2. CASE i \notin 1..k
      <3> DEFINE Q == {j \in 1..k : limiter'.started - Window < attempts'[j]}
      <3>1. attempts'[i] >= limiter'.started /\ attempts'[i] \in Nat
        <4>1. i \in k+1..Len(attempts')
          BY <1>0, <2>2, Attempted
        <4>2. attempts'[i] \in Nat
          BY Attempted
        <4> QED BY <1>5, <4>1, <4>2 DEF WindowInv
      <3>2. Span(i)' \subseteq Q \cup (k+1..n+1)
        <4>1. ASSUME NEW j \in 1..n+1, attempts'[i] - Window < attempts'[j], j \notin k+1..n+1
              PROVE  j \in 1..k /\ limiter'.started - Window < attempts'[j]
          <5>1. j \in 1..k /\ j \in 1..n
            <6> HIDE DEF n
            <6> QED BY <1>0, <1>3, <4>1
          <5>2. attempts'[j] \in Nat
            BY <5>1, Attempted
          <5> QED BY <1>0, <1>1, <3>1, <4>1, <5>1, <5>2, SMTT(30)
        <4>2. Span(i)' = {j \in 1..n+1 : attempts'[i] - Window < attempts'[j]
                                        /\ attempts'[j] <= attempts'[i]}
          BY Attempted DEF Span
        <4> QED BY <4>1, <4>2
      <3>3. k <= n + 1 /\ n + 1 - k <= MaxAttempts /\ n + 1 \in Nat
        BY <1>0, <1>1, <1>3
      <3>4. Cardinality(Q) < MaxAttempts /\ Q \subseteq 1..k
        BY <1>5 DEF WindowInv
      <3>5. IsFiniteSet(Q) /\ IsFiniteSet(k+1..n+1) /\ Cardinality(k+1..n+1) <= MaxAttempts
        <4>0. IsFiniteSet(1..k)
          <5>1. k \in Int /\ 1 \in Int
            OBVIOUS
          <5> QED BY <5>1, FS_Interval
        <4>1. IsFiniteSet(Q)
          <5> HIDE DEF Q
          <5> QED BY <3>4, <4>0, FS_Subset
        <4>2. k + 1 \in Int /\ n + 1 \in Int /\ k + 1 <= n + 1 + 1
          BY <1>0, <1>3
        <4>3. /\ IsFiniteSet(k+1..n+1)
              /\ Cardinality(k+1..n+1) = IF k + 1 > n + 1 THEN 0 ELSE n + 1 - (k + 1) + 1
          BY <4>2, FS_Interval
        <4> HIDE DEF n, Q
        <4> QED BY <1>0, <3>3, <4>1, <4>3
      <3> HIDE DEF n, Q
      <3> QED BY <3>2, <3>4, <3>5, SpanOfWindow
    <2> QED BY <2>1, <2>2
  <1> QED BY <1>0, <1>1, <1>5, <1>6, Attempted DEF LimiterInv

\* An attempt that is refused.
LEMMA WindowRefuses ==
    ASSUME LimiterInv, limiter # None, limiter.count >= MaxAttempts,
           limiter' = [limiter EXCEPT !.count = MaxAttempts + 1], UNCHANGED <<attempts, now>>
    PROVE  LimiterInv'
  <1>0. MaxAttempts \in Nat \ {0}
    BY AdministrationAssumption
  <1>1. /\ limiter.count \in Nat /\ limiter'.count = MaxAttempts + 1
        /\ limiter'.started = limiter.started
        /\ limiter' \in [count : Nat, started : Nat] /\ limiter' # None
    <2>1. limiter \in [count : Nat, started : Nat]
      BY DEF LimiterInv
    <2>2. limiter' \in [count : Nat, started : Nat]
      BY <1>0, <2>1
    <2> QED BY <1>0, <2>1, <2>2, AdministrationAssumption
  <1>2. PICK k \in Nat : WindowInv(k)
    BY DEF LimiterInv
  <1>3. WindowInv(k)'
    BY <1>0, <1>1, <1>2 DEF WindowInv
  <1> QED BY <1>0, <1>1, <1>3 DEF LimiterInv, Span

LEMMA LimiterConsume ==
    ASSUME LimiterInv, NEW l, Account!Consume(l) PROVE LimiterInv'
  <1>0. /\ limiter' = Account!Counted /\ UNCHANGED now
        /\ IF Account!Counted.count > MaxAttempts THEN UNCHANGED attempts
           ELSE attempts' = Append(attempts, now)
        /\ MaxAttempts \in Nat \ {0}
    BY AdministrationAssumption DEF Account!Consume
  <1>1. CASE limiter = None \/ limiter.started <= now - Window
    <2>1. Account!Counted = [count |-> 1, started |-> now]
      BY <1>1 DEF Account!Counted
    <2>2. ~(Account!Counted.count > MaxAttempts)
      BY <1>0, <2>1
    <2> QED BY <1>0, <1>1, <2>1, <2>2, WindowOpens
  <1>2. CASE ~(limiter = None \/ limiter.started <= now - Window) /\ limiter.count >= MaxAttempts
    <2>1. Account!Counted = [limiter EXCEPT !.count = MaxAttempts + 1]
      BY <1>2 DEF Account!Counted
    <2>2. Account!Counted.count > MaxAttempts
      BY <1>0, <1>2, <2>1 DEF LimiterInv
    <2> QED BY <1>0, <1>2, <2>1, <2>2, WindowRefuses
  <1>3. CASE ~(limiter = None \/ limiter.started <= now - Window) /\ ~(limiter.count >= MaxAttempts)
    <2>1. Account!Counted = [limiter EXCEPT !.count = @ + 1]
      BY <1>3 DEF Account!Counted
    <2>2. limiter.count \in Nat /\ Account!Counted.count = limiter.count + 1
      BY <1>3, <2>1 DEF LimiterInv
    <2>3. limiter.count < MaxAttempts /\ ~(Account!Counted.count > MaxAttempts)
      BY <1>0, <1>3, <2>2
    <2> QED BY <1>0, <1>3, <2>1, <2>3, WindowCounts
  <1> QED BY <1>1, <1>2, <1>3

LEMMA LimiterStep ==
    ASSUME LimiterInv, [Account!AccountNext]_accountVars PROVE LimiterInv'
  <1>1. CASE UNCHANGED <<limiter, attempts, now>>
    BY <1>1 DEF LimiterInv, WindowInv, Span
  <1>2. CASE Account!Tick
    <2>1. now' = now + 1 /\ UNCHANGED <<limiter, attempts>>
      BY <1>2 DEF Account!Tick
    <2>2. now' \in Nat /\ \A i \in 1..Len(attempts) : attempts[i] <= now'
      BY <2>1 DEF LimiterInv
    <2> QED BY <2>1, <2>2 DEF LimiterInv, WindowInv, Span
  <1>3. ASSUME NEW l, Account!ResetLimiter(l) PROVE LimiterInv'
    <2>1. limiter' = None /\ attempts' = <<>> /\ UNCHANGED now
      BY <1>3 DEF Account!ResetLimiter
    <2> QED BY <2>1 DEF LimiterInv
  <1>4. ASSUME NEW l, \/ Account!Authenticate(l) \/ Account!CreateToken(l) \/ Account!StoreSession(l)
                      \/ Account!Logout(l) \/ Account!RevokeAll(l) \/ Account!OpenStream(l)
                      \/ Account!Stream(l) \/ Account!SaveMember
        PROVE UNCHANGED <<limiter, attempts, now>>
    BY <1>4 DEF Account!Authenticate, Account!CreateToken, Account!StoreSession, Account!Logout,
         Account!RevokeAll, Account!OpenStream, Account!Stream, Account!SaveMember
  <1>5. CASE UNCHANGED accountVars
    BY <1>1, <1>5 DEF accountVars
  <1> QED BY <1>1, <1>2, <1>3, <1>4, <1>5, LimiterConsume DEF Account!AccountNext

-----------------------------------------------------------------------------
(* The worker's runtime and the review profiles.                           *)

NowActive == AI!ActiveSettings(settings, providers)
NowModels == AI!ModelSettings(settings, providers, agents)
NowReady == AI!Ready(settings, providers, agents)
NowConfigured == AI!Configured(agents) # {}

AgentFields == {"shared", "url", "model", "window", "key", "enabled", "test", "tested"}
ReaderFields == {"pc", "observed", "tries", "active", "view", "models", "was"}
CaptureFields == {"pc", "stamp", "models", "policy", "chunks", "was"}

ConfigType ==
    /\ DOMAIN settings = {"revision", "active", "policy"} /\ settings.revision \in Nat
    /\ agents = [a \in Agents |-> agents[a]]
    /\ \A a \in Agents : agents[a] # None => DOMAIN agents[a] = AgentFields
    /\ library \in Nat

\* A test that succeeded was of the connection it is stored with; an agent's own
\* connection is still that one.
TestedRow(row) ==
    row # None /\ row.test = "succeeded" =>
        /\ row.tested \in proven
        /\ ~row.shared => AI!EffectiveModelSettings(settings, providers, row) = row.tested

TestInv == test # None => test.connection # None /\ test.target \in AI!Targets

\* What was read is the configuration of now.
Fresh(it) ==
    /\ it.was = AI!RuntimeNow
    /\ it.pc \in {"agents", "compare", "build"} => it.active = NowActive
    /\ it.pc \in {"compare", "build", "policy", "models", "publish"} =>
          it.view.configured = NowConfigured /\ it.view.ready = NowReady
    /\ it.pc \in {"policy", "models"} => NowConfigured
    /\ it.pc \in {"models", "publish"} => it.active.policy = settings.policy
    /\ it.pc = "publish" /\ NowConfigured => it.models = {m \in NowModels : m[1] \in NowReady}
    /\ it.pc = "publish" /\ ~NowConfigured => it.models = {} /\ it.active = NowActive /\ it.active # None

\* A call of current() has read what is current, if its revision is.
ReaderOk(it) ==
    /\ DOMAIN it = ReaderFields
    /\ it.pc # "publish" => it.models = {}
    /\ it.pc # "idle" => it.observed \in Nat /\ it.observed <= settings.revision
    /\ it.pc # "idle" /\ it.observed = settings.revision => Fresh(it)

ReaderInv(r) == ReaderOk(readers[r])

\* The same of a profile, for the two revisions of its stamp.
CaptureInv ==
    /\ DOMAIN capture = CaptureFields
    /\ capture.pc # "idle" =>
          /\ capture.stamp.ai \in Nat /\ capture.stamp.ai <= settings.revision
          /\ capture.stamp.library \in Nat /\ capture.stamp.library <= library
    /\ capture.pc # "idle" /\ capture.stamp.ai = settings.revision =>
          /\ capture.was = <<NowModels, settings.policy>>
          /\ capture.pc \in {"policy", "chunks", "save"} => capture.models = NowModels
          /\ capture.pc \in {"chunks", "save"} => capture.policy = settings.policy
    /\ capture.pc = "save" /\ capture.stamp.library = library => capture.chunks = library

AIInv ==
    /\ ConfigType /\ TestInv /\ \A a \in Agents : TestedRow(agents[a])
    /\ readers = [r \in Readers |-> readers[r]] /\ \A r \in Readers : ReaderInv(r)
    /\ CaptureInv /\ AI!RuntimeSound /\ AI!ProfileUnmixed

LEMMA AIStart == AI!AIInit => AIInv
  <1> SUFFICES ASSUME AI!AIInit PROVE AIInv
    OBVIOUS
  <1>1. /\ test = None /\ library = 0 /\ cache = None /\ profiles = {}
        /\ readers = [r \in Readers |-> AI!NoReader] /\ capture = AI!NoCapture
    BY DEF AI!AIInit
  <1>2. /\ DOMAIN settings = {"revision", "active", "policy"} /\ settings.revision = 0
        /\ agents = [a \in Agents |-> agents[a]]
    <2>1. /\ \E p, q : settings = [revision |-> 0, active |-> p, policy |-> q]
          /\ \E row : agents = [a \in Agents |-> row]
      BY DEF AI!AIInit
    <2> QED BY <2>1
  <1>3. ASSUME NEW a \in Agents
        PROVE  /\ agents[a] # None => DOMAIN agents[a] = AgentFields
               /\ TestedRow(agents[a])
    <2>1. CASE agents = [b \in Agents |-> None]
      BY <2>1 DEF TestedRow
    <2>2. CASE \E c : /\ proven = {c}
                      /\ agents = [b \in Agents |-> [AI!NewAgent EXCEPT !.shared = TRUE, !.enabled = TRUE,
                                                        !.test = "succeeded", !.tested = c]]
      <3>1. PICK c : /\ proven = {c}
                     /\ agents[a] = [AI!NewAgent EXCEPT !.shared = TRUE, !.enabled = TRUE,
                                                        !.test = "succeeded", !.tested = c]
        BY <2>2
      <3>2. DOMAIN agents[a] = AgentFields /\ agents[a].shared /\ agents[a].tested = c
        BY <3>1 DEF AI!NewAgent, AgentFields
      <3> QED BY <3>1, <3>2 DEF TestedRow
    <2> QED BY <2>1, <2>2 DEF AI!AIInit
  <1>4. ASSUME NEW r \in Readers PROVE ReaderInv(r)
    <2>1. readers[r] = AI!NoReader
      BY <1>1
    <2> QED BY <2>1 DEF ReaderInv, ReaderOk, ReaderFields, AI!NoReader
  <1>5. CaptureInv
    BY <1>1 DEF CaptureInv, CaptureFields, AI!NoCapture
  <1>6. ConfigType /\ TestInv
    BY <1>1, <1>2, <1>3 DEF ConfigType, TestInv
  <1>7. AI!RuntimeSound /\ AI!ProfileUnmixed
    BY <1>1 DEF AI!RuntimeSound, AI!RuntimeUnmixed, AI!RuntimeTested, AI!ProfileUnmixed
  <1> QED BY <1>1, <1>3, <1>4, <1>5, <1>6, <1>7 DEF AIInv

\* Whatever depends on the configuration alone stays when it stays.
LEMMA ConfigStays ==
    ASSUME UNCHANGED <<settings, providers, agents>>
    PROVE  /\ AI!RuntimeNow' = AI!RuntimeNow /\ NowActive' = NowActive /\ NowModels' = NowModels
           /\ NowReady' = NowReady /\ NowConfigured' = NowConfigured
  BY DEF AI!RuntimeNow, NowActive, NowModels, NowReady, NowConfigured

\* A write of the configuration makes everything that was read before outdated.
LEMMA ConfigMoves ==
    ASSUME AIInv, settings'.revision = settings.revision + 1,
           ConfigType', TestInv', \A a \in Agents : TestedRow(agents[a])',
           proven \subseteq proven',
           UNCHANGED <<library, cache, readers, lock, capture, profiles>>
    PROVE  AIInv'
  <1>1. settings.revision \in Nat
    BY DEF AIInv, ConfigType
  <1>2. ASSUME NEW r \in Readers PROVE ReaderInv(r)'
    BY <1>1 DEF AIInv, ReaderInv, ReaderOk
  <1>3. CaptureInv'
    BY <1>1 DEF AIInv, CaptureInv
  <1>4. AI!RuntimeSound' /\ AI!ProfileUnmixed'
    BY DEF AIInv, AI!RuntimeSound, AI!RuntimeUnmixed, AI!RuntimeTested, AI!ProfileUnmixed
  <1> QED BY <1>2, <1>3, <1>4 DEF AIInv

\* The connection of an agent of its own does not depend on the providers.
LEMMA OwnConnection ==
    ASSUME NEW s, NEW ps, NEW row, ~row.shared
    PROVE  AI!EffectiveModelSettings(s, ps, row) =
              IF row.key = None THEN None ELSE AI!Connection(None, row)
  BY DEF AI!EffectiveModelSettings

LEMMA TestedStays ==
    ASSUME NEW row, TestedRow(row), proven \subseteq proven'
    PROVE  row # None /\ row.test = "succeeded" =>
               /\ row.tested \in proven'
               /\ ~row.shared => AI!EffectiveModelSettings(settings', providers', row) = row.tested
  BY OwnConnection DEF TestedRow

\* Writes of providers and of the policy.
LEMMA AIProviders ==
    ASSUME AIInv, \/ \E p \in Providers : AI!UpdateProvider(p) \/ AI!ActivateProvider(p)
                  \/ AI!UpdateReviewPolicy
    PROVE  AIInv'
  <1>1. \E s, ps : /\ AI!Commit(s, ps, agents) /\ DOMAIN s = DOMAIN settings
                   /\ s.revision = settings.revision
    <2>1. \A x : /\ DOMAIN [settings EXCEPT !.active = x] = DOMAIN settings
                 /\ [settings EXCEPT !.active = x].revision = settings.revision
                 /\ DOMAIN [settings EXCEPT !.policy = x] = DOMAIN settings
                 /\ [settings EXCEPT !.policy = x].revision = settings.revision
      BY DEF AIInv, ConfigType
    <2>2. ASSUME NEW p, AI!UpdateProvider(p)
          PROVE  \E x, ps : AI!Commit([settings EXCEPT !.active = x], ps, agents)
      BY <2>2 DEF AI!UpdateProvider
    <2>3. ASSUME NEW p, AI!ActivateProvider(p)
          PROVE  \E x, ps : AI!Commit([settings EXCEPT !.active = x], ps, agents)
      BY <2>3 DEF AI!ActivateProvider
    <2>4. ASSUME AI!UpdateReviewPolicy
          PROVE  \E x, ps : AI!Commit([settings EXCEPT !.policy = x], ps, agents)
      BY <2>4 DEF AI!UpdateReviewPolicy
    <2> QED BY <2>1, <2>2, <2>3, <2>4
  <1>2. /\ settings'.revision = settings.revision + 1
        /\ DOMAIN settings' = DOMAIN settings /\ agents' = agents
    BY <1>1 DEF AI!Commit, AIInv, ConfigType
  <1>3. UNCHANGED <<test, library, cache, readers, lock, capture, profiles, proven>>
    BY DEF AI!UpdateProvider, AI!ActivateProvider, AI!UpdateReviewPolicy, AI!runtimeVars, AI!profileVars
  <1>4. ConfigType' /\ TestInv'
    BY <1>2, <1>3 DEF AIInv, ConfigType, TestInv
  <1>5. \A a \in Agents : TestedRow(agents[a])'
    BY <1>2, <1>3, TestedStays DEF AIInv, TestedRow
  <1> QED BY <1>2, <1>3, <1>4, <1>5, ConfigMoves

\* A draft of an agent keeps a test only when its connection is the tested one.
LEMMA AIUpdateAgent ==
    ASSUME AIInv, NEW a \in Agents, AI!UpdateAgent(a) PROVE AIInv'
  <1> DEFINE old == IF agents[a] = None THEN AI!NewAgent ELSE agents[a]
  <1>1. PICK draft \in AI!AgentDrafts, given \in Keys \cup {"kept", "cleared"} :
          LET row == [old EXCEPT !.shared = draft.shared, !.url = draft.url, !.model = draft.model,
                                 !.window = draft.window,
                                 !.key = IF draft.shared THEN None ELSE AI!KeyAfter(@, given)]
              retained == /\ old.tested # None /\ given = "kept"
                          /\ AI!EffectiveModelSettings(settings, providers, row) = old.tested
          IN  AI!Commit(settings, providers,
                [agents EXCEPT ![a] = IF retained THEN row ELSE [AI!Void(row) EXCEPT !.enabled = FALSE]])
    BY DEF AI!UpdateAgent
  <1>2. UNCHANGED <<test, library, cache, readers, lock, capture, profiles, proven>>
    BY DEF AI!UpdateAgent, AI!runtimeVars, AI!profileVars
  <1> DEFINE row == [old EXCEPT !.shared = draft.shared, !.url = draft.url, !.model = draft.model,
                                !.window = draft.window,
                                !.key = IF draft.shared THEN None ELSE AI!KeyAfter(@, given)]
             void == [AI!Void(row) EXCEPT !.enabled = FALSE]
  <1>3. DOMAIN old = AgentFields /\ (old.test = "succeeded" => agents[a] # None /\ old = agents[a])
    <2>1. DOMAIN AI!NewAgent = AgentFields /\ AI!NewAgent.test = None /\ None # "succeeded"
      BY UntestedAssumption DEF AI!NewAgent, AgentFields
    <2> QED BY <2>1 DEF AIInv, ConfigType
  <1>4. DOMAIN row = AgentFields /\ row.test = old.test /\ row.tested = old.tested
    <2> HIDE DEF old
    <2> QED BY <1>3 DEF AgentFields
  <1>5. DOMAIN void = AgentFields /\ void.test # "succeeded"
    <2> HIDE DEF row, old
    <2>1. None # "succeeded"
      BY UntestedAssumption
    <2> QED BY <1>4, <2>1 DEF AI!Void, AgentFields
  <1> HIDE DEF row, void
  <1>6. PICK next : /\ AI!Commit(settings, providers, [agents EXCEPT ![a] = next])
                    /\ \/ next = void
                       \/ next = row /\ AI!EffectiveModelSettings(settings, providers, row) = old.tested
    BY <1>1 DEF row, void
  <1> HIDE DEF old
  <1>7. /\ settings' = [settings EXCEPT !.revision = @ + 1] /\ providers' = providers
        /\ agents' = [agents EXCEPT ![a] = next]
    BY <1>6 DEF AI!Commit
  <1>8. /\ agents'[a] = next /\ \A b \in Agents \ {a} : agents'[b] = agents[b]
        /\ agents' = [b \in Agents |-> agents'[b]]
        /\ settings'.revision = settings.revision + 1 /\ DOMAIN settings' = DOMAIN settings
    BY <1>7 DEF AIInv, ConfigType
  <1>9. DOMAIN next = AgentFields
    BY <1>4, <1>5, <1>6
  <1>10. ConfigType' /\ TestInv'
    BY <1>2, <1>8, <1>9 DEF AIInv, ConfigType, TestInv
  <1>11. TestedRow(agents[a])'
    <2>1. CASE next = void
      BY <1>5, <1>8, <2>1 DEF TestedRow
    <2>2. CASE next = row /\ AI!EffectiveModelSettings(settings, providers, row) = old.tested
      <3>1. next.test = "succeeded" => next.tested \in proven
        BY <1>3, <1>4, <2>2 DEF AIInv, TestedRow, old
      <3>2. ~next.shared => AI!EffectiveModelSettings(settings', providers', next) = next.tested
        BY <1>4, <2>2, OwnConnection
      <3> QED BY <1>2, <1>8, <3>1, <3>2 DEF TestedRow
    <2> QED BY <1>6, <2>1, <2>2
  <1>12. ASSUME NEW b \in Agents PROVE TestedRow(agents[b])'
    <2>1. CASE b # a
      BY <1>2, <1>8, <2>1, TestedStays DEF AIInv, TestedRow
    <2> QED BY <1>11, <2>1
  <1> QED BY <1>2, <1>8, <1>10, <1>12, ConfigMoves

LEMMA AISetEnabled ==
    ASSUME AIInv, NEW a \in Agents, NEW enabled, AI!SetEnabled(a, enabled) PROVE AIInv'
  <1>1. /\ settings' = [settings EXCEPT !.revision = @ + 1] /\ providers' = providers
        /\ agents' = [agents EXCEPT ![a].enabled = enabled] /\ agents[a] # None
        /\ UNCHANGED <<test, library, cache, readers, lock, capture, profiles, proven>>
    BY DEF AI!SetEnabled, AI!Commit, AI!runtimeVars, AI!profileVars
  <1> DEFINE next == [agents[a] EXCEPT !.enabled = enabled]
  <1>2. /\ agents'[a] = next /\ \A b \in Agents \ {a} : agents'[b] = agents[b]
        /\ agents' = [b \in Agents |-> agents'[b]]
        /\ settings'.revision = settings.revision + 1 /\ DOMAIN settings' = DOMAIN settings
    BY <1>1 DEF AIInv, ConfigType
  <1>3. DOMAIN agents[a] = AgentFields
    BY <1>1 DEF AIInv, ConfigType
  <1>4. /\ DOMAIN next = AgentFields
        /\ \A f \in AgentFields \ {"enabled"} : next[f] = agents[a][f]
    BY <1>3 DEF AgentFields
  <1> HIDE DEF next
  <1>5. ConfigType' /\ TestInv'
    BY <1>1, <1>2, <1>4 DEF AIInv, ConfigType, TestInv
  <1>6. TestedRow(agents[a])'
    <2>1. /\ next.test = agents[a].test /\ next.tested = agents[a].tested
          /\ next.shared = agents[a].shared /\ next.key = agents[a].key
          /\ next.url = agents[a].url /\ next.model = agents[a].model /\ next.window = agents[a].window
      BY <1>4 DEF AgentFields
    <2>2. AI!Connection(None, next) = AI!Connection(None, agents[a])
      BY <2>1 DEF AI!Connection
    <2>3. TestedRow(agents[a])
      BY DEF AIInv
    <2>4. ~next.shared => AI!EffectiveModelSettings(settings', providers', next)
                           = AI!EffectiveModelSettings(settings, providers, agents[a])
      BY <2>1, <2>2, OwnConnection
    <2> QED BY <1>1, <1>2, <2>1, <2>3, <2>4 DEF TestedRow
  <1>7. ASSUME NEW b \in Agents PROVE TestedRow(agents[b])'
    <2>1. CASE b # a
      BY <1>1, <1>2, <2>1, TestedStays DEF AIInv, TestedRow
    <2> QED BY <1>6, <2>1
  <1> QED BY <1>1, <1>2, <1>5, <1>7, ConfigMoves

\* An answer is recorded for the revision and the connection it was asked for.
LEMMA AIRecordTest ==
    ASSUME AIInv, AI!RecordTest PROVE AIInv'
  <1>3. test.connection # None /\ test.target \in Providers \cup Agents
    BY DEF AI!RecordTest, AIInv, TestInv, AI!Targets
  <1>t. PICK t \in Providers \cup Agents : t = test.target
    BY <1>3
  <1>1. PICK ok \in BOOLEAN :
          /\ proven' = IF ok THEN proven \cup {test.connection} ELSE proven
          /\ IF settings.revision # test.revision \/ AI!Tested(t) # test.connection
             THEN UNCHANGED <<settings, providers, agents>>
             ELSE IF t \in Providers
             THEN AI!Commit(settings, [providers EXCEPT ![t] = AI!Recorded(@, ok)], agents)
             ELSE AI!Commit(settings, providers, [agents EXCEPT ![t] = AI!Recorded(@, ok)])
    BY <1>t DEF AI!RecordTest, AI!configVars
  <1>2. /\ test # None /\ test' = None /\ proven \subseteq proven'
        /\ UNCHANGED <<library, cache, readers, lock, capture, profiles>>
    BY <1>1 DEF AI!RecordTest, AI!runtimeVars, AI!profileVars
  <1>4. CASE UNCHANGED <<settings, providers, agents>>
    <2>1. ConfigType' /\ TestInv'
      BY <1>2, <1>4 DEF AIInv, ConfigType, TestInv
    <2>2. \A a \in Agents : TestedRow(agents[a])'
      BY <1>2, <1>4, TestedStays DEF AIInv, TestedRow
    <2>3. ASSUME NEW r \in Readers PROVE ReaderInv(r)'
      BY <1>2, <1>4, ConfigStays DEF AIInv, ReaderInv, ReaderOk, Fresh
    <2>4. CaptureInv'
      BY <1>2, <1>4, ConfigStays DEF AIInv, CaptureInv
    <2>5. AI!RuntimeSound' /\ AI!ProfileUnmixed'
      BY <1>2 DEF AIInv, AI!RuntimeSound, AI!RuntimeUnmixed, AI!RuntimeTested, AI!ProfileUnmixed
    <2> QED BY <1>2, <2>1, <2>2, <2>3, <2>4, <2>5 DEF AIInv
  <1>5. CASE \E ps : AI!Commit(settings, ps, agents)
    <2>1. /\ settings'.revision = settings.revision + 1
          /\ DOMAIN settings' = DOMAIN settings /\ agents' = agents
      BY <1>5 DEF AI!Commit, AIInv, ConfigType
    <2>2. ConfigType' /\ TestInv'
      BY <1>2, <2>1 DEF AIInv, ConfigType, TestInv
    <2>3. \A a \in Agents : TestedRow(agents[a])'
      BY <1>2, <2>1, TestedStays DEF AIInv, TestedRow
    <2> QED BY <1>2, <2>1, <2>2, <2>3, ConfigMoves
  <1>6. CASE /\ t \notin Providers /\ AI!Tested(t) = test.connection
             /\ AI!Commit(settings, providers, [agents EXCEPT ![t] = AI!Recorded(@, ok)])
    <2> DEFINE next == AI!Recorded(agents[t], ok)
    <2>1. t \in Agents /\ agents[t] # None
          /\ AI!EffectiveModelSettings(settings, providers, agents[t]) = test.connection
      BY <1>3, <1>6 DEF AI!Tested
    <2>2. /\ settings' = [settings EXCEPT !.revision = @ + 1] /\ providers' = providers
          /\ agents' = [agents EXCEPT ![t] = next]
      BY <1>6 DEF AI!Commit
    <2>3. /\ agents'[t] = next /\ \A b \in Agents \ {t} : agents'[b] = agents[b]
          /\ agents' = [b \in Agents |-> agents'[b]]
          /\ settings'.revision = settings.revision + 1 /\ DOMAIN settings' = DOMAIN settings
      <3> HIDE DEF next
      <3> QED BY <2>1, <2>2 DEF AIInv, ConfigType
    <2>4. DOMAIN agents[t] = AgentFields
      BY <2>1 DEF AIInv, ConfigType
    <2>5. /\ DOMAIN next = AgentFields
          /\ next.test = "succeeded" => ok /\ next.tested = test.connection
          /\ next.shared = agents[t].shared /\ next.key = agents[t].key
          /\ next.url = agents[t].url /\ next.model = agents[t].model /\ next.window = agents[t].window
      BY <1>t, <1>6, <2>4 DEF AI!Recorded, AgentFields
    <2> HIDE DEF next
    <2>6. ConfigType' /\ TestInv'
      BY <1>2, <2>1, <2>3, <2>5 DEF AIInv, ConfigType, TestInv
    <2>7. AI!Connection(None, next) = AI!Connection(None, agents[t])
      BY <2>5 DEF AI!Connection
    <2>8. ~next.shared => AI!EffectiveModelSettings(settings', providers', next) = test.connection
      BY <2>1, <2>5, <2>7, OwnConnection
    <2>9. TestedRow(agents[t])'
      BY <1>1, <2>3, <2>5, <2>8 DEF TestedRow
    <2>10. ASSUME NEW b \in Agents PROVE TestedRow(agents[b])'
      <3>1. CASE b # t
        BY <1>2, <2>3, <3>1, TestedStays DEF AIInv, TestedRow
      <3>2. CASE b = t
        BY <2>3, <2>9, <3>2 DEF TestedRow
      <3> QED BY <3>1, <3>2
    <2> QED BY <1>2, <2>3, <2>6, <2>10, ConfigMoves
  <1> QED BY <1>1, <1>4, <1>5, <1>6

LEMMA AIPrepareTest ==
    ASSUME AIInv, NEW t \in AI!Targets, AI!PrepareTest(t) PROVE AIInv'
  <1>1. /\ test' = [target |-> t, revision |-> settings.revision, connection |-> AI!Tested(t)]
        /\ AI!Tested(t) # None
        /\ UNCHANGED <<settings, providers, agents, library, cache, readers, lock, capture, profiles, proven>>
    BY DEF AI!PrepareTest, AI!configVars, AI!runtimeVars, AI!profileVars
  <1>2. ConfigType' /\ TestInv'
    BY <1>1 DEF AIInv, ConfigType, TestInv
  <1>3. \A a \in Agents : TestedRow(agents[a])'
    BY <1>1, TestedStays DEF AIInv, TestedRow
  <1>4. ASSUME NEW r \in Readers PROVE ReaderInv(r)'
    BY <1>1, ConfigStays DEF AIInv, ReaderInv, ReaderOk, Fresh
  <1>5. CaptureInv'
    BY <1>1, ConfigStays DEF AIInv, CaptureInv
  <1>6. AI!RuntimeSound' /\ AI!ProfileUnmixed'
    BY <1>1 DEF AIInv, AI!RuntimeSound, AI!RuntimeUnmixed, AI!RuntimeTested, AI!ProfileUnmixed
  <1> QED BY <1>1, <1>2, <1>3, <1>4, <1>5, <1>6 DEF AIInv

LEMMA AIAdminister == ASSUME AIInv, AI!Administer PROVE AIInv'
  BY AIProviders, AIUpdateAgent, AISetEnabled, AIRecordTest, AIPrepareTest DEF AI!Administer

\* What is ready now answered a test in the form in which it would be used.
LEMMA ReadyIsTested ==
    ASSUME AIInv, NEW m \in NowModels, m[1] \in NowReady PROVE m[2] \in proven
  <1>1. PICK a \in Agents : /\ m = <<a, AI!EffectiveModelSettings(settings, providers, agents[a])>>
                            /\ agents[a] # None
    BY DEF NowModels, AI!ModelSettings, AI!Configured
  <1>2. m[1] = a /\ m[2] = AI!EffectiveModelSettings(settings, providers, agents[a])
    BY <1>1
  <1>3. AI!ViewReady(settings, providers, agents[a])
    BY <1>2 DEF NowReady, AI!Ready
  <1> QED BY <1>1, <1>2, <1>3 DEF AI!ViewReady, AIInv, TestedRow

\* A step of one call of current().
LEMMA ReaderMoves ==
    ASSUME AIInv, NEW r \in Readers, NEW it, ReaderOk(it), readers' = [readers EXCEPT ![r] = it],
           UNCHANGED <<settings, providers, agents, test, library, capture, profiles, proven>>,
           AI!RuntimeSound'
    PROVE  AIInv'
  <1>1. /\ readers'[r] = it /\ \A q \in Readers \ {r} : readers'[q] = readers[q]
        /\ readers' = [q \in Readers |-> readers'[q]]
    BY DEF AIInv
  <1>2. ASSUME NEW q \in Readers PROVE ReaderInv(q)'
    <2>1. ReaderOk(readers'[q])
      BY <1>1 DEF AIInv, ReaderInv
    <2> QED BY <2>1, ConfigStays DEF ReaderInv, ReaderOk, Fresh
  <1>3. ConfigType' /\ TestInv' /\ (\A a \in Agents : TestedRow(agents[a])') /\ AI!ProfileUnmixed'
    BY TestedStays DEF AIInv, ConfigType, TestInv, TestedRow, AI!ProfileUnmixed
  <1>4. CaptureInv'
    BY ConfigStays DEF AIInv, CaptureInv
  <1> QED BY <1>1, <1>2, <1>3, <1>4 DEF AIInv

LEMMA ReaderLeaves ==
    ASSUME AIInv, NEW r \in Readers, AI!Leave(r),
           UNCHANGED <<settings, providers, agents, test, library, capture, profiles, proven>>
    PROVE  AIInv'
  <1>1. readers' = [readers EXCEPT ![r] = AI!NoReader] /\ UNCHANGED cache
    BY DEF AI!Leave, AI!Idle, AI!Step
  <1>2. ReaderOk(AI!NoReader)
    BY DEF ReaderOk, ReaderFields, AI!NoReader
  <1>3. AI!RuntimeSound'
    BY <1>1 DEF AIInv, AI!RuntimeSound, AI!RuntimeUnmixed, AI!RuntimeTested
  <1> QED BY <1>1, <1>2, <1>3, ReaderMoves

LEMMA ReaderPublishes ==
    ASSUME AIInv, NEW r \in Readers, NEW runtime, AI!Publish(r, runtime),
           runtime # None => /\ runtime = readers[r].was
                             /\ \A m \in runtime.agents : m[2] \in proven,
           UNCHANGED <<settings, providers, agents, test, library, capture, profiles, proven>>
    PROVE  AIInv'
  <1>1. readers' = [readers EXCEPT ![r] = AI!NoReader]
        /\ cache' = [revision |-> readers[r].observed, runtime |-> runtime,
                     was |-> IF runtime = None THEN None ELSE readers[r].was]
    BY DEF AI!Publish, AI!Idle, AI!Step
  <1>2. ReaderOk(AI!NoReader)
    BY DEF ReaderOk, ReaderFields, AI!NoReader
  <1>3. AI!RuntimeSound'
    BY <1>1 DEF AI!RuntimeSound, AI!RuntimeUnmixed, AI!RuntimeTested
  <1> QED BY <1>1, <1>2, <1>3, ReaderMoves

\* A call that goes on with what it read so far.
LEMMA ReaderGoesOn ==
    ASSUME AIInv, NEW r \in Readers, NEW it, ReaderOk(it), AI!Step(r, it),
           UNCHANGED <<settings, providers, agents, test, library, capture, profiles, proven, cache>>
    PROVE  AIInv'
  <1>1. readers' = [readers EXCEPT ![r] = it]
    BY DEF AI!Step
  <1>2. AI!RuntimeSound'
    BY DEF AIInv, AI!RuntimeSound, AI!RuntimeUnmixed, AI!RuntimeTested
  <1> QED BY <1>1, <1>2, ReaderMoves

LEMMA ReaderObserves ==
    ASSUME AIInv, NEW r \in Readers, AI!Observe(r) PROVE AIInv'
  <1> DEFINE it == [AI!NoReader EXCEPT !.pc = "settings", !.observed = settings.revision,
                                       !.was = AI!RuntimeNow]
  <1>1. AI!Step(r, it)
        /\ UNCHANGED <<settings, providers, agents, test, library, capture, profiles, proven, cache>>
    BY DEF AI!Observe, AI!configVars, AI!profileVars
  <1>2. ReaderOk(it)
    <2>1. settings.revision \in Nat
      BY DEF AIInv, ConfigType
    <2>2. /\ DOMAIN it = ReaderFields /\ it.pc = "settings" /\ it.observed = settings.revision
          /\ it.was = AI!RuntimeNow /\ it.models = {}
      BY DEF AI!NoReader, ReaderFields
    <2> HIDE DEF it
    <2> QED BY <2>1, <2>2 DEF ReaderOk, Fresh
  <1> HIDE DEF it
  <1> QED BY <1>1, <1>2, ReaderGoesOn

LEMMA ReaderReads ==
    ASSUME AIInv, NEW r \in Readers,
           AI!ReadSettings(r) \/ AI!ReadAgents(r) \/ AI!ReadPolicy(r)
    PROVE  AIInv'
  <1>0. ReaderOk(readers[r]) /\ settings.revision \in Nat
    BY DEF AIInv, ReaderInv, ConfigType
  <1>1. UNCHANGED <<settings, providers, agents, test, library, capture, profiles, proven, cache>>
    BY DEF AI!ReadSettings, AI!ReadAgents, AI!ReadPolicy, AI!configVars, AI!profileVars
  <1>2. CASE AI!ReadSettings(r)
    <2> DEFINE it == [readers[r] EXCEPT !.pc = "agents", !.active = NowActive]
    <2>1. AI!Step(r, it) /\ readers[r].pc = "settings"
      BY <1>2 DEF AI!ReadSettings, AI!At, NowActive
    <2>2. /\ DOMAIN it = ReaderFields /\ it.pc = "agents" /\ it.active = NowActive
          /\ it.observed = readers[r].observed /\ it.was = readers[r].was
          /\ it.models = readers[r].models
      BY <1>0 DEF ReaderOk, ReaderFields
    <2> HIDE DEF it
    <2>3. ReaderOk(it)
      BY <1>0, <2>1, <2>2 DEF ReaderOk, Fresh
    <2> QED BY <1>1, <2>1, <2>3, ReaderGoesOn
  <1>3. CASE AI!ReadAgents(r)
    <2> DEFINE view == [revision |-> settings.revision, configured |-> NowConfigured, ready |-> NowReady]
               it == [readers[r] EXCEPT !.pc = "compare", !.view = view]
    <2>1. AI!Step(r, it) /\ readers[r].pc = "agents"
      BY <1>3 DEF AI!ReadAgents, AI!At, NowConfigured, NowReady
    <2>2. /\ DOMAIN it = ReaderFields /\ it.pc = "compare" /\ it.view = view
          /\ it.observed = readers[r].observed /\ it.was = readers[r].was
          /\ it.models = readers[r].models /\ it.active = readers[r].active
      <3> HIDE DEF view
      <3> QED BY <1>0 DEF ReaderOk, ReaderFields
    <2> HIDE DEF it
    <2>3. ReaderOk(it)
      BY <1>0, <2>1, <2>2 DEF ReaderOk, Fresh
    <2> QED BY <1>1, <2>1, <2>3, ReaderGoesOn
  <1>4. CASE AI!ReadPolicy(r)
    <2> DEFINE active == [revision |-> settings.revision, connection |-> None, policy |-> settings.policy]
               it == [readers[r] EXCEPT !.pc = "models", !.active = active]
    <2>1. AI!Step(r, it) /\ readers[r].pc = "policy"
      BY <1>4 DEF AI!ReadPolicy, AI!At
    <2>2. /\ DOMAIN it = ReaderFields /\ it.pc = "models" /\ it.active.policy = settings.policy
          /\ it.observed = readers[r].observed /\ it.was = readers[r].was
          /\ it.models = readers[r].models /\ it.view = readers[r].view
      BY <1>0 DEF ReaderOk, ReaderFields
    <2> HIDE DEF it
    <2>3. ReaderOk(it)
      BY <1>0, <2>1, <2>2 DEF ReaderOk, Fresh
    <2> QED BY <1>1, <2>1, <2>3, ReaderGoesOn
  <1> QED BY <1>2, <1>3, <1>4

LEMMA ReaderCompares ==
    ASSUME AIInv, NEW r \in Readers, AI!Compare(r) PROVE AIInv'
  <1>0. ReaderOk(readers[r]) /\ settings.revision \in Nat /\ readers[r].pc = "compare"
    BY DEF AIInv, ReaderInv, ConfigType, AI!Compare, AI!At
  <1>1. UNCHANGED <<settings, providers, agents, test, library, capture, profiles, proven, cache>>
    BY DEF AI!Compare, AI!configVars, AI!profileVars
  <1> DEFINE builds == [readers[r] EXCEPT !.pc = "build"]
             again == [readers[r] EXCEPT !.pc = "settings", !.tries = @ + 1,
                                         !.observed = settings.revision, !.was = AI!RuntimeNow]
  <1>2. PICK it \in {builds, again, AI!NoReader} : AI!Step(r, it)
    BY DEF AI!Compare
  <1>3. ReaderOk(builds)
    <2>1. /\ DOMAIN builds = ReaderFields /\ builds.pc = "build"
          /\ builds.observed = readers[r].observed /\ builds.was = readers[r].was
          /\ builds.models = readers[r].models /\ builds.active = readers[r].active
          /\ builds.view = readers[r].view
      BY <1>0 DEF ReaderOk, ReaderFields
    <2> HIDE DEF builds
    <2> QED BY <1>0, <2>1 DEF ReaderOk, Fresh
  <1>4. ReaderOk(again)
    <2>1. /\ DOMAIN again = ReaderFields /\ again.pc = "settings"
          /\ again.observed = settings.revision /\ again.was = AI!RuntimeNow
          /\ again.models = readers[r].models
      BY <1>0 DEF ReaderOk, ReaderFields
    <2> HIDE DEF again
    <2> QED BY <1>0, <2>1 DEF ReaderOk, Fresh
  <1>5. ReaderOk(AI!NoReader)
    BY DEF ReaderOk, ReaderFields, AI!NoReader
  <1> HIDE DEF builds, again
  <1> QED BY <1>1, <1>2, <1>3, <1>4, <1>5, ReaderGoesOn

LEMMA ReaderBuilds ==
    ASSUME AIInv, NEW r \in Readers, AI!Build(r) PROVE AIInv'
  <1> DEFINE old == readers[r]
             next == IF old.active = None THEN "policy"
                     ELSE IF old.view.configured THEN "models" ELSE "publish"
             it == [old EXCEPT !.pc = next]
  <1>0. ReaderOk(old) /\ settings.revision \in Nat /\ old.pc = "build"
    BY DEF AIInv, ReaderInv, ConfigType, AI!Build, AI!At
  <1>1. UNCHANGED <<settings, providers, agents, test, library, capture, profiles, proven>>
    BY DEF AI!Build, AI!configVars, AI!profileVars
  <1>2. \/ AI!Leave(r) \/ AI!Publish(r, None)
        \/ ~(old.active = None /\ ~old.view.configured) /\ AI!Step(r, it) /\ UNCHANGED cache
    BY DEF AI!Build
  <1>3. CASE ~(old.active = None /\ ~old.view.configured) /\ AI!Step(r, it) /\ UNCHANGED cache
    <2>1. /\ DOMAIN it = ReaderFields /\ it.pc = next
          /\ it.observed = old.observed /\ it.was = old.was
          /\ it.models = old.models /\ it.active = old.active /\ it.view = old.view
      <3> HIDE DEF next, old
      <3> QED BY <1>0 DEF ReaderOk, ReaderFields
    <2>2. ASSUME old.observed = settings.revision PROVE Fresh(it)
      <3>1. Fresh(old)
        BY <1>0, <2>2 DEF ReaderOk
      <3>2. /\ old.active = NowActive /\ old.was = AI!RuntimeNow
            /\ old.view.configured = NowConfigured /\ old.view.ready = NowReady
        BY <1>0, <3>1 DEF Fresh
      <3>3. NowActive # None => NowActive.policy = settings.policy
        BY DEF NowActive, AI!ActiveSettings
      <3>4. old.models = {}
        BY <1>0 DEF ReaderOk
      <3>5. next \in {"models", "publish"} => it.active.policy = settings.policy
        BY <2>1, <3>2, <3>3
      <3> HIDE DEF it, old
      <3> QED BY <1>3, <2>1, <3>2, <3>4, <3>5 DEF Fresh
    <2>3. ReaderOk(it)
      <3> HIDE DEF it, old
      <3>1. it.pc \in {"policy", "models", "publish"}
        BY <2>1
      <3> HIDE DEF next
      <3> QED BY <1>0, <2>1, <2>2, <3>1 DEF ReaderOk
    <2> HIDE DEF it
    <2> QED BY <1>1, <1>3, <2>3, ReaderGoesOn
  <1> QED BY <1>1, <1>2, <1>3, ReaderLeaves, ReaderPublishes

LEMMA ReaderReadsModels ==
    ASSUME AIInv, NEW r \in Readers, AI!ReadModels(r) PROVE AIInv'
  <1> DEFINE old == readers[r]
             models == {m \in NowModels : m[1] \in old.view.ready}
             it == [old EXCEPT !.pc = "publish", !.models = models]
  <1>0. ReaderOk(old) /\ old.pc = "models"
    BY DEF AIInv, ReaderInv, AI!ReadModels, AI!At
  <1>1. UNCHANGED <<settings, providers, agents, test, library, capture, profiles, proven>>
    BY DEF AI!ReadModels, AI!configVars, AI!profileVars
  <1>2. AI!Leave(r) \/ AI!Publish(r, None) \/ (AI!Step(r, it) /\ UNCHANGED cache)
    BY DEF AI!ReadModels, NowModels
  <1>3. ReaderOk(it)
    <2>1. /\ DOMAIN it = ReaderFields /\ it.pc = "publish" /\ it.models = models
          /\ it.observed = old.observed /\ it.was = old.was
          /\ it.active = old.active /\ it.view = old.view
      <3> HIDE DEF models, old
      <3> QED BY <1>0 DEF ReaderOk, ReaderFields
    <2>2. ASSUME old.observed = settings.revision PROVE Fresh(it)
      <3>1. Fresh(old)
        BY <1>0, <2>2 DEF ReaderOk
      <3>2. old.view.ready = NowReady
        BY <1>0, <3>1 DEF Fresh
      <3>3. models = {m \in NowModels : m[1] \in NowReady}
        BY <3>2
      <3> HIDE DEF it, old, models
      <3> QED BY <1>0, <2>1, <3>1, <3>3 DEF Fresh
    <2> HIDE DEF it, old, models
    <2> QED BY <1>0, <2>1, <2>2 DEF ReaderOk
  <1> HIDE DEF it
  <1> QED BY <1>1, <1>2, <1>3, ReaderLeaves, ReaderPublishes, ReaderGoesOn

\* What is published is what the database holds at its revision.
LEMMA ReaderPublishesBuilt ==
    ASSUME AIInv, NEW r \in Readers, AI!PublishBuilt(r) PROVE AIInv'
  <1> DEFINE old == readers[r]
             runtime == [policy |-> old.active.policy,
                         reviewer |-> IF old.view.configured THEN None ELSE old.active.connection,
                         agents |-> old.models]
  <1>0. ReaderOk(old) /\ old.pc = "publish"
    BY DEF AIInv, ReaderInv, AI!PublishBuilt, AI!At
  <1>1. UNCHANGED <<settings, providers, agents, test, library, capture, profiles, proven>>
    BY DEF AI!PublishBuilt, AI!configVars, AI!profileVars
  <1>2. AI!Leave(r) \/ (settings.revision = old.observed /\ AI!Publish(r, runtime))
    BY DEF AI!PublishBuilt
  <1>3. CASE settings.revision = old.observed /\ AI!Publish(r, runtime)
    <2>1. Fresh(old)
      BY <1>0, <1>3 DEF ReaderOk
    <2>2. AI!RuntimeNow =
            [policy |-> settings.policy,
             reviewer |-> IF NowConfigured \/ NowActive = None THEN None ELSE NowActive.connection,
             agents |-> IF NowConfigured THEN {m \in NowModels : m[1] \in NowReady} ELSE {}]
      BY DEF AI!RuntimeNow, NowConfigured, NowActive, NowModels, NowReady
    <2>3. runtime = AI!RuntimeNow
      <3> HIDE DEF old
      <3>1. CASE NowConfigured
        BY <1>0, <2>1, <2>2, <3>1 DEF Fresh
      <3>2. CASE ~NowConfigured
        BY <1>0, <2>1, <2>2, <3>2 DEF Fresh
      <3> QED BY <3>1, <3>2
    <2>4. \A m \in AI!RuntimeNow.agents : m[2] \in proven
      BY <2>2, ReadyIsTested
    <2>5. old.was = AI!RuntimeNow
      BY <2>1 DEF Fresh
    <2> HIDE DEF runtime
    <2> QED BY <1>1, <1>3, <2>3, <2>4, <2>5, ReaderPublishes
  <1> QED BY <1>1, <1>2, <1>3, ReaderLeaves

LEMMA AICurrent == ASSUME AIInv, NEW r \in Readers, AI!Current(r) PROVE AIInv'
  BY ReaderObserves, ReaderReads, ReaderCompares, ReaderBuilds, ReaderReadsModels, ReaderPublishesBuilt
  DEF AI!Current

\* A step that leaves the configuration and the worker's runtime alone.
LEMMA ProfilesMove ==
    ASSUME AIInv, library' \in Nat, CaptureInv', AI!ProfileUnmixed',
           UNCHANGED <<settings, providers, agents, test, cache, readers, proven>>
    PROVE  AIInv'
  <1>1. ConfigType' /\ TestInv' /\ \A a \in Agents : TestedRow(agents[a])'
    BY TestedStays DEF AIInv, ConfigType, TestInv, TestedRow
  <1>2. ASSUME NEW r \in Readers PROVE ReaderInv(r)'
    BY ConfigStays DEF AIInv, ReaderInv, ReaderOk, Fresh
  <1>3. AI!RuntimeSound'
    BY DEF AIInv, AI!RuntimeSound, AI!RuntimeUnmixed, AI!RuntimeTested
  <1> QED BY <1>1, <1>2, <1>3 DEF AIInv

\* Knowledge that changed makes the chunks of a profile's stamp outdated.
LEMMA AIEditLibrary == ASSUME AIInv, AI!EditLibrary PROVE AIInv'
  <1>1. /\ library' = library + 1 /\ library \in Nat /\ settings.revision \in Nat
        /\ UNCHANGED <<settings, providers, agents, test, cache, readers, capture, profiles, proven>>
    BY DEF AI!EditLibrary, AI!configVars, AI!runtimeVars, AI!profileVars, AIInv, ConfigType
  <1>2. CaptureInv'
    BY <1>1, ConfigStays DEF AIInv, CaptureInv
  <1>3. AI!ProfileUnmixed'
    BY <1>1 DEF AIInv, AI!ProfileUnmixed
  <1> QED BY <1>1, <1>2, <1>3, ProfilesMove

\* The stamp and each of the three reads after it.
LEMMA AICapture ==
    ASSUME AIInv, AI!TakeStamp \/ AI!CaptureModels \/ AI!CapturePolicy \/ AI!CaptureChunks
    PROVE  AIInv'
  <1>1. /\ UNCHANGED <<settings, providers, agents, test, library, cache, readers, profiles, proven>>
        /\ library \in Nat /\ settings.revision \in Nat /\ CaptureInv
    BY DEF AI!TakeStamp, AI!CaptureModels, AI!CapturePolicy, AI!CaptureChunks,
           AI!configVars, AI!runtimeVars, AIInv, ConfigType
  <1>2. ASSUME capture' = AI!NoCapture PROVE CaptureInv'
    BY <1>1, <1>2 DEF CaptureInv, CaptureFields, AI!NoCapture
  <1>3. ASSUME AI!TakeStamp PROVE CaptureInv'
    <2> DEFINE stamp == [ai |-> settings.revision, library |-> library]
               next == [AI!NoCapture EXCEPT !.pc = "models", !.stamp = stamp,
                                            !.was = <<NowModels, settings.policy>>]
    <2>1. capture' = next
      BY <1>3 DEF AI!TakeStamp, AI!Stamp, NowModels
    <2>2. /\ DOMAIN next = CaptureFields /\ next.pc = "models" /\ next.stamp.ai = settings.revision
          /\ next.stamp.library = library /\ next.was = <<NowModels, settings.policy>>
      BY DEF AI!NoCapture, CaptureFields
    <2> HIDE DEF next
    <2> QED BY <1>1, <2>1, <2>2, ConfigStays DEF CaptureInv
  <1>4. ASSUME AI!CaptureModels, capture' = [capture EXCEPT !.pc = "policy", !.models = NowModels]
        PROVE  CaptureInv'
    <2> DEFINE next == [capture EXCEPT !.pc = "policy", !.models = NowModels]
    <2>1. /\ DOMAIN next = CaptureFields /\ next.pc = "policy" /\ next.models = NowModels
          /\ next.stamp = capture.stamp /\ next.was = capture.was
      BY <1>1 DEF CaptureInv, CaptureFields
    <2>2. capture' = next /\ capture.pc = "models"
      BY <1>4 DEF AI!CaptureModels
    <2> HIDE DEF next
    <2> QED BY <1>1, <2>1, <2>2, ConfigStays DEF CaptureInv
  <1>5. ASSUME AI!CapturePolicy PROVE CaptureInv'
    <2> DEFINE next == [capture EXCEPT !.pc = "chunks", !.policy = settings.policy]
    <2>1. /\ DOMAIN next = CaptureFields /\ next.pc = "chunks" /\ next.policy = settings.policy
          /\ next.stamp = capture.stamp /\ next.was = capture.was /\ next.models = capture.models
      BY <1>1 DEF CaptureInv, CaptureFields
    <2>2. capture' = next /\ capture.pc = "policy"
      BY <1>5 DEF AI!CapturePolicy
    <2> HIDE DEF next
    <2> QED BY <1>1, <2>1, <2>2, ConfigStays DEF CaptureInv
  <1>6. ASSUME AI!CaptureChunks PROVE CaptureInv'
    <2> DEFINE next == [capture EXCEPT !.pc = "save", !.chunks = library]
    <2>1. /\ DOMAIN next = CaptureFields /\ next.pc = "save" /\ next.chunks = library
          /\ next.stamp = capture.stamp /\ next.was = capture.was /\ next.models = capture.models
          /\ next.policy = capture.policy
      BY <1>1 DEF CaptureInv, CaptureFields
    <2>2. capture' = next /\ capture.pc = "chunks"
      BY <1>6 DEF AI!CaptureChunks
    <2> HIDE DEF next
    <2> QED BY <1>1, <2>1, <2>2, ConfigStays DEF CaptureInv
  <1>7. AI!CaptureModels =>
            capture' = AI!NoCapture \/ capture' = [capture EXCEPT !.pc = "policy", !.models = NowModels]
    BY DEF AI!CaptureModels, NowModels
  <1>8. CaptureInv'
    BY <1>2, <1>3, <1>4, <1>5, <1>6, <1>7
  <1>9. AI!ProfileUnmixed'
    BY <1>1 DEF AIInv, AI!ProfileUnmixed
  <1> QED BY <1>1, <1>8, <1>9, ProfilesMove

\* What is saved under the stamp of now is what was read since.
LEMMA AISaveProfile == ASSUME AIInv, AI!SaveProfile PROVE AIInv'
  <1> DEFINE saved_ == [capture EXCEPT !.pc = "saved"]
  <1>1. /\ UNCHANGED <<settings, providers, agents, test, library, cache, readers, proven>>
        /\ library \in Nat /\ CaptureInv /\ capture.pc = "save" /\ capture' = AI!NoCapture
        /\ profiles' = IF capture.stamp = AI!Stamp THEN profiles \cup {saved_} ELSE profiles
    BY DEF AI!SaveProfile, AI!configVars, AI!runtimeVars, AIInv, ConfigType
  <1>2. /\ saved_.models = capture.models /\ saved_.policy = capture.policy
        /\ saved_.chunks = capture.chunks /\ saved_.stamp = capture.stamp /\ saved_.was = capture.was
    BY <1>1 DEF CaptureInv, CaptureFields
  <1> HIDE DEF saved_
  <1>3. ASSUME capture.stamp = AI!Stamp
        PROVE  /\ <<saved_.models, saved_.policy>> = saved_.was
               /\ saved_.chunks = saved_.stamp.library
    <2>1. capture.stamp.ai = settings.revision /\ capture.stamp.library = library
      BY <1>3 DEF AI!Stamp
    <2> QED BY <1>1, <1>2, <2>1 DEF CaptureInv
  <1>4. AI!ProfileUnmixed'
    BY <1>1, <1>3 DEF AIInv, AI!ProfileUnmixed
  <1>5. CaptureInv'
    BY <1>1 DEF CaptureInv, CaptureFields, AI!NoCapture
  <1> QED BY <1>1, <1>4, <1>5, ProfilesMove

LEMMA AIStep == ASSUME AIInv, [AI!AINext]_aiVars PROVE AIInv'
  <1>1. CASE UNCHANGED aiVars
    <2>1. CaptureInv' /\ AI!ProfileUnmixed' /\ library' \in Nat
      BY <1>1, ConfigStays DEF aiVars, AIInv, ConfigType, CaptureInv, AI!ProfileUnmixed
    <2> QED BY <1>1, <2>1, ProfilesMove DEF aiVars
  <1>2. CASE AI!AINext
    BY <1>2, AIAdminister, AICurrent, AIEditLibrary, AICapture, AISaveProfile
    DEF AI!AINext, AI!CaptureProfile
  <1> QED BY <1>1, <1>2

-----------------------------------------------------------------------------
(* The library.  Its documents change only with its revision, so a snapshot  *)
(* of the current revision is the library's content; and each write stays    *)
(* within the capacity and keeps what people wrote.                          *)

Versions == Seq(Sizes) \ {<<>>}
DocumentRow == [versions : Versions, enabled : BOOLEAN, archived : BOOLEAN,
                placed : {"system", "person"}]

LibraryTyped ==
    /\ revision \in Nat \cup {None} /\ pack \in Packs /\ deletions \subseteq Sources
    /\ documents \in [Sources -> DocumentRow \cup {None}]
    /\ handwritten \in [Sources -> Sizes \cup {None}]

Untouched ==
    revision \in {None, 0} =>
       /\ documents = [s \in Sources |-> None] /\ handwritten = [s \in Sources |-> None]
       /\ deletions = {}

Served ==
    /\ reading # None => reading \in Nat /\ revision \in Nat /\ reading <= revision
    /\ snapshot # None => /\ snapshot.revision \in Nat /\ revision \in Nat
                          /\ snapshot.revision <= revision
                          /\ snapshot.revision = revision => snapshot.chunks = Library!Current

\* What is kept at one path.
KeptAt(s, docs, hand, gone) ==
    /\ hand[s] # None /\ hand[s] \notin Previous[s] =>
          docs[s] # None /\ Library!Content(docs[s]) = hand[s]
    /\ docs[s] # None /\ docs[s].placed = "system" => s \notin gone

StoredIn(docs) == {s \in Sources : docs[s] # None}
InCapacity(docs) ==
    Library!BytesOf(docs, Sources) <= MaxTotal /\ Library!Cardinality(StoredIn(docs)) <= MaxFiles

LibraryInv ==
    /\ LibraryTyped /\ Untouched /\ Served
    /\ \A s \in Sources : KeptAt(s, documents, handwritten, deletions)
    /\ InCapacity(documents)

LEMMA DocumentsAreSome == None \notin DocumentRow
  BY LibraryAssumption DEF DocumentRow, Versions

LEMMA LibraryCardinality == \A S : Library!Cardinality(S) = Cardinality(S)
  BY DEF Library!Cardinality, Cardinality

\* The text of a document is one of its contents, and a number.
LEMMA ContentIsSize ==
    ASSUME NEW d \in DocumentRow
    PROVE  Library!Content(d) \in Sizes /\ Library!Content(d) \in Nat
  <1> DEFINE v == d.versions
  <1>1. v \in Seq(Sizes) /\ v # <<>>
    BY DEF DocumentRow, Versions
  <1>2. Library!Content(d) = v[Len(v)]
    BY DEF Library!Content
  <1> HIDE DEF v
  <1>3. v[Len(v)] \in Sizes
    BY <1>1
  <1> QED BY <1>2, <1>3, LibraryAssumption

LEMMA NewDocuments ==
    ASSUME NEW content \in Sizes, NEW enabled \in BOOLEAN, NEW placed \in {"system", "person"}
    PROVE  /\ Library!NewDocument(content, enabled, placed) \in DocumentRow
           /\ Library!Content(Library!NewDocument(content, enabled, placed)) = content
           /\ Library!NewDocument(content, enabled, placed).placed = placed
           /\ Library!NewDocument(content, enabled, placed).enabled = enabled
  <1> DEFINE one == <<content>>
             d == Library!NewDocument(content, enabled, placed)
  <1>1. one \in Versions /\ Len(one) = 1 /\ one[1] = content
    BY DEF Versions
  <1>2. d = [versions |-> one, enabled |-> enabled, archived |-> FALSE, placed |-> placed]
    BY DEF Library!NewDocument
  <1> HIDE DEF one, d
  <1>3. d \in DocumentRow
    BY <1>1, <1>2 DEF DocumentRow
  <1>4. d.versions = one /\ d.placed = placed /\ d.enabled = enabled
    BY <1>2
  <1> QED BY <1>1, <1>3, <1>4 DEF d, Library!Content

\* Documents that take bytes have a number of them.
Weighed(docs) ==
    \A s \in Sources : Library!Active(docs[s]) => Library!Content(docs[s]) \in Nat

LEMMA RowsWeighed ==
    ASSUME NEW docs \in [Sources -> DocumentRow \cup {None}]
    PROVE  Weighed(docs)
  BY ContentIsSize DEF Weighed, Library!Active

LEMMA BytesFinite ==
    ASSUME NEW docs, Weighed(docs), NEW S \in SUBSET Sources
    PROVE  IsFiniteSet(Library!BytesIn(docs, S)) /\ Library!BytesOf(docs, S) \in Nat
  <1> DEFINE T == {t \in S : Library!Active(docs[t])}
             g == [s \in T |-> {s} \X (1..Library!Content(docs[s]))]
             G == {{s} \X (1..Library!Content(docs[s])) : s \in T}
  <1>1. IsFiniteSet(T)
    BY FS_Subset, LibraryAssumption
  <1>2. g \in Surjection(T, G)
    BY DEF Surjection
  <1>3. IsFiniteSet(G)
    <2> HIDE DEF T, g, G
    <2> QED BY <1>1, <1>2, FS_Surjection
  <1>4. \A x \in G : IsFiniteSet(x)
    <2>1. ASSUME NEW s \in T
          PROVE  IsFiniteSet({s} \X (1..Library!Content(docs[s])))
      <3> DEFINE n == Library!Content(docs[s])
      <3>1. n \in Nat
        BY DEF Weighed
      <3> HIDE DEF n
      <3>2. IsFiniteSet(1..n)
        BY <3>1, FS_Interval
      <3>3. IsFiniteSet({s})
        BY FS_Singleton
      <3>4. IsFiniteSet({s} \X (1..n))
        BY <3>2, <3>3, FS_Product
      <3> QED BY <3>4 DEF n
    <2> QED BY <2>1
  <1>5. Library!BytesIn(docs, S) = UNION G
    BY DEF Library!BytesIn
  <1> HIDE DEF G
  <1>6. IsFiniteSet(Library!BytesIn(docs, S))
    BY <1>3, <1>4, <1>5, FS_UNION
  <1> QED BY <1>6, FS_CardinalityType, LibraryCardinality DEF Library!BytesOf

\* The bytes at one path, and those at all others.
LEMMA BytesSplit ==
    ASSUME NEW docs, Weighed(docs), NEW s \in Sources
    PROVE  /\ Library!Active(docs[s]) =>
                Library!BytesOf(docs, Sources) =
                   Library!BytesOf(docs, Sources \ {s}) + Library!Content(docs[s])
           /\ ~Library!Active(docs[s]) =>
                Library!BytesOf(docs, Sources) = Library!BytesOf(docs, Sources \ {s})
  <1> DEFINE all == Library!BytesIn(docs, Sources)
             rest == Library!BytesIn(docs, Sources \ {s})
             n == Library!Content(docs[s])
             own == {s} \X (1..n)
  <1>1. IsFiniteSet(rest) /\ Library!BytesOf(docs, Sources \ {s}) \in Nat
    BY BytesFinite
  <1>2. CASE ~Library!Active(docs[s])
    <2>1. {t \in Sources : Library!Active(docs[t])} = {t \in Sources \ {s} : Library!Active(docs[t])}
      BY <1>2
    <2>2. all = rest
      BY <2>1 DEF Library!BytesIn
    <2> QED BY <1>2, <2>2 DEF Library!BytesOf
  <1>3. CASE Library!Active(docs[s])
    <2>1. n \in Nat
      BY <1>3 DEF Weighed
    <2>2. all = rest \cup own
      BY <1>3 DEF Library!BytesIn
    <2>3. rest \cap own = {}
      BY DEF Library!BytesIn
    <2> HIDE DEF n
    <2>4. IsFiniteSet(own) /\ Cardinality(own) = n
      <3>1. IsFiniteSet(1..n) /\ Cardinality(1..n) = n
        BY <2>1, FS_Interval
      <3>2. IsFiniteSet({s}) /\ Cardinality({s}) = 1
        BY FS_Singleton
      <3>3. IsFiniteSet(own) /\ Cardinality(own) = Cardinality({s}) * Cardinality(1..n)
        BY <3>1, <3>2, FS_Product
      <3> QED BY <2>1, <3>1, <3>2, <3>3
    <2> HIDE DEF all, rest, own
    <2>5. Cardinality(all) = Cardinality(rest) + n
      <3>1. Cardinality(all) = Cardinality(rest) + Cardinality(own) - Cardinality(rest \cap own)
        BY <1>1, <2>2, <2>4, FS_Union
      <3>2. Cardinality(rest \cap own) = 0 /\ Cardinality(rest) \in Nat
        BY <1>1, <2>3, FS_EmptySet, FS_CardinalityType
      <3> QED BY <2>1, <2>4, <3>1, <3>2
    <2> QED BY <1>3, <2>5, LibraryCardinality DEF all, rest, n, Library!BytesOf
  <1> QED BY <1>2, <1>3

LEMMA BytesSame ==
    ASSUME NEW docs, NEW other, NEW S \in SUBSET Sources, \A s \in S : other[s] = docs[s]
    PROVE  Library!BytesOf(other, S) = Library!BytesOf(docs, S)
  <1>1. {t \in S : Library!Active(other[t])} = {t \in S : Library!Active(docs[t])}
    OBVIOUS
  <1>2. Library!BytesIn(other, S) = Library!BytesIn(docs, S)
    BY <1>1 DEF Library!BytesIn
  <1> QED BY <1>2 DEF Library!BytesOf

\* One document is replaced: the capacity holds if the new one fits or takes no bytes.
LEMMA BytesPut ==
    ASSUME NEW docs, Weighed(docs), NEW other, Weighed(other), NEW s \in Sources,
           \A t \in Sources \ {s} : other[t] = docs[t],
           Library!BytesOf(docs, Sources) <= MaxTotal,
           Library!Active(other[s]) =>
              Library!BytesOf(docs, Sources \ {s}) + Library!Content(other[s]) <= MaxTotal
    PROVE  Library!BytesOf(other, Sources) <= MaxTotal
  <1> DEFINE rest == Sources \ {s}
  <1>1. Library!BytesOf(other, rest) = Library!BytesOf(docs, rest)
    BY BytesSame
  <1>2. Library!BytesOf(docs, rest) \in Nat /\ Library!BytesOf(docs, rest) <= MaxTotal
    <2>1. Library!Active(docs[s]) => Library!Content(docs[s]) \in Nat
      BY DEF Weighed
    <2>2. Library!BytesOf(docs, rest) \in Nat
      BY BytesFinite
    <2> QED BY <2>1, <2>2, BytesSplit, LibraryAssumption
  <1>3. CASE Library!Active(other[s])
    BY <1>1, <1>3, BytesSplit
  <1>4. CASE ~Library!Active(other[s])
    BY <1>1, <1>2, <1>4, BytesSplit
  <1> QED BY <1>3, <1>4

\* A document leaves a path, and one is put at a path that is free then.
LEMMA BytesMove ==
    ASSUME NEW base, Weighed(base), NEW mid, Weighed(mid), NEW other, Weighed(other),
           NEW s \in Sources, NEW to \in Sources,
           \A t \in Sources \ {s} : mid[t] = base[t],
           \A t \in Sources \ {to} : other[t] = mid[t],
           ~Library!Active(mid[s]), ~Library!Active(mid[to]),
           Library!BytesOf(base, Sources) <= MaxTotal,
           Library!Active(other[to]) =>
              Library!BytesOf(base, Sources \ {s}) + Library!Content(other[to]) <= MaxTotal
    PROVE  Library!BytesOf(other, Sources) <= MaxTotal
  <1>1. Library!BytesOf(mid, Sources) <= MaxTotal
    BY BytesPut
  <1>2. Library!BytesOf(mid, Sources \ {to}) = Library!BytesOf(base, Sources \ {s})
    <2>1. Library!BytesOf(mid, Sources \ {to}) = Library!BytesOf(mid, Sources \ {s})
      BY BytesSplit
    <2>2. Library!BytesOf(mid, Sources \ {s}) = Library!BytesOf(base, Sources \ {s})
      BY BytesSame
    <2> QED BY <2>1, <2>2
  <1>3. Library!Active(other[to]) =>
          Library!BytesOf(mid, Sources \ {to}) + Library!Content(other[to]) <= MaxTotal
    BY <1>2
  <1> QED BY <1>1, <1>3, BytesPut

\* A document is put at a path that had it or none, and nothing else changes.
LEMMA LibraryPut ==
    ASSUME LibraryInv, NEW s \in Sources, NEW to \in Sources, NEW d \in DocumentRow,
           NEW content \in Sizes, Library!Content(d) = content,
           NEW h \in Sizes \cup {None}, h # None /\ h \notin Previous[to] => content = h,
           to # s => documents[s] # None /\ documents[to] = None /\ d.placed = "person",
           documents[s] = None =>
              d.placed = "person" /\ Library!Cardinality(Library!Stored) < MaxFiles,
           documents[s] # None /\ to = s => d.placed = documents[s].placed,
           Library!Active(d) => Library!Fits(s, content)
    PROVE  LET docs == [documents EXCEPT ![s] = None, ![to] = d]
               hand == [[handwritten EXCEPT ![s] = None] EXCEPT ![to] = h]
           IN  /\ docs \in [Sources -> DocumentRow \cup {None}]
               /\ hand \in [Sources -> Sizes \cup {None}]
               /\ \A t \in Sources : KeptAt(t, docs, hand, deletions)
               /\ InCapacity(docs)
  <1> DEFINE docs == [documents EXCEPT ![s] = None, ![to] = d]
             hand == [[handwritten EXCEPT ![s] = None] EXCEPT ![to] = h]
  <1>1. docs \in [Sources -> DocumentRow \cup {None}] /\ hand \in [Sources -> Sizes \cup {None}]
    BY DEF LibraryInv, LibraryTyped
  <1>2. /\ docs[to] = d /\ hand[to] = h /\ d # None
        /\ to # s => docs[s] = None /\ hand[s] = None
        /\ \A t \in Sources \ {s, to} : docs[t] = documents[t] /\ hand[t] = handwritten[t]
    BY DocumentsAreSome DEF LibraryInv, LibraryTyped
  <1> HIDE DEF docs, hand
  <1>3. ASSUME NEW t \in Sources
        PROVE  KeptAt(t, docs, hand, deletions)
    <2>1. KeptAt(t, documents, handwritten, deletions) /\ KeptAt(s, documents, handwritten, deletions)
      BY DEF LibraryInv
    <2>2. CASE t = to
      BY <1>2, <2>1, <2>2 DEF KeptAt
    <2>3. CASE t # to /\ t = s
      BY <1>2, <2>3 DEF KeptAt
    <2>4. CASE t # to /\ t # s
      <3>1. docs[t] = documents[t] /\ hand[t] = handwritten[t]
        BY <1>2, <2>4
      <3> QED BY <2>1, <3>1 DEF KeptAt
    <2> QED BY <2>2, <2>3, <2>4
  <1> DEFINE mid == [documents EXCEPT ![s] = None]
  <1>4. mid \in [Sources -> DocumentRow \cup {None}] /\ documents \in [Sources -> DocumentRow \cup {None}]
    BY DEF LibraryInv, LibraryTyped
  <1>5. /\ \A t \in Sources \ {s} : mid[t] = documents[t]
        /\ \A t \in Sources \ {to} : docs[t] = mid[t]
        /\ mid[s] = None /\ mid[to] = None
    BY <1>2 DEF LibraryInv, LibraryTyped, docs
  <1> HIDE DEF mid
  <1>6. Weighed(mid) /\ Weighed(documents) /\ Weighed(docs)
    BY <1>1, <1>4, RowsWeighed
  <1>7. ~Library!Active(mid[s]) /\ ~Library!Active(mid[to])
    BY <1>5 DEF Library!Active
  <1>8. Library!BytesOf(documents, Sources) <= MaxTotal
    BY DEF LibraryInv, InCapacity
  <1>9. Library!Active(docs[to]) =>
          Library!BytesOf(documents, Sources \ {s}) + Library!Content(docs[to]) <= MaxTotal
    BY <1>2 DEF Library!Fits, Library!EnabledBytes
  <1>10. Library!BytesOf(docs, Sources) <= MaxTotal
    BY <1>5, <1>6, <1>7, <1>8, <1>9, BytesMove
  <1>11. Cardinality(StoredIn(docs)) <= MaxFiles
    <2> DEFINE A == StoredIn(documents)
    <2>1. IsFiniteSet(A) /\ Cardinality(A) \in Nat /\ Cardinality(A) <= MaxFiles
      BY FS_Subset, FS_CardinalityType, LibraryAssumption, LibraryCardinality
         DEF StoredIn, LibraryInv, InCapacity
    <2>2. Library!Stored = A
      BY DEF Library!Stored, StoredIn
    <2>3. StoredIn(docs) = (A \ {s}) \cup {to}
      BY <1>2 DEF StoredIn
    <2>4. to \notin A \ {s}
      BY DEF StoredIn
    <2>5. s \in A <=> documents[s] # None
      BY DEF StoredIn
    <2> HIDE DEF A
    <2>6. IsFiniteSet(A \ {s}) /\ Cardinality(A \ {s}) = IF s \in A THEN Cardinality(A) - 1 ELSE Cardinality(A)
      BY <2>1, FS_RemoveElement
    <2>7. Cardinality((A \ {s}) \cup {to}) = Cardinality(A \ {s}) + 1
      BY <2>4, <2>6, FS_AddElement
    <2>8. s \notin A => Cardinality(A) < MaxFiles
      BY <2>2, <2>5, LibraryCardinality
    <2>9. MaxFiles \in Nat
      BY LibraryAssumption
    <2> DEFINE n == Cardinality(A)
               m == Cardinality(A \ {s})
    <2>10. m + 1 <= MaxFiles
      <3>1. CASE s \in A
        <4>1. n \in Nat /\ n <= MaxFiles /\ m = n - 1
          BY <2>1, <2>6, <3>1
        <4> QED BY <2>9, <4>1
      <3>2. CASE s \notin A
        <4>1. n \in Nat /\ n < MaxFiles /\ m = n
          BY <2>1, <2>6, <2>8, <3>2
        <4> QED BY <2>9, <4>1
      <3> QED BY <3>1, <3>2
    <2> QED BY <2>3, <2>7, <2>10
  <1>12. InCapacity(docs)
    BY <1>10, <1>11, LibraryCardinality DEF InCapacity
  <1> QED BY <1>1, <1>3, <1>12 DEF docs, hand

\* A write under a new revision keeps every snapshot and reading older than it.
LEMMA LibraryEdited ==
    ASSUME LibraryInv, NEW after, Library!Edit(after)
    PROVE  /\ revision \in Nat /\ revision' = revision + 1 /\ documents' = after
           /\ pack' = pack /\ Untouched' /\ Served'
  <1>1. revision \in Nat /\ revision' = revision + 1
    BY DEF Library!Edit, LibraryInv, LibraryTyped
  <1>2. documents' = after /\ UNCHANGED <<pack, snapshot, reading>>
    BY DEF Library!Edit
  <1>3. Untouched'
    BY <1>1, LibraryAssumption DEF Untouched
  <1>4. Served'
    BY <1>1, <1>2 DEF Served, LibraryInv
  <1> QED BY <1>1, <1>2, <1>3, <1>4

LEMMA LibraryWritten ==
    ASSUME LibraryInv, NEW s \in Sources, NEW to \in Sources, NEW d \in DocumentRow,
           NEW content \in Sizes, Library!Content(d) = content, deletions' = deletions,
           NEW h \in Sizes \cup {None}, h # None /\ h \notin Previous[to] => content = h,
           Library!Edit([documents EXCEPT ![s] = None, ![to] = d]),
           handwritten' = [[handwritten EXCEPT ![s] = None] EXCEPT ![to] = h],
           to # s => documents[s] # None /\ documents[to] = None /\ d.placed = "person",
           documents[s] = None =>
              d.placed = "person" /\ Library!Cardinality(Library!Stored) < MaxFiles,
           documents[s] # None /\ to = s => d.placed = documents[s].placed,
           Library!Active(d) => Library!Fits(s, content)
    PROVE  LibraryInv'
  <1> DEFINE docs == [documents EXCEPT ![s] = None, ![to] = d]
             hand == [[handwritten EXCEPT ![s] = None] EXCEPT ![to] = h]
  <1>1. /\ revision \in Nat /\ revision' = revision + 1 /\ documents' = docs
        /\ pack' = pack /\ Untouched' /\ Served' /\ handwritten' = hand
    BY LibraryEdited
  <1>2. /\ docs \in [Sources -> DocumentRow \cup {None}]
        /\ hand \in [Sources -> Sizes \cup {None}]
        /\ \A t \in Sources : KeptAt(t, docs, hand, deletions)
        /\ InCapacity(docs)
    BY LibraryPut
  <1> HIDE DEF docs, hand
  <1>3. LibraryTyped'
    BY <1>1, <1>2 DEF LibraryInv, LibraryTyped
  <1>4. \A t \in Sources : KeptAt(t, documents', handwritten', deletions')
    BY <1>1, <1>2
  <1>5. InCapacity(documents')
    BY <1>1, <1>2
  <1>6. (\A t \in Sources : KeptAt(t, documents, handwritten, deletions))'
    BY <1>4 DEF KeptAt
  <1>7. InCapacity(documents)'
    BY <1>5 DEF InCapacity, StoredIn
  <1> QED BY <1>1, <1>3, <1>6, <1>7 DEF LibraryInv

LEMMA LibraryCreate ==
    ASSUME LibraryInv, NEW s \in Sources, Library!CreateDocument(s)
    PROVE  LibraryInv'
  <1>1. PICK content \in Sizes, enabled \in BOOLEAN :
           /\ enabled => Library!EnabledBytes(Sources) + content <= MaxTotal
           /\ Library!Edit([documents EXCEPT ![s] = Library!NewDocument(content, enabled, "person")])
           /\ handwritten' = [handwritten EXCEPT ![s] = content]
    BY DEF Library!CreateDocument
  <1> DEFINE d == Library!NewDocument(content, enabled, "person")
  <1>2. d \in DocumentRow /\ Library!Content(d) = content /\ d.placed = "person" /\ d.enabled = enabled
    BY NewDocuments
  <1>3. documents[s] = None /\ Library!Cardinality(Library!Stored) < MaxFiles /\ deletions' = deletions
    BY DEF Library!CreateDocument
  <1> HIDE DEF d
  <1>4. Library!Active(d) => Library!Fits(s, content)
    <2>1. Weighed(documents)
      BY RowsWeighed DEF LibraryInv, LibraryTyped
    <2>2. Library!BytesOf(documents, Sources) = Library!BytesOf(documents, Sources \ {s})
      BY <1>3, <2>1, BytesSplit DEF Library!Active
    <2> QED BY <1>1, <1>2, <2>2 DEF Library!Active, Library!Fits, Library!EnabledBytes
  <1>5. /\ [documents EXCEPT ![s] = None, ![s] = d] = [documents EXCEPT ![s] = d]
        /\ [[handwritten EXCEPT ![s] = None] EXCEPT ![s] = content] = [handwritten EXCEPT ![s] = content]
    OBVIOUS
  <1>6. /\ Library!Edit([documents EXCEPT ![s] = None, ![s] = d])
        /\ handwritten' = [[handwritten EXCEPT ![s] = None] EXCEPT ![s] = content]
    BY <1>1, <1>5 DEF d
  <1> QED BY <1>2, <1>3, <1>4, <1>6, LibraryWritten

\* A further version is the current one.
LEMMA VersionAppended ==
    ASSUME NEW v \in Versions, NEW content \in Sizes
    PROVE  /\ Append(v, content) \in Versions
           /\ Append(v, content)[Len(Append(v, content))] = content
  BY DEF Versions

LEMMA LibraryUpdate ==
    ASSUME LibraryInv, NEW s \in Sources, Library!UpdateDocument(s)
    PROVE  LibraryInv'
  <1> DEFINE row == documents[s]
             versions(content) == IF content = Library!Content(row) THEN row.versions
                                  ELSE Append(row.versions, content)
             d(content, enabled, to) ==
                [row EXCEPT !.versions = versions(content), !.enabled = enabled,
                            !.placed = IF to = s THEN row.placed ELSE "person"]
  <1>1. row # None /\ ~row.archived /\ deletions' = deletions /\ row \in DocumentRow
    BY DEF Library!UpdateDocument, LibraryInv, LibraryTyped
  <1>2. PICK content \in Sizes, enabled \in BOOLEAN, to \in Sources :
           /\ to # s => documents[to] = None
           /\ enabled => Library!Fits(s, content)
           /\ Library!Edit([documents EXCEPT ![s] = None, ![to] = d(content, enabled, to)])
           /\ handwritten' = [[handwritten EXCEPT ![s] = None] EXCEPT ![to] = content]
    BY DEF Library!UpdateDocument
  <1> DEFINE vs == versions(content)
             placed == IF to = s THEN row.placed ELSE "person"
             new == d(content, enabled, to)
  <1>3. vs \in Versions /\ vs[Len(vs)] = content
    <2>1. row.versions \in Versions
      BY <1>1 DEF DocumentRow
    <2> QED BY <2>1, VersionAppended DEF Library!Content
  <1>4. placed \in {"system", "person"} /\ (to # s => placed = "person") /\ (to = s => placed = row.placed)
    BY <1>1 DEF DocumentRow
  <1>5. new = [row EXCEPT !.versions = vs, !.enabled = enabled, !.placed = placed]
    OBVIOUS
  <1>6. /\ Library!Edit([documents EXCEPT ![s] = None, ![to] = new])
        /\ handwritten' = [[handwritten EXCEPT ![s] = None] EXCEPT ![to] = content]
    BY <1>2
  <1> HIDE DEF vs, placed, new, versions, d
  <1>7. new \in DocumentRow
    BY <1>1, <1>3, <1>4, <1>5 DEF DocumentRow
  <1>8. new.versions = vs /\ new.enabled = enabled /\ new.placed = placed
    BY <1>1, <1>5 DEF DocumentRow
  <1>9. Library!Content(new) = content
    BY <1>3, <1>8 DEF Library!Content
  <1>10. Library!Active(new) => Library!Fits(s, content)
    BY <1>2, <1>8 DEF Library!Active
  <1> QED BY <1>1, <1>2, <1>4, <1>6, <1>7, <1>8, <1>9, <1>10, LibraryWritten

\* A document stays at its path, as another row of the same origin.
LEMMA LibraryChanged ==
    ASSUME LibraryInv, NEW s \in Sources, documents[s] # None, NEW new \in DocumentRow,
           new.placed = documents[s].placed, deletions' = deletions,
           Library!Edit([documents EXCEPT ![s] = new]),
           \/ handwritten' = [handwritten EXCEPT ![s] = Library!Content(new)]
           \/ handwritten' = handwritten /\ Library!Content(new) = Library!Content(documents[s]),
           Library!Active(new) => Library!Fits(s, Library!Content(new))
    PROVE  LibraryInv'
  <1> DEFINE content == Library!Content(new)
  <1>1. content \in Sizes
    BY ContentIsSize
  <1>2. [documents EXCEPT ![s] = None, ![s] = new] = [documents EXCEPT ![s] = new]
    OBVIOUS
  <1>3. Library!Edit([documents EXCEPT ![s] = None, ![s] = new])
    BY <1>2
  <1>4. PICK h \in Sizes \cup {None} :
           /\ h # None /\ h \notin Previous[s] => content = h
           /\ handwritten' = [[handwritten EXCEPT ![s] = None] EXCEPT ![s] = h]
    <2>1. CASE handwritten' = [handwritten EXCEPT ![s] = content]
      <3>1. handwritten' = [[handwritten EXCEPT ![s] = None] EXCEPT ![s] = content]
        BY <2>1
      <3> HIDE DEF content
      <3> QED BY <1>1, <3>1
    <2>2. CASE handwritten' = handwritten /\ content = Library!Content(documents[s])
      <3>1. handwritten[s] \in Sizes \cup {None} /\ handwritten = [t \in Sources |-> handwritten[t]]
        BY DEF LibraryInv, LibraryTyped
      <3>2. handwritten' = [[handwritten EXCEPT ![s] = None] EXCEPT ![s] = handwritten[s]]
        BY <2>2, <3>1
      <3>3. handwritten[s] # None /\ handwritten[s] \notin Previous[s] => content = handwritten[s]
        BY <2>2 DEF LibraryInv, KeptAt
      <3> HIDE DEF content
      <3> QED BY <3>1, <3>2, <3>3
    <2> QED BY <2>1, <2>2
  <1> HIDE DEF content
  <1>5. content = Library!Content(new)
    BY DEF content
  <1> QED BY <1>1, <1>3, <1>4, <1>5, LibraryWritten

LEMMA LibraryArchive ==
    ASSUME LibraryInv, NEW s \in Sources, NEW archived \in BOOLEAN, Library!ArchiveDocument(s, archived)
    PROVE  LibraryInv'
  <1> DEFINE row == documents[s]
  <1>1. row # None /\ row \in DocumentRow /\ UNCHANGED <<deletions, handwritten>>
    BY DEF Library!ArchiveDocument, LibraryInv, LibraryTyped
  <1>2. PICK enabled \in BOOLEAN :
           /\ ~archived /\ enabled => Library!Fits(s, Library!Content(row))
           /\ Library!Edit([documents EXCEPT ![s].archived = archived, ![s].enabled = ~archived /\ enabled])
    BY DEF Library!ArchiveDocument
  <1> DEFINE on == ~archived /\ enabled
             new == [row EXCEPT !.archived = archived, !.enabled = on]
  <1>3. [documents EXCEPT ![s].archived = archived, ![s].enabled = on] = [documents EXCEPT ![s] = new]
    BY DEF LibraryInv, LibraryTyped
  <1>4. Library!Edit([documents EXCEPT ![s] = new])
    BY <1>2, <1>3
  <1>5. on \in BOOLEAN
    OBVIOUS
  <1> HIDE DEF on
  <1>6. new \in DocumentRow
    BY <1>1, <1>5 DEF DocumentRow
  <1>7. new.versions = row.versions /\ new.placed = row.placed /\ (new.enabled <=> on)
    BY <1>1, <1>5 DEF DocumentRow
  <1> HIDE DEF new
  <1>8. Library!Content(new) = Library!Content(row)
    BY <1>7 DEF Library!Content
  <1>9. Library!Active(new) => Library!Fits(s, Library!Content(new))
    BY <1>2, <1>7, <1>8 DEF Library!Active, on
  <1> QED BY <1>1, <1>4, <1>6, <1>7, <1>8, <1>9, LibraryChanged

LEMMA LibraryRestore ==
    ASSUME LibraryInv, NEW s \in Sources, Library!RestoreVersion(s)
    PROVE  LibraryInv'
  <1> DEFINE row == documents[s]
  <1>1. row # None /\ row \in DocumentRow /\ deletions' = deletions
    BY DEF Library!RestoreVersion, LibraryInv, LibraryTyped
  <1>2. PICK i \in DOMAIN row.versions :
           /\ row.enabled => Library!Fits(s, row.versions[i])
           /\ Library!Edit([documents EXCEPT ![s].versions = Append(row.versions, row.versions[i])])
           /\ handwritten' = [handwritten EXCEPT ![s] = row.versions[i]]
    BY DEF Library!RestoreVersion
  <1> DEFINE v == row.versions
             content == v[i]
             appended == Append(v, content)
             new == [row EXCEPT !.versions = appended]
  <1>3. v \in Versions /\ content \in Sizes
    <2>1. v \in Versions
      BY <1>1 DEF DocumentRow
    <2> HIDE DEF v
    <2>2. i \in 1..Len(v)
      BY <1>2, <2>1 DEF Versions, v
    <2> QED BY <2>1, <2>2 DEF Versions
  <1>4. appended \in Versions /\ appended[Len(appended)] = content
    BY <1>3, VersionAppended
  <1>5. [documents EXCEPT ![s].versions = appended] = [documents EXCEPT ![s] = new]
    BY DEF LibraryInv, LibraryTyped
  <1>6. Library!Edit([documents EXCEPT ![s] = new]) /\ handwritten' = [handwritten EXCEPT ![s] = content]
    BY <1>2, <1>5
  <1>7. row.enabled => Library!Fits(s, content)
    BY <1>2
  <1> HIDE DEF appended, content, v
  <1>8. new \in DocumentRow
    BY <1>1, <1>4 DEF DocumentRow
  <1>9. new.versions = appended /\ new.placed = row.placed /\ new.enabled = row.enabled
    BY <1>1 DEF DocumentRow
  <1> HIDE DEF new
  <1>10. Library!Content(new) = content
    BY <1>4, <1>9 DEF Library!Content
  <1>11. Library!Active(new) => Library!Fits(s, Library!Content(new))
    BY <1>7, <1>9, <1>10 DEF Library!Active
  <1>12. handwritten' = [handwritten EXCEPT ![s] = Library!Content(new)]
    BY <1>6, <1>10
  <1> QED BY <1>1, <1>6, <1>8, <1>9, <1>11, <1>12, LibraryChanged

LEMMA LibraryDelete ==
    ASSUME LibraryInv, NEW s \in Sources, Library!DeleteDocument(s)
    PROVE  LibraryInv'
  <1> DEFINE after == [documents EXCEPT ![s] = None]
             hand == [handwritten EXCEPT ![s] = None]
  <1>1. /\ Library!Edit(after) /\ handwritten' = hand /\ deletions' = deletions \cup {s}
    BY DEF Library!DeleteDocument
  <1>2. /\ revision \in Nat /\ revision' = revision + 1 /\ documents' = after
        /\ pack' = pack /\ Untouched' /\ Served'
    BY <1>1, LibraryEdited
  <1>3. /\ after \in [Sources -> DocumentRow \cup {None}] /\ hand \in [Sources -> Sizes \cup {None}]
        /\ documents \in [Sources -> DocumentRow \cup {None}]
        /\ after[s] = None /\ hand[s] = None
        /\ \A t \in Sources \ {s} : after[t] = documents[t] /\ hand[t] = handwritten[t]
    BY DEF LibraryInv, LibraryTyped
  <1> HIDE DEF after, hand
  <1>4. LibraryTyped'
    BY <1>1, <1>2, <1>3 DEF LibraryInv, LibraryTyped
  <1>5. ASSUME NEW t \in Sources
        PROVE  KeptAt(t, after, hand, deletions')
    <2>1. CASE t = s
      BY <1>3, <2>1 DEF KeptAt
    <2>2. CASE t # s
      <3>1. after[t] = documents[t] /\ hand[t] = handwritten[t] /\ (t \in deletions' => t \in deletions)
        BY <1>1, <1>3, <2>2
      <3> QED BY <3>1 DEF LibraryInv, KeptAt
    <2> QED BY <2>1, <2>2
  <1>6. InCapacity(after)
    <2>1. Weighed(after) /\ Weighed(documents) /\ ~Library!Active(after[s])
      BY <1>3, RowsWeighed DEF Library!Active
    <2>2. Library!BytesOf(after, Sources) <= MaxTotal
      BY <1>3, <2>1, BytesPut DEF LibraryInv, InCapacity
    <2> DEFINE A == StoredIn(documents)
    <2>3. StoredIn(after) \subseteq A
      BY <1>3 DEF StoredIn
    <2>4. IsFiniteSet(A) /\ Cardinality(A) <= MaxFiles
      BY FS_Subset, LibraryAssumption, LibraryCardinality DEF StoredIn, LibraryInv, InCapacity
    <2> HIDE DEF A
    <2>5. /\ Cardinality(StoredIn(after)) <= Cardinality(A)
          /\ Cardinality(StoredIn(after)) \in Nat /\ Cardinality(A) \in Nat /\ MaxFiles \in Nat
      BY <2>3, <2>4, FS_Subset, FS_CardinalityType, LibraryAssumption
    <2>6. Cardinality(StoredIn(after)) <= MaxFiles
      BY <2>4, <2>5
    <2> QED BY <2>2, <2>6, LibraryCardinality DEF InCapacity
  <1>7. (\A t \in Sources : KeptAt(t, documents, handwritten, deletions))'
    BY <1>1, <1>2, <1>5 DEF KeptAt
  <1>8. InCapacity(documents)'
    BY <1>2, <1>6 DEF InCapacity, StoredIn
  <1> QED BY <1>2, <1>4, <1>7, <1>8 DEF LibraryInv

\* What a synchronisation leaves at a path.
LEMMA SyncedAt ==
    ASSUME LibraryInv, NEW s \in Sources, s \notin Library!Conflicts, NEW after, after = Library!Synced(s)
    PROVE  /\ after \in DocumentRow \cup {None}
           /\ documents[s] # None /\ ~Library!Known(s) => after = documents[s]
           /\ after # None /\ after.placed = "system" =>
                s \notin deletions \/ (documents[s] # None /\ documents[s].placed = "system")
  <1> DEFINE d == documents[s]
  <1>1. d \in DocumentRow \cup {None} /\ pack[s] \in Sizes \cup {None}
    BY LibraryAssumption DEF LibraryInv, LibraryTyped
  <1>2. CASE s \in deletions
    BY <1>1, <1>2 DEF Library!Synced
  <1>3. CASE s \notin deletions /\ pack[s] = None
    <2>1. CASE d # None /\ ~d.archived /\ Library!Known(s)
      <3>1. after = [d EXCEPT !.archived = TRUE, !.enabled = FALSE] /\ d \in DocumentRow
        BY <1>1, <1>3, <2>1 DEF Library!Synced
      <3>2. after \in DocumentRow
        BY <3>1 DEF DocumentRow
      <3> QED BY <1>3, <2>1, <3>2
    <2>2. CASE ~(d # None /\ ~d.archived /\ Library!Known(s))
      <3>1. after = d
        BY <1>3, <2>2 DEF Library!Synced
      <3> QED BY <1>1, <1>3, <3>1
    <2> QED BY <2>1, <2>2
  <1>4. CASE s \notin deletions /\ pack[s] # None
    <2>1. CASE d = None
      <3>1. after = Library!NewDocument(pack[s], TRUE, "system") /\ pack[s] \in Sizes
        BY <1>1, <1>4, <2>1 DEF Library!Synced
      <3>2. after \in DocumentRow
        BY <3>1, NewDocuments
      <3> QED BY <1>4, <2>1, <3>2
    <2>2. CASE d # None /\ Library!Content(d) = pack[s]
      <3>1. after = d
        BY <1>4, <2>2 DEF Library!Synced
      <3> QED BY <1>1, <1>4, <3>1
    <2>3. CASE d # None /\ Library!Content(d) # pack[s]
      <3>1. Library!Known(s)
        BY <1>4, <2>3 DEF Library!Conflicts
      <3>2. after = [d EXCEPT !.versions = Append(d.versions, pack[s])] /\ d \in DocumentRow
        BY <1>1, <1>4, <2>3 DEF Library!Synced
      <3>3. Append(d.versions, pack[s]) \in Versions
        BY <1>1, <1>4, <3>2, VersionAppended DEF DocumentRow
      <3>4. after \in DocumentRow
        BY <3>2, <3>3 DEF DocumentRow
      <3> QED BY <1>4, <2>3, <3>1, <3>4
    <2> QED BY <2>1, <2>2, <2>3
  <1> QED BY <1>2, <1>3, <1>4

LEMMA LibrarySync ==
    ASSUME LibraryInv, Library!SyncPack
    PROVE  LibraryInv'
  <1> DEFINE after == [s \in Sources |-> Library!Synced(s)]
             hand == [s \in Sources |-> IF documents[s] # None /\ Library!Known(s) THEN None ELSE handwritten[s]]
  <1>1. /\ Library!Conflicts = {} /\ Library!Edit(after) /\ handwritten' = hand /\ deletions' = deletions
        /\ Library!Cardinality({s \in Sources : after[s] # None}) <= MaxFiles
        /\ Library!BytesOf(after, Sources) <= MaxTotal
    BY DEF Library!SyncPack
  <1>2. /\ revision \in Nat /\ revision' = revision + 1 /\ documents' = after
        /\ pack' = pack /\ Untouched' /\ Served'
    BY <1>1, LibraryEdited
  <1>3. InCapacity(after)
    BY <1>1 DEF InCapacity, StoredIn
  <1>4. \A s \in Sources : /\ after[s] \in DocumentRow \cup {None}
                           /\ documents[s] # None /\ ~Library!Known(s) => after[s] = documents[s]
                           /\ after[s] # None /\ after[s].placed = "system" =>
                                s \notin deletions \/ (documents[s] # None /\ documents[s].placed = "system")
    BY <1>1, SyncedAt
  <1>5. after \in [Sources -> DocumentRow \cup {None}] /\ hand \in [Sources -> Sizes \cup {None}]
    <2>1. after \in [Sources -> DocumentRow \cup {None}]
      BY <1>4
    <2>2. hand \in [Sources -> Sizes \cup {None}]
      BY DEF LibraryInv, LibraryTyped
    <2> QED BY <2>1, <2>2
  <1>6. \A s \in Sources : hand[s] = handwritten[s] \/ hand[s] = None
    OBVIOUS
  <1>7. \A s \in Sources : hand[s] # None => ~(documents[s] # None /\ Library!Known(s))
    OBVIOUS
  <1> HIDE DEF after, hand
  <1>8. ASSUME NEW s \in Sources
        PROVE  KeptAt(s, after, hand, deletions)
    <2>1. KeptAt(s, documents, handwritten, deletions)
      BY DEF LibraryInv
    <2> QED BY <1>4, <1>6, <1>7, <2>1 DEF KeptAt
  <1>9. LibraryTyped'
    BY <1>1, <1>2, <1>5 DEF LibraryInv, LibraryTyped
  <1>10. (\A t \in Sources : KeptAt(t, documents, handwritten, deletions))'
    BY <1>1, <1>2, <1>8 DEF KeptAt
  <1>11. InCapacity(documents)'
    BY <1>2, <1>3 DEF InCapacity, StoredIn
  <1> QED BY <1>2, <1>9, <1>10, <1>11 DEF LibraryInv

LEMMA SeededIs ==
    ASSUME NEW release \in Packs
    PROVE  /\ Library!Seeded(release) \in [Sources -> DocumentRow \cup {None}]
           /\ \A s \in Sources : (release[s] = None) <=> (Library!Seeded(release)[s] = None)
  <1>1. ASSUME NEW s \in Sources
        PROVE  /\ Library!Seeded(release)[s] \in DocumentRow \cup {None}
               /\ (release[s] = None) <=> (Library!Seeded(release)[s] = None)
    <2>1. release[s] \in Sizes \cup {None}
      BY LibraryAssumption
    <2>2. CASE release[s] = None
      BY <2>2 DEF Library!Seeded
    <2>3. CASE release[s] # None
      <3>1. Library!Seeded(release)[s] = Library!NewDocument(release[s], TRUE, "system")
        BY <2>3 DEF Library!Seeded
      <3>2. Library!Seeded(release)[s] \in DocumentRow
        BY <2>1, <2>3, <3>1, NewDocuments
      <3> QED BY <2>3, <3>2, DocumentsAreSome
    <2> QED BY <2>2, <2>3
  <1>2. Library!Seeded(release) = [s \in Sources |-> Library!Seeded(release)[s]]
    BY DEF Library!Seeded
  <1> QED BY <1>1, <1>2

LEMMA LibrarySeed ==
    ASSUME LibraryInv, Library!Seed
    PROVE  LibraryInv'
  <1> DEFINE seeded == Library!Seeded(pack)
  <1>1. /\ revision \in {None, 0} /\ documents' = seeded
        /\ revision' = IF Library!Shipped(pack) # {} THEN 1 ELSE 0
        /\ UNCHANGED <<deletions, pack, snapshot, reading, handwritten>>
    BY DEF Library!Seed
  <1>2. pack \in Packs /\ deletions = {} /\ documents = [s \in Sources |-> None]
        /\ handwritten = [s \in Sources |-> None]
    BY <1>1 DEF LibraryInv, LibraryTyped, Untouched
  <1>3. /\ seeded \in [Sources -> DocumentRow \cup {None}]
        /\ \A s \in Sources : (pack[s] = None) <=> (seeded[s] = None)
    BY <1>2, SeededIs
  <1>4. Library!PackFits(pack)
    BY <1>2, PackAssumption
  <1> HIDE DEF seeded
  <1>5. InCapacity(seeded)
    <2>1. StoredIn(seeded) = Library!Shipped(pack)
      BY <1>3 DEF StoredIn, Library!Shipped
    <2> QED BY <1>4, <2>1 DEF InCapacity, Library!PackFits, seeded
  <1>6. revision' \in {0, 1} /\ (revision' = 0 => seeded = [s \in Sources |-> None])
    <2>1. Library!Shipped(pack) = {} => \A s \in Sources : seeded[s] = None
      BY <1>3 DEF Library!Shipped
    <2> QED BY <1>1, <1>3, <2>1
  <1>7. revision' # None
    BY <1>6, LibraryAssumption
  <1>8. LibraryTyped' /\ Untouched'
    BY <1>1, <1>2, <1>3, <1>6, <1>7 DEF LibraryInv, LibraryTyped, Untouched
  <1>9. (\A t \in Sources : KeptAt(t, documents, handwritten, deletions))'
    BY <1>1, <1>2 DEF KeptAt
  <1>10. InCapacity(documents)'
    BY <1>1, <1>5 DEF InCapacity, StoredIn
  <1>11. Served'
    <2>1. reading # None \/ snapshot # None => revision = 0
      BY <1>1, LibraryAssumption DEF LibraryInv, Served
    <2>2. revision' = 0 => Library!Current' = Library!Current
      BY <1>1, <1>2, <1>6 DEF Library!Current
    <2>3. snapshot # None => /\ snapshot.revision = 0 /\ snapshot.chunks = Library!Current
      BY <2>1 DEF LibraryInv, Served
    <2>4. reading # None => reading = 0
      BY <2>1 DEF LibraryInv, Served
    <2> QED BY <1>1, <1>6, <2>2, <2>3, <2>4 DEF Served
  <1> QED BY <1>8, <1>9, <1>10, <1>11 DEF LibraryInv

LEMMA LibraryRead ==
    ASSUME LibraryInv, Library!Deploy \/ Library!ReadRevision \/ Library!ReadDocuments \/ UNCHANGED libraryVars
    PROVE  LibraryInv'
  <1>1. UNCHANGED <<revision, documents, deletions, handwritten>>
    BY DEF Library!Deploy, Library!ReadRevision, Library!ReadDocuments, libraryVars
  <1>2. pack' \in Packs
    BY DEF Library!Deploy, Library!ReadRevision, Library!ReadDocuments, libraryVars, LibraryInv, LibraryTyped
  <1>3. LibraryTyped' /\ Untouched'
    BY <1>1, <1>2 DEF LibraryInv, LibraryTyped, Untouched
  <1>4. (\A t \in Sources : KeptAt(t, documents, handwritten, deletions))' /\ InCapacity(documents)'
    BY <1>1 DEF LibraryInv, KeptAt, InCapacity, StoredIn
  <1>5. Library!Current' = Library!Current
    BY <1>1 DEF Library!Current
  <1>6. Served'
    <2>1. CASE Library!Deploy \/ UNCHANGED libraryVars
      <3>1. UNCHANGED <<snapshot, reading>>
        BY <2>1 DEF Library!Deploy, libraryVars
      <3> QED BY <1>1, <1>5, <3>1 DEF LibraryInv, Served
    <2>2. CASE Library!ReadRevision
      <3>1. reading' = revision /\ snapshot' = snapshot /\ revision # None
        BY <2>2 DEF Library!ReadRevision
      <3>2. revision \in Nat
        BY <3>1 DEF LibraryInv, LibraryTyped
      <3> QED BY <1>1, <1>5, <3>1, <3>2 DEF LibraryInv, Served
    <2>3. CASE Library!ReadDocuments
      <3> DEFINE new == [revision |-> reading, chunks |-> Library!Current]
      <3>1. reading # None /\ snapshot' = new /\ reading' = None
        BY <2>3 DEF Library!ReadDocuments
      <3>2. new.revision = reading /\ new.chunks = Library!Current
        OBVIOUS
      <3>3. reading \in Nat /\ revision \in Nat /\ reading <= revision
        BY <3>1 DEF LibraryInv, Served
      <3> HIDE DEF new
      <3> QED BY <1>1, <1>5, <3>1, <3>2, <3>3 DEF Served
    <2> QED BY <2>1, <2>2, <2>3
  <1> QED BY <1>3, <1>4, <1>6 DEF LibraryInv

LEMMA LibraryStart == Library!KnowledgeInit => LibraryInv
  <1> SUFFICES ASSUME Library!KnowledgeInit PROVE LibraryInv
    OBVIOUS
  <1>1. /\ revision = None /\ deletions = {} /\ pack \in Packs
        /\ documents = [s \in Sources |-> None] /\ snapshot = None /\ reading = None
        /\ handwritten = [s \in Sources |-> None]
    BY DEF Library!KnowledgeInit
  <1>2. LibraryTyped /\ Untouched /\ Served
    BY <1>1 DEF LibraryTyped, Untouched, Served
  <1>3. \A s \in Sources : KeptAt(s, documents, handwritten, deletions)
    BY <1>1 DEF KeptAt
  <1>4. InCapacity(documents)
    <2>1. StoredIn(documents) = {} /\ {t \in Sources : Library!Active(documents[t])} = {}
      BY <1>1 DEF StoredIn, Library!Active
    <2>2. Library!BytesIn(documents, Sources) = {}
      BY <2>1 DEF Library!BytesIn
    <2>3. Library!Cardinality({}) = 0
      BY LibraryCardinality, FS_EmptySet
    <2>4. MaxFiles \in Nat /\ MaxTotal \in Nat
      BY LibraryAssumption
    <2> QED BY <2>1, <2>2, <2>3, <2>4 DEF InCapacity, Library!BytesOf
  <1> QED BY <1>2, <1>3, <1>4 DEF LibraryInv

LEMMA LibraryStep ==
    ASSUME LibraryInv, [Library!KnowledgeNext]_libraryVars
    PROVE  LibraryInv'
  <1>1. CASE Library!Seed \/ Library!SyncPack
    BY <1>1, LibrarySeed, LibrarySync
  <1>2. CASE Library!Deploy \/ Library!ReadRevision \/ Library!ReadDocuments \/ UNCHANGED libraryVars
    BY <1>2, LibraryRead
  <1>3. ASSUME NEW s \in Sources,
               \/ Library!CreateDocument(s) \/ Library!UpdateDocument(s)
               \/ Library!RestoreVersion(s) \/ Library!DeleteDocument(s)
        PROVE  LibraryInv'
    BY <1>3, LibraryCreate, LibraryUpdate, LibraryRestore, LibraryDelete
  <1>4. ASSUME NEW s \in Sources, NEW archived \in BOOLEAN, Library!ArchiveDocument(s, archived)
        PROVE  LibraryInv'
    BY <1>4, LibraryArchive
  <1> QED BY <1>1, <1>2, <1>3, <1>4 DEF Library!KnowledgeNext

LEMMA LibraryFollows == LibraryInv => Library!LibrarySound
  <1> SUFFICES ASSUME LibraryInv PROVE Library!LibrarySound
    OBVIOUS
  <1>1. Library!KnowledgeServed
    BY DEF LibraryInv, Served, Library!KnowledgeServed
  <1>2. Library!Stored = StoredIn(documents)
    BY DEF Library!Stored, StoredIn
  <1>3. Library!KnowledgeKept
    BY <1>2 DEF LibraryInv, KeptAt, InCapacity, Library!KnowledgeKept, Library!EnabledBytes
  <1> QED BY <1>1, <1>3 DEF Library!LibrarySound

-----------------------------------------------------------------------------
(* The whole.                                                              *)

\* A step of the whole is one of each part, or leaves the part alone.
LEMMA PartsMove ==
    ASSUME [Next]_allVars
    PROVE  /\ [AI!AINext]_aiVars /\ [Rotation!RotationNext]_rotationVars
           /\ [Account!AccountNext]_accountVars /\ [Library!KnowledgeNext]_libraryVars
           /\ UNCHANGED subject
  <1>1. CASE UNCHANGED allVars
    BY <1>1 DEF allVars
  <1>2. CASE Next
    <2>1. AINext => AI!AINext
      <3>1. (CHOOSE t \in Readers : TRUE) \in Readers
        BY AdministrationAssumption
      <3> QED BY <3>1 DEF AINext, AI!AINext
    <2> QED BY <1>2, <2>1 DEF Next, aiVars, rotationVars, accountVars, libraryVars
  <1> QED BY <1>1, <1>2

\* Rotation loses no key: whatever the order of batches, saves, deployments and
\* the removal of old master keys, every stored key can be decrypted and is the
\* one that was saved last, for any number of keys, batch size and versions.
THEOREM RotationKeepsKeys == Spec => []KeysReadable
  <1>1. Init => RotationInv
    BY RotationStart DEF Init
  <1>2. RotationInv /\ [Next]_allVars => RotationInv'
    BY RotationStep, PartsMove
  <1>3. RotationInv => KeysReadable
    BY DEF RotationInv, KeysReadable
  <1> QED BY <1>1, <1>2, <1>3, PTL DEF Spec

\* An access ends with what it was granted for: no token is accepted after its
\* logout, a revocation of all sessions or any change of its member, wherever
\* the change falls between password check and stored session; and an open
\* stream delivers nothing later than the interval of its checks.
THEOREM AccessIsRevoked == Spec => []AccessEnds
  <1>1. Init => AccountInv
    BY AccountStart DEF Init
  <1>2. AccountInv /\ [Next]_allVars => AccountInv'
    BY AccountStep, PartsMove
  <1>3. AccountInv => AccessEnds
    BY AccessFollows DEF AccessEnds
  <1> QED BY <1>1, <1>2, <1>3, PTL DEF Spec

\* Login attempts are limited across windows: between two cleared counters, no
\* span of a window's length lets through twice the allowed number of attempts.
THEOREM GuessesAreLimited == Spec => []AttemptsLimited
  <1>1. Init => LimiterInv
    BY LimiterStart DEF Init
  <1>2. LimiterInv /\ [Next]_allVars => LimiterInv'
    BY LimiterStep, PartsMove
  <1>3. LimiterInv => AttemptsLimited
    BY SameCounting DEF LimiterInv, Span, AttemptsLimited, Account!AttemptsLimited
  <1> QED BY <1>1, <1>2, <1>3, PTL DEF Spec

\* The worker's runtime is one tested configuration: what current() publishes,
\* read in four transactions, is what the database held at the revision it is
\* labelled with, and no agent of it uses a connection that never answered a
\* test, however administrators save, test and disable between the reads.
THEOREM RuntimeIsOneRevision == Spec => []RuntimeSound
  <1>1. Init => AIInv
    BY AIStart DEF Init
  <1>2. AIInv /\ [Next]_allVars => AIInv'
    BY AIStep, PartsMove
  <1>3. AIInv => RuntimeSound
    BY DEF AIInv, RuntimeSound
  <1> QED BY <1>1, <1>2, <1>3, PTL DEF Spec

\* A saved profile is one moment of the configuration: its agents, its policy
\* and its chunks are those of the revisions of its stamp.
THEOREM ProfilesAreUnmixed == Spec => []ProfileUnmixed
  <1>1. Init => AIInv
    BY AIStart DEF Init
  <1>2. AIInv /\ [Next]_allVars => AIInv'
    BY AIStep, PartsMove
  <1>3. AIInv => ProfileUnmixed
    BY DEF AIInv, ProfileUnmixed
  <1> QED BY <1>1, <1>2, <1>3, PTL DEF Spec

\* The library is served as it is stored and keeps what people did: a snapshot
\* taken for current is the library's content, whatever is written between its
\* two reads; no release replaces a text of a person or brings back a deleted
\* document; and no order of edits, restorations and releases exceeds the
\* capacity.
THEOREM LibraryIsSound == Spec => []LibrarySound
  <1>1. Init => LibraryInv
    BY LibraryStart DEF Init
  <1>2. LibraryInv /\ [Next]_allVars => LibraryInv'
    BY LibraryStep, PartsMove
  <1>3. LibraryInv => LibrarySound
    BY LibraryFollows DEF LibrarySound
  <1> QED BY <1>1, <1>2, <1>3, PTL DEF Spec
=============================================================================
