---------------------------- MODULE SecretRotation ----------------------------
(* Stored API keys and their re-encryption.  A key is encrypted under a       *)
(* version of the master key; after a new version is deployed a tool rewrites *)
(* the stored keys in batches, without a transaction around the work, while   *)
(* administrators go on replacing them.  The old version is dropped from the  *)
(* key ring once the tool reports that it is done.                            *)
EXTENDS Integers, FiniteSets

CONSTANTS Slots,        \* what a key is stored for, in the order of the batches
          Values,       \* API keys
          BatchSize,
          MaxVersion,   \* bound on master keys
          MaxWrites,    \* bound on ciphertexts
          None

VARIABLES secrets,   \* per slot None or a stored key; its nonce makes each one distinct
          ring,      \* the deployed master keys: the current version and the previous ones
          rotation,  \* what the tool read, None while it holds no batch
          complete,  \* the tool reported that every key was rewritten
          writer,    \* the administrator's transaction: the row it loaded
          saved,     \* history: the value last saved for each slot
          written    \* ciphertexts so far, the next one's nonce

rotationVars == <<secrets, ring, rotation, complete, writer, saved, written>>

Encrypted(value) == [value |-> value, version |-> ring.current, nonce |-> written]
Decryptable(secret) == secret.version = ring.current \/ secret.version \in ring.previous

RotationInit ==
    /\ secrets \in [Slots -> {None} \cup [value : Values, version : {1}, nonce : {0}]]
    /\ saved = [s \in Slots |-> IF secrets[s] = None THEN None ELSE secrets[s].value]
    /\ ring = [current |-> 1, previous |-> {}]
    /\ rotation = None /\ complete = FALSE /\ writer = None /\ written = 1

(* The processes are restarted with a new current key and the old ones as     *)
(* previous keys, which ends what they were doing.                            *)
DeployKey ==
    /\ ring.current < MaxVersion
    /\ ring' = [current |-> ring.current + 1, previous |-> ring.previous \cup {ring.current}]
    /\ writer' = None /\ rotation' = None /\ complete' = FALSE
    /\ UNCHANGED <<secrets, saved, written>>

\* Operators drop the previous keys when the tool has reported its end.
RetireKeys ==
    /\ complete /\ ring.previous # {}
    /\ ring' = [ring EXCEPT !.previous = {}]
    /\ writer' = None /\ rotation' = None /\ complete' = FALSE
    /\ UNCHANGED <<secrets, saved, written>>

---------------------------------------------------------------------------
(* A batch: the first keys that are not of the current version.               *)
Outdated == {s \in Slots : secrets[s] # None /\ secrets[s].version # ring.current}
FirstOf(S, n) == {s \in S : Cardinality({o \in S : o < s}) < n}

ReadBatch ==
    /\ rotation = None
    /\ LET batch == FirstOf(Outdated, BatchSize) IN
       rotation' = [slots |-> batch, read |-> [s \in batch |-> secrets[s]]]
    /\ UNCHANGED <<secrets, ring, complete, writer, saved, written>>

\* Defect: what was read is written back whatever became of it.
ReplaceableAnyway == {s \in rotation.slots : secrets[s] # None}

\* The compared update: rows whose ciphertext and version are those read.
Replaceable ==
    {s \in rotation.slots : /\ secrets[s] # None
                            /\ secrets[s].nonce = rotation.read[s].nonce
                            /\ secrets[s].version = rotation.read[s].version}

SaveBatch ==
    /\ rotation # None /\ written < MaxWrites
    /\ \A s \in rotation.slots : Decryptable(rotation.read[s])
    /\ secrets' = [s \in Slots |-> IF s \in Replaceable THEN Encrypted(rotation.read[s].value) ELSE secrets[s]]
    /\ written' = IF Replaceable = {} THEN written ELSE written + 1
    /\ complete' = (Cardinality(rotation.slots) < BatchSize /\ Replaceable = rotation.slots)
    /\ rotation' = None
    /\ UNCHANGED <<ring, writer, saved>>

StopRotation ==
    /\ rotation # None
    /\ rotation' = None
    /\ UNCHANGED <<secrets, ring, complete, writer, saved, written>>

---------------------------------------------------------------------------
(* An administrator's save loads the row without a lock and writes the        *)
(* columns that differ from what it loaded.                                   *)
LoadRow ==
    /\ writer = None
    /\ \E s \in Slots : writer' = [slot |-> s, row |-> secrets[s]]
    /\ UNCHANGED <<secrets, ring, rotation, complete, saved, written>>

SaveKey ==
    /\ writer # None /\ written < MaxWrites
    /\ \E value \in Values :
         LET row == Encrypted(value)
             now == secrets[writer.slot]
             kept == writer.row # None /\ writer.row.version = row.version
         IN  /\ secrets' = [secrets EXCEPT ![writer.slot] =
                   IF kept THEN [row EXCEPT !.version = now.version] ELSE row]
             /\ saved' = [saved EXCEPT ![writer.slot] = value]
    /\ written' = written + 1
    /\ writer' = None
    /\ UNCHANGED <<ring, rotation, complete>>

ClearKey ==
    /\ writer # None /\ writer.row # None
    /\ secrets' = [secrets EXCEPT ![writer.slot] = None]
    /\ saved' = [saved EXCEPT ![writer.slot] = None]
    /\ writer' = None
    /\ UNCHANGED <<ring, rotation, complete, written>>

RotationNext ==
    \/ DeployKey \/ RetireKeys \/ ReadBatch \/ SaveBatch \/ StopRotation
    \/ LoadRow \/ SaveKey \/ ClearKey

RotationSpec == RotationInit /\ [][RotationNext]_rotationVars

---------------------------------------------------------------------------
(* Rotation loses no key: whatever the order of batches, saves, deployments   *)
(* and the removal of old master keys, every stored key can be decrypted with *)
(* the deployed ring and is the one that was saved last.                      *)
KeysReadable ==
    \A s \in Slots :
        IF saved[s] = None THEN secrets[s] = None
        ELSE /\ secrets[s] # None /\ secrets[s].value = saved[s]
             /\ Decryptable(secrets[s])
=============================================================================
