SPECIFICATION Spec
CONSTANTS
  Providers = {p1}
  Agents = {a1}
  Urls = {u1}
  Models = {1}
  Windows = {1, 2}
  Keys = {k1}
  Policies = {1, 2}
  Readers = {t1, t2}
  MaxLibrary = 1
  Slots = {1, 2}
  Values = {v1, v2}
  BatchSize = 1
  MaxVersion = 3
  MaxWrites = 6
  Roles = {1, 2}
  Passwords = {1}
  Logins = {l1, l2}
  MaxAttempts = 2
  Window = 2
  TTL = 3
  Recheck = 2
  MaxTime = 3
  Sources = {"a", "b"}
  Sizes = {1, 2, 3}
  Packs <- MCPacks
  Previous <- MCPrevious
  MaxFiles = 2
  MaxTotal = 4
  MaxEdits = 3
  MaxRevision = 3
  SharedChanges = 1
  None = None
INVARIANTS
  RuntimeSound
  ProfileUnmixed
  KeysReadable
  AccessEnds
  AttemptsLimited
  LibrarySound
SYMMETRY Interchangeable
CHECK_DEADLOCK FALSE
