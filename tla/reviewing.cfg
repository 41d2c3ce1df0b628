SPECIFICATION MCSpec
CONSTANTS
  Units <- TwoUnits
  Lines <- Patches
  GroupOf <- OneGroup
  RulesOf <- OneRule
  RuleBytes <- RuleSize
  UnitBytes <- UnitSize
  Base = 1
  Overhead = 2
  Limits = {9, 10, 12, 20}
  Floor = 7
  MinRoom = 1
  MaxDepth = 2
  MaxFindings = 1
  MaxFaults = 2
  MaxReported = 2
  Versions <- SomeVersions
  HeadOf <- SomeHeads
  Target = "h1"
  Paths <- SomePaths
  Change <- SomeChanges
  Rule <- SomeRules
  Generated = {}
  Documents = {}
  Relation <- SomeRelation
  MaxGroup = 2
  PageSize = 2
  MaxFiles = 4
  MaxPatch = 2
  MaxBlobFiles = 2
  MaxBlob = 2
  MaxBlobTotal = 4
  RuleDepth = 1
  MaxCandidates = 2
  MaxRules = 1
  MaxChecks = 3
  Contexts = {"c", "d"}
  MaxListed = 3
  MaxPolls = 2
  Bodies <- SomeBodies
  Decoded <- DecodedData
  JsonOf <- JsonBody
  MaxChunk = 3
  MaxText = 2
  Protocols = {"responses", "chat_completions", "messages"}
  InputUnits <- SomeUnits
  Evidence <- OneEvidence
  Documented = {"AGENTS"}
  Texts <- SomeTexts
  Usages = {1, 2}
  Absent = None
  None = None
INVARIANTS
  PlanTruthful
  CiConclusive
  SplittingSound
  CombiningSound
  StreamWhole
  AnswerReported
CHECK_DEADLOCK FALSE
