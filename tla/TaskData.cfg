\* Data on small instances; a behaviour ends when its question is put.
SPECIFICATION Spec
CONSTANTS
  ExprLenMax = 9
  ExprDepthMax = 4
  FlowDepthMax = 3
  ScoreUnit = 3
  StateSizeMax = 60
  JsonDepthMax = 3
  Key <- Keys
  Value <- JsonOutputs
  ValueLen <- CanonicalLen
  KeyTokenLen <- TokenLen
  DepthOf <- Depth
  Seeds <- SeedStates
  U64Max = 10000000
  U32Max = 20
  ConcurrencyMax = 4
  FanoutWidthMax = 12
  CancelGraceMs = 10
  RetentionDays = 30
  JsonValue <- SettingValues
  Spelling <- Spellings
  Numeral <- Numerals
  RunQuestions <- SettingQuestions
  MaxTokens = 5
  MaxOperands = 4
  MaxReads = 5
  MaxScores = 4
  MaxText = 5
  MaskScanLenMin = 2
  SecretFileMax = 4
INVARIANTS
  ParsesTheGrammar
  LintForesees
  VerdictsAgree
  StateIsExact
  RunIsAsAsked
  SecretsStayMasked
CHECK_DEADLOCK FALSE
