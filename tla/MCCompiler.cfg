\* Matches of up to three arms (a tuple of eight cells is beyond the limit).
\* Texts of up to five characters, statements of up to seven tokens, or of six
\* nodes; the rest as the README says.  Programs end, and the bounds stop them.
CONSTANTS
  Kind <- Kinds
  Ctors <- Constructors
  Carries = {"Line", "Some"}
  Lit = {"1", "2"}
  Subject <- Subjects
  Written <- AnyArms
  MaxArms = 3
  CellLimit = 4
  Alphabets <- MCAlphabets
  Keywords <- MCKeywords
  Reserved <- MCReserved
  XDigits = 1
  UDigits = 2
  MaxInt = 100
  MaxTokens = 7
  NameSets <- MCNameSets
  GoReserved = {"map"}
  MaxDecls <- MCMaxDecls
  MaxScopes = 2
  MaxNodes = 6
  MaxDepth = 3
  MaxCalls = 4
  MaxImports = 2
  MaxLines = 4
SPECIFICATION CompilerSpec
INVARIANTS
  TypesOK
  RejectsRightly
  RunsRightArm
  LiteralsSurvive
  ReadAlike
  BindsAsResolved
  HoistsExactly
  JumpsWork
  CallsRunAsTyped
  CommandsEndClean
  ReadsSchema
PROPERTY LexesByGrammar
CHECK_DEADLOCK FALSE
