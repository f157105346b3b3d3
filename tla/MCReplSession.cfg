\* Sessions of up to three forms; builds may also fail for outside reasons.
CONSTANTS
  NoName = NoName
  NoInput = NoInput
  Input <- Mixed
  MaxForms = 3
  ToolchainFails = TRUE
SPECIFICATION Spec
INVARIANTS
  TypeOK
  SessionIsSound
  StaysUsable
PROPERTIES
  TurnsKeepSource
  NewestExprPrints
