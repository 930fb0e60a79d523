SPECIFICATION CompileSpec
CONSTANTS
  Aims <- TheAims
  Inputs <- TheInputs
  Subjects <- TheSubjects
  Doctored <- TheTables
  Claimed <- TheClaims
  Cap = 20000
  Ceiling = 20000
  MaxLength = 10
  MaxStack = 1000
  MaxTrail = 1000
INVARIANTS MeaningKept ProgramSound NoContradiction ClaimsBound
