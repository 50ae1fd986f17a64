\* Every combination of nine rules, privileges and clock jump, under six PSI readings.
SPECIFICATION Spec
CONSTANTS
  Rules <- MCRules
  IdLists <- MCIdLists
  PsiReadings <- MCPsiReadings
  DisableEarlyExit = FALSE
INVARIANTS
  TypeOK
  EveryFindingAccounted
  PrimaryIsWorst
  ConfidenceInRange
  EdgeCasesOnlyWithoutHardLimit
