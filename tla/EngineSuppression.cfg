\* Symptoms of a root cause that is not the primary blocker.
SPECIFICATION Spec
CONSTANTS
  Rules <- MCRules
  IdLists <- MCIdLists
  PsiReadings <- MCPsiReadings
  DisableEarlyExit = FALSE
INVARIANT DownstreamSymptomsRemoved
