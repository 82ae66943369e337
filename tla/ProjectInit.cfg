SPECIFICATION Spec
CONSTANTS
  Changes = {c1, c2}
  ProjectOf <- MCProjectOf
  Trees <- MCTrees
  InitRepos <- MCInitRepos
  GitOutcomes = {{"head", "status"}}
  InitRows <- MCInitRows
  Decisions <- MCDecisions
  Libraries <- MCLibraries
  MinSnippets = 2
  Limit = 1
  Day = 0
  SampleTrees <- MCSampleTrees
  MaxClock = 2
  MaxEdits = 1
  MaxRestarts = 1
SYMMETRY Symmetric
INVARIANTS
  ServedIsCurrent
  IngestedBeforeCached
  RateLimited
  ImportFollowsActive
  InjectedFitsStack
  PromptOrderIsFixed
PROPERTIES
  ImportKeepsRow
CHECK_DEADLOCK FALSE
