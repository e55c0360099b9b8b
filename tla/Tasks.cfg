SPECIFICATION FairSpec
CONSTANTS
  MaxTasks = 4
  MaxNesting = 4
  Builds <- AllBuilds
INVARIANTS TypeOK ContextDefined ContextIntact ForkAnswers
PROPERTIES InTurns EachTaskRuns
