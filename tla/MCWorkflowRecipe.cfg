SPECIFICATION FairSpec
CONSTANTS
  Steps <- MCSteps
  Recipes <- DocRecipes
  MaxOutput = 1
  Fails = FALSE
  Exits = FALSE
  TimesOut = FALSE
PROPERTY WorkflowEnds
CHECK_DEADLOCK FALSE
