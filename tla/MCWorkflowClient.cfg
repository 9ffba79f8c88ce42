SPECIFICATION FairSpec
CONSTANTS
  Steps <- MCSteps
  Recipes <- MCRecipes
  MaxOutput = 2
  Fails = TRUE
  Exits = TRUE
  TimesOut = TRUE
INVARIANTS TypeOK SuccessIsReal
PROPERTY AwaitEnds
