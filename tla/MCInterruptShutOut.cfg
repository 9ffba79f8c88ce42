SPECIFICATION FairSpec
CONSTANTS
  Lines <- MCShutLines
  Edge = {}
  Masks <- MCMasks
  Specials = {}
  Icw1 <- MCNoIcw1
  Cascade = 2
  IgnoreCascade = FALSE
  NeverMarkCascade = FALSE
  HackLines = {}
  MaxRaises = 4
PROPERTY AllServed
