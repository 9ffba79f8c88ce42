SPECIFICATION FairSpec
CONSTANTS
  Lines <- MCLines
  Edge <- MCEdge
  Masks <- MCMasks
  Specials = {"master"}
  Icw1 <- MCIcw1
  Cascade = 2
  IgnoreCascade = FALSE
  NeverMarkCascade = FALSE
  HackLines <- MCHack
  MaxRaises = 3
INVARIANTS TypeOK NoLostWakeup NoRequestLost SlaveIsHeard
PROPERTY UrgentServed
