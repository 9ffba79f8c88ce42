---------------------------- MODULE MCDosMemory ----------------------------
EXTENDS DosMemoryProps

Strategy(f, o, h) == [fit |-> f, only |-> o, high |-> h]

\* 2, 40h, 80h and 81h.
MCStrategies ==
  {Strategy("last", FALSE, FALSE), Strategy("first", TRUE, FALSE),
   Strategy("first", FALSE, TRUE), Strategy("best", FALSE, TRUE)}
=============================================================================
