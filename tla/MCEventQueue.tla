---------------------------- MODULE MCEventQueue ----------------------------
EXTENDS EventQueueProps
=============================================================================
