----------------------- MODULE MCInterruptController -----------------------
(* A PC/AT: the timer and a sound card on the master, two lines on the     *)
(* slave, the second of them with the CS = DS hack.                        *)
EXTENDS InterruptControllerProps
MCLines == [master |-> {0, 5}, slave |-> {0, 1}]
MCMasks == [p \in Pics |-> {{}}]
MCEdge == {<<"master", 0>>}
MCIcw1 == [master |-> {}, slave |-> {[single |-> FALSE, icw4 |-> TRUE]}]
MCHack == {<<"slave", 1>>}
\* Lines for the run about requests shut out, which is never reprogrammed.
MCShutLines == [master |-> {5}, slave |-> {0, 1}]
MCNoIcw1 == [p \in Pics |-> {}]
=============================================================================
