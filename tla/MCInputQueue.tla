---------------------------- MODULE MCInputQueue ----------------------------
(* A queue of at most three codes in front of a ring of two slots: small   *)
(* enough to fill both, with up to five codes accepted in all.              *)
EXTENDS InputQueueProps

=============================================================================
