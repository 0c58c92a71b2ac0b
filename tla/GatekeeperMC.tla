---------------------------- MODULE GatekeeperMC ----------------------------
(* Instances of Gatekeeper for TLC.                                        *)
EXTENDS Gatekeeper, TLC

CONSTANTS t1, t2

Two == {t1, t2}
Threads == Permutations(Two)
=============================================================================
