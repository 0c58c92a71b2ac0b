------------------------------ MODULE SeriesMC ------------------------------
(* Instances of Series for TLC.                                            *)
EXTENDS Series

Both == Peer
=============================================================================
