---------------------------- MODULE MCLiveBroker ----------------------------
(* Three orders in batches of two, and every adapter.                      *)
EXTENDS LiveBroker, TLC

MCVenues == AnyVenue
Symmetry == Permutations(Id)
=============================================================================
