----------------------------- MODULE MCListing -----------------------------
(* An instance of Listing for TLC. *)
EXTENDS Listing, TLC

CONSTANTS w1, w2

MCWriters == {w1, w2}
WriterSymmetry == Permutations(MCWriters)
=============================================================================
