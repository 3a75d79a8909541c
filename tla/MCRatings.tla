----------------------------- MODULE MCRatings -----------------------------
(* Instances of Ratings for TLC. *)
EXTENDS Ratings, TLC
CONSTANTS relevance, communication, maria, tom
MCDim == {relevance, communication}
MCTab == {maria, tom}
MCSymmetry == Permutations(MCDim) \cup Permutations(MCTab)
=============================================================================
