---------------------------- MODULE MCReactions ----------------------------
(* The post's author and one other user, and one type of reaction:          *)
(* one user reacting twice at once, two users at once, and the same         *)
(* reaction sent twice.                                                     *)
EXTENDS Reactions, TLC

(* Requests differ in nothing but their names. *)
Interchangeable == Permutations(Request)
=============================================================================
