------------------------------ MODULE MCPosts ------------------------------
(* Two users, one post that is there, and two contents, one of which       *)
(* mentions the second user.                                               *)
EXTENDS Posts, TLC

CONSTANTS u1, u2, plain, other

MCMentionedIn == [t \in Text |-> IF t = other THEN {u2} ELSE {}]

(* Requests differ in nothing but their names. *)
Interchangeable == Permutations(Request)
=============================================================================
