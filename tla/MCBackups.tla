----------------------------- MODULE MCBackups -----------------------------
(* Instances of Backups for TLC. *)
EXTENDS Backups
CONSTANTS users, posts, r1, r2
MCTable == {users, posts}
MCRequest == {r1, r2}
MCSymmetry == Permutations(MCRequest)
=============================================================================
