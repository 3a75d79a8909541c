----------------------------- MODULE MCProjects -----------------------------
(* A project with an active season, its sub-project and a third project,    *)
(* and requests of every kind.                                              *)
EXTENDS Projects, TLC

CONSTANTS u1, u2

MCFirstProjects == <<[owner |-> u1, parent |-> 0, live |-> TRUE],
                     [owner |-> u1, parent |-> 1, live |-> TRUE],
                     [owner |-> u2, parent |-> 0, live |-> TRUE]>>
MCFirstSeasons == <<[project |-> 1, number |-> 1, status |-> "active", doc |-> None]>>

Interchangeable == Permutations(Request)
=============================================================================
