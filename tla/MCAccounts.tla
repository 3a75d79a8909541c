---------------------------- MODULE MCAccounts ----------------------------
(* A fresh database, and one with the Owner and a member; three names, two  *)
(* of which differ in case.                                                  *)
EXTENDS Accounts, TLC

MCFold == ("ann" :> "ann") @@ ("Ann" :> "ann") @@ ("bob" :> "bob")

FirstUser(n, p) == [name |-> n, secret |-> None, power |-> p, banned |-> FALSE,
                    status |-> "active", by |-> None]
Empty == [u \in {} |-> FirstUser("bob", 10)]
MCFirstUsers == {Empty, <<FirstUser("bob", 100), FirstUser("ann", 10)>>}

Interchangeable == Permutations(Request)
=============================================================================
