SPECIFICATION Spec
CONSTANTS
    Request = {r1, r2, r3}
    None = none
    Name = {"ann", "Ann", "bob"}
    Fold <- MCFold
    FirstUsers <- MCFirstUsers
    Power = {10, 100}
    MaxUsers = 4
INVARIANTS TypeOK FirstOwner BannedOut OldPasswordOut GateFollowsSettings NamesApart
SYMMETRY Interchangeable
\* Requests are finitely many.
CHECK_DEADLOCK FALSE
