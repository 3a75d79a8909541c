SPECIFICATION Spec
CONSTANTS
    User = {author, u1}
    Author = author
    Type = {heart}
    Request = {r1, r2, r3}
    MaxNotes = 2
INVARIANTS TypeOK RecountsRepair NoticesAreTrue BadgeFollows
SYMMETRY Interchangeable
\* Requests are finitely many.
CHECK_DEADLOCK FALSE
