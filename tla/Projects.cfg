SPECIFICATION Spec
CONSTANTS
    u1 = u1
    u2 = u2
    User = {u1, u2}
    Request = {r1, r2, r3}
    None = none
    FirstProjects <- MCFirstProjects
    FirstSeasons <- MCFirstSeasons
    MaxProjects = 4
    MaxSeasons = 3
INVARIANTS TypeOK ShallowWhenCalm OwnersAgree SeasonsDense LateOnlyByRace
PROPERTIES SeasonsAdvance
SYMMETRY Interchangeable
\* Requests are finitely many.
CHECK_DEADLOCK FALSE
