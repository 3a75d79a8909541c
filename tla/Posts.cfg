SPECIFICATION Spec
CONSTANTS
    u1 = u1
    u2 = u2
    plain = plain
    other = other
    User = {u1, u2}
    PostId = {p1, p2}
    Existing = {p1}
    Text = {plain, other}
    MentionedIn <- MCMentionedIn
    Tag = {t1}
    Request = {r1, r2}
    None = None
INVARIANTS TypeOK EditsSerialise ThreadsIntact CountsCover MentionsMatch ViewersMatch
SYMMETRY Interchangeable
\* Requests are finitely many.
CHECK_DEADLOCK FALSE
