SPECIFICATION FairSpec
CONSTANTS
    t1 = t1
    intro = intro
    faq = faq
    h1 = h1
    h2 = h2
    Tab <- MCTab
    Post <- MCPost
    Topic <- MCTopic
    Heartbeat <- MCHeartbeat
    MinSeconds = 2
    Interval = 1
    MaxActive = 1
    MaxPosts = 2
    MaxTicks = 2
    MaxBeats = 2
CHECK_DEADLOCK FALSE
INVARIANTS TypeOK OneRowPerVisit CountsAgree
PROPERTIES LedgerSpec HeartbeatsEnd
