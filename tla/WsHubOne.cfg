SPECIFICATION FairSpec
CONSTANTS
    c1 = c1
    c2 = c2
    Client = {c1}
    Poster = {p1}
    Global = global
    ChannelTopic = {chan}
    user1 = user1
    UserTopic <- MCUserTopic
    NoTopic = NoTopic
    RegisterCap = 1
    UnregisterCap = 1
    BroadcastCap = 2
    SendCap = 1
    MaxPublish = 3
INVARIANT TypeOK
PROPERTIES FeedSpec ConnectionEnds
\* Connections and publications are finitely many, and a panic ends the process.
CHECK_DEADLOCK FALSE
