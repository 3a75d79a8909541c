SPECIFICATION Spec
CONSTANTS
    c1 = c1
    c2 = c2
    Client = {c1, c2}
    Poster = {p1}
    Global = global
    ChannelTopic = {}
    user1 = NoTopic
    UserTopic <- MCUserTopic
    NoTopic = NoTopic
    RegisterCap = 1
    UnregisterCap = 1
    BroadcastCap = 2
    SendCap = 1
    MaxPublish = 2
INVARIANTS NoDoubleClose SlowClientsLeave
\* Connections and publications are finitely many, and a panic ends the process.
CHECK_DEADLOCK FALSE
