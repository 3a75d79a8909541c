SPECIFICATION PageSpec
CONSTANTS
    lobby = lobby
    NoChannel = NoChannel
    Place <- MCPlace
    MaxBackoff = 5
    MaxRuns = 3
INVARIANTS PageTypeOK StaysLive
PROPERTY Reconnects
