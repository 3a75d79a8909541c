SPECIFICATION Spec
CONSTANTS
    relevance = relevance
    communication = communication
    maria = maria
    tom = tom
    Dim <- MCDim
    Tab <- MCTab
    Nobody = Nobody
    MaxStar = 2
    MaxCalls = 2
SYMMETRY MCSymmetry
INVARIANTS TypeOK CardsSettle
CHECK_DEADLOCK FALSE
