SPECIFICATION FairSpec
CONSTANTS
    q1 = q1
    q2 = q2
    a = a
    b = b
    Blank = Blank
    NoRow = NoRow
    Questions = {q1, q2}
    Letters = {a}
    StorageFails = TRUE
    MaxEdits = 2
    MaxDwell = 1
PROPERTIES FlushAnswered DrainedIfAsked
