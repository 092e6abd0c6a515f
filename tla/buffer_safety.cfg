SPECIFICATION Spec
CONSTANTS
    q1 = q1
    q2 = q2
    a = a
    b = b
    Blank = Blank
    NoRow = NoRow
    Questions = {q1, q2}
    Letters = {a, b}
    StorageFails = FALSE
    MaxEdits = 3
    MaxDwell = 1
SYMMETRY Symmetric
INVARIANTS TypeOK NoSilentLoss QueueMirrored
PROPERTIES KeepsPromise
