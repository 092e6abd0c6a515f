SPECIFICATION Spec
CONSTANTS
    q1 = q1
    q2 = q2
    a = a
    b = b
    Blank = Blank
    NoRow = NoRow
    Questions = {q1, q2}
    Letters = {a}
    StorageFails = FALSE
    First = q1
    Minutes = 1
    MaxTime = 2
    MaxReloads = 0
INVARIANTS TypeOK NoAnswerLost SubmittedIsDurable
PROPERTIES FinishedWithAllAnswers
