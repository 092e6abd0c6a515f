SPECIFICATION Spec
CONSTANTS
    english = english
    math = math
    q1 = q1
    a = a
    b = b
    d1 = d1
    d2 = d2
    Blank = Blank
    NoRow = NoRow
    NoScore = NoScore
    Key <- MCKey
    Scale <- MCScale
    Questions = {q1}
    Scored = {q1}
    Letters = {a, b}
    Sections = {english, math}
    CompositeSections = {english, math}
    Devices = {d1}
    Minutes = 1
    MaxTime = 1
    MaxDwell = 1
    MayDrop = FALSE
SYMMETRY Symmetric
INVARIANTS ScoreMatchesItems CompositePersisted
PROPERTIES DeadlineKept
CHECK_DEADLOCK FALSE
