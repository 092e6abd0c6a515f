SPECIFICATION Spec
CONSTANTS
    english = english
    math = math
    q1 = q1
    a = a
    b = b
    d1 = d1
    d2 = d2
    Blank = Blank
    NoRow = NoRow
    NoScore = NoScore
    Key <- MCKey
    Scale <- MCScale
    Questions = {q1}
    Scored = {q1}
    Letters = {a}
    Sections = {english, math}
    CompositeSections = {english, math}
    Devices = {d1, d2}
    Minutes = 1
    MaxTime = 0
    MaxDwell = 1
    MayDrop = TRUE
SYMMETRY Symmetric
INVARIANTS TypeOK OneSectionRuns CompositeHonest
PROPERTIES ResultFrozen DwellMonotone
CHECK_DEADLOCK FALSE
