SPECIFICATION FairSpec
CONSTANTS
    q1 = q1
    q2 = q2
    q3 = q3
    t1 = t1
    a = a
    b = b
    Questions = {q1, q2}
    Right = a
    Wrongs = {b}
    NoQuestion = NoQuestion
    Target = 2
    Tabs = {t1}
    NoTab = NoTab
    LoseRequests = TRUE
    LoseReplies = TRUE
    MaxFaults = 1
    MaxReloads = 1
    MaxCalls = 3
PROPERTIES AnswerSettles CompletionCloses
CHECK_DEADLOCK FALSE
