SPECIFICATION FairSpec
CONSTANTS
    e1 = e1
    e2 = e2
    done = done
    poll = poll
    drain = drain
    Events = {e1, e2, done}
    Completions = {done}
    Zero = Zero
    Garbled = Garbled
    MaxTorn = 1
    Suppressed = {e2}
    Readers = {poll, drain}
    Poll = poll
    NoReader = NoReader
    MaxRetries = 1
    MaxCrashes = 1
    MaxErrors = 1
INVARIANTS NothingSkipped ExportedOnce BundlesVerify BundlesOnce
PROPERTIES KeepsOutbox EventuallyConsumed
CHECK_DEADLOCK FALSE
