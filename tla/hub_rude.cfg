\* A dial in each of two sessions, with retries; both drop and cancel, one quits.
SPECIFICATION Spec
CONSTANTS
    a = a
    b = b
    t1 = t1
    t2 = t2
    t3 = t3
    Sessions = {a, b}
    Tasks = {t1, t3}
    Owner <- OneEach
    Sites = {"router"}
    NoSite = ""
    NoModem = NoModem
    MaxRetries = 2
    MayDrop = {a, b}
    MayQuit = {a}
    MayCancel = {a, b}
INVARIANTS
    IInv
PROPERTIES
    ForgetsOnlyReleased
    NoHandover
    ImplementsLease
    ImplementsDialTask
    DialEnds
    CleanupFrees
