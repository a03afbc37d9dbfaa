\* One session that dials twice, to two sites; nothing drops, quits or is cancelled.
SPECIFICATION Spec
CONSTANTS
    a = a
    b = b
    t1 = t1
    t2 = t2
    t3 = t3
    Sessions = {a}
    Tasks = {t1, t2}
    Owner <- TwoOfOne
    Sites = {"router", "switch"}
    NoSite = ""
    NoModem = NoModem
    MaxRetries = 2
    MayDrop = {}
    MayQuit = {}
    MayCancel = {}
INVARIANTS
    NoOrphan
    DisplayedSiteIsDialled
PROPERTIES
    DeviceComesBack
    HangUpReturns
