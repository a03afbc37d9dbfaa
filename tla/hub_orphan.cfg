\* ctrl+c during a dial.
SPECIFICATION Safety
CONSTANTS
    a = a
    b = b
    t1 = t1
    t2 = t2
    t3 = t3
    Sessions = {a}
    Tasks = {t1}
    Owner <- OneOnly
    Sites = {"router"}
    NoSite = ""
    NoModem = NoModem
    MaxRetries = 1
    MayDrop = {}
    MayQuit = {}
    MayCancel = {a}
INVARIANTS
    NoOrphan
