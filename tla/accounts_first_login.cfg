\* A user that oob-manage has added logs in for the first time.
SPECIFICATION Safety
CONSTANTS
    ann = "ann"
    bob = "bob"
    Sessions = {"s1"}
    Forms = {"f1"}
    Admins = {"a1"}
    Hub = "hub"
    Users = {"ann"}
    UserOf <- AllAnn
    Legacy <- NoLegacy
    Chosen = {"own"}
    Overlong = {"long"}
    Temps <- SixTemps
    NoText = ""
    NoForm = NoForm
    Absent = Absent
    MaxStarts = 1
    MaxCrashes = 0
INVARIANTS
    TemporaryIsReplaced
