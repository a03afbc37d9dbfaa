\* A login with its form, a run of oob-manage, two starts of the hub.
SPECIFICATION Spec
CONSTANTS
    ann = "ann"
    bob = "bob"
    Sessions = {"s1"}
    Forms = {"f1"}
    Admins = {"a1"}
    Hub = "hub"
    Users = {"ann", "bob"}
    UserOf <- AllAnn
    Legacy <- LegacyUsers
    Chosen = {"own"}
    Overlong = {"long"}
    Temps <- SixTemps
    NoText = ""
    NoForm = NoForm
    Absent = Absent
    MaxStarts = 2
    MaxCrashes = 1
INVARIANTS
    ReplacedOrRetyped
    PasswordIsKnown
    NoUserLeftBehind
PROPERTIES
    ChangeOpensMenu
    MigrationEnds
