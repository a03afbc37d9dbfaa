\* The hub and oob-probe dial once each, with one kind of fault at a time.
SPECIFICATION Spec
CONSTANTS
    hub = "hub"
    probe = "probe"
    Hubs = {"hub"}
    Probes = {"probe"}
    Writers <- MCWriters
    WithInit = {"hub"}
    RemoteWords = {"OK"}
    MaxQueue = 2
    MaxRetries = 2
    MaxDials = 1
    MaxFaults = 1
    LateLines = {9}
INVARIANTS
    IInv
    ResultIsOwn
    HangUpHangsUp
    InitRecovers
PROPERTIES
    DialsFromCommandMode
    RetryOnFreeLine
    ImplementsDialTask
    DialReturns
