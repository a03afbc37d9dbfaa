\* The user hangs up while a batch is still being sent; no other fault, no probe.
SPECIFICATION Safety
CONSTANTS
    hub = "hub"
    probe = "probe"
    Hubs = {"hub"}
    Probes = {}
    Writers <- MCWriters
    WithInit = {}
    RemoteWords = {}
    MaxQueue = 2
    MaxRetries = 1
    MaxDials = 1
    MaxFaults = 1
    LateLines = {8, 9}
INVARIANTS
    HangUpHangsUp
