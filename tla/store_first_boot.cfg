\* The first start of the hub alone, killed up to twice.
SPECIFICATION Spec
CONSTANTS
    hub = hub
    manage = manage
    h1 = h1
    h2 = h2
    m1 = m1
    alice = alice
    bob = bob
    temp = temp
    own = own
    Procs = {hub}
    Threads = {h1, h2}
    ProcOf <- HubAlone
    Users = {alice}
    Absent = Absent
    Passwords = {temp, own}
    Unhashable = {}
    Requests <- LifeOfAUser
    NoRequest = NoRequest
    Inodes = {1, 2, 3, 4}
    NoInode = NoInode
    Partial = Partial
    Installed = FALSE
    DiskFails = TRUE
    MaxCalls = 3
    MaxCrashes = 2
PROPERTIES
    ImplementsUserDB
    CallsReturn
