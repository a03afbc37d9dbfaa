\* Two sessions of the hub and oob-manage, two users, a disk that fails, one crash.
SPECIFICATION Safety
CONSTANTS
    hub = hub
    manage = manage
    h1 = h1
    h2 = h2
    m1 = m1
    alice = alice
    bob = bob
    temp = temp
    own = own
    Procs = {hub, manage}
    Threads = {h1, h2, m1}
    ProcOf <- HubAndManage
    Users = {alice, bob}
    Absent = Absent
    Passwords = {temp, own}
    Unhashable = {}
    Requests <- Everything
    NoRequest = NoRequest
    Inodes = {1, 2, 3, 4, 5}
    NoInode = NoInode
    Partial = Partial
    Installed = TRUE
    DiskFails = TRUE
    MaxCalls = 3
    MaxCrashes = 1
INVARIANTS
    FileAlwaysWhole
    StoreInv
PROPERTIES
    ImplementsUserDB
