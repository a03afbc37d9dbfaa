\* The hub and oob-manage start together and find no users.json.
SPECIFICATION Safety
CONSTANTS
    hub = hub
    manage = manage
    h1 = h1
    h2 = h2
    m1 = m1
    alice = alice
    bob = bob
    temp = temp
    own = own
    Procs = {hub, manage}
    Threads = {h1, m1}
    ProcOf <- OneAndOne
    Users = {alice}
    Absent = Absent
    Passwords = {temp, own}
    Unhashable = {}
    Requests <- LifeOfAUser
    NoRequest = NoRequest
    Inodes = {1, 2, 3, 4}
    NoInode = NoInode
    Partial = Partial
    Installed = FALSE
    DiskFails = FALSE
    MaxCalls = 2
    MaxCrashes = 0
PROPERTIES
    NothingLost
