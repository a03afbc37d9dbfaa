\* Three lines in all, sent one by one or as batches; a history of two.
SPECIFICATION Spec
CONSTANTS
    Lines <- MCLines
    Empty = ""
    Escape = "~."
    MaxHistory = 2
    MaxLines = 3
INVARIANTS
    TypeOK
    HistoryClean
    NoLeftovers
    GroupsIntact
PROPERTIES
    SubmissionsArrive
