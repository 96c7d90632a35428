SPECIFICATION Spec
CONSTANTS
    Actors = {a1, a2}
    Messages <- MCMessages
    Addressed <- MCAddressed
    MaxAttempts = 2
    MaxRows = 1
    MaxVersions = 2
    MaxArrivals = 2
    MaxChanges = 1
    MaxFaults = 2
INVARIANTS
    StatusTellsMail
    MailedOnce
    
PROPERTIES
    DecisionStands
    QueuedIsSettled
CHECK_DEADLOCK FALSE
