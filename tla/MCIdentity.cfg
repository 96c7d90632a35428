SPECIFICATION Spec
CONSTANTS
    Actors = {a1, a2}
    Customers = {c1, c2}
    Staff = {s1}
    Emails = {e1}
    Roles = {"clerk", "lead", "auditor"}
    Permissions = {"order:cancel"}
    Codes = {"order:cancel", "no:such"}
    Patches <- MCPatches
    InitialGrants <- MCInitialGrants
    MaxTokens = 3
    MaxRequests = 5
SYMMETRY Alike
INVARIANTS
    TokenWorksOnce
    NextTokenFollowsRoles
    ErasedStaysErased
PROPERTIES
    EndedSessionsStayEnded
CHECK_DEADLOCK FALSE
