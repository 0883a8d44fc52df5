SPECIFICATION Spec
SYMMETRY Symmetry
CONSTANTS
    Callers = {c1, c2, c3}
    admin = admin
    analyst = analyst
    newcomer = newcomer
    e1 = e1
    e2 = e2
    Users = {admin, analyst, newcomer}
    Accounts <- MCAccounts
    Requests <- MCRequests
    Faults = {"db", "crash"}
    MaxCalls = 3
    Hashes = {e1, e2}
    Flagged = {e1, e2}
    None = None
INVARIANT RightsHeldAtAdmission
INVARIANT CodeGrantsOnce
INVARIANT MfaHasEmail
INVARIANT TrailTellsStatus
INVARIANT LinkedOnce
CHECK_DEADLOCK FALSE
