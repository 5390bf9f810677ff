\* Requests that are over leave the manager at rest.
SPECIFICATION Spec
CONSTANTS
    r1 = r1
    r2 = r2
    Requests = {r1, r2}
    NoSession = NoSession
    Publishers = {r1}
INVARIANTS
    MembersAreFound
CHECK_DEADLOCK FALSE
