CONSTANTS
    v1 = v1
    v2 = v2
    couple = couple
    j1 = j1
    j2 = j2
    Volunteers = {v1, v2}
    Movers = {v2}
    Addressings <- MCAddressings
    Group <- MCGroup
    Jobs = {j1, j2}
    None = None
SPECIFICATION Spec
INVARIANTS TypeOK InvitedOnce StampIsTrue ReportAccounts
PROPERTY ReminderSkipsAnswered
SYMMETRY JobSymmetry
CHECK_DEADLOCK FALSE
