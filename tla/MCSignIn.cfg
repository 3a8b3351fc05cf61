SPECIFICATION SignInSpec
CONSTANTS
    h1 = h1
    h2 = h2
    r1 = r1
    k1 = k1
    k2 = k2
    None = None
    Handler = {h1, h2}
    MaxAttempts = 2
    LockoutMinutes = 1
    RecoveryCode = {r1}
    EnrolmentDue = FALSE
    Challenge = {k1, k2}
    MaxPassword = 2
    MaxSession = 2
    MaxWindow = 3
    MaxFails = 3
    Traffics <- MCTraffics
SYMMETRY Symmetric
CHECK_DEADLOCK FALSE
INVARIANTS SignInTypeOK UsedOnce
PROPERTIES  RunningLockStands
