CONSTANTS
    ChainTip = 4
    Capacity = 2
    MaxPresses = 2
    MaxCrashes = 2
    EmitterMayFail = TRUE
    PersistMayFail = TRUE
    Networks = {"regtest", "signet"}
    Wallets = {"w1", "w2"}
    Auths = {"cookie", "user_only"}

SPECIFICATION MCSpec
INVARIANT NoHandlerPanic
CHECK_DEADLOCK FALSE
