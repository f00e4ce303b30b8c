CONSTANTS
    ChainTip = 4
    Capacity = 2
    MaxPresses = 2
    MaxCrashes = 2
    EmitterMayFail = TRUE
    PersistMayFail = TRUE
    Networks = {"regtest", "signet"}
    Wallets = {"w1", "w2"}
    Auths = {"cookie", "user_only"}

SPECIFICATION MCSpec
INVARIANTS TypeOK BlocksConnect MempoolAfterBlocks SyncsStoredWallet
PROPERTIES CtrlCStops EndsUnlessEmitterFails
\* A process whose main returned stops; the emitter-error hang is checked by
\* MCRpcSync_hang.cfg.
CHECK_DEADLOCK FALSE
