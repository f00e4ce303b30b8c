CONSTANTS
    NoneV = NoneV
    ForgedKey = ForgedKey
    WrongChecksum = WrongChecksum
    XKeys <- MCXKeys
    SingleKeys <- MCSingleKeys
    Fingerprints <- MCFingerprints
    xkey_fingerprint <- MCFingerprint
    Idx = {0, 1}
    Networks = {"bitcoin", "testnet", "testnet4", "regtest"}
    Exprs <- MCExprs
    InvalidChars = {}
    ParseResult <- MCParse
    PsbtInputs <- TestPsbt

SPECIFICATION MCTestSpec
INVARIANT AgreesWithUnitTests
\* A run stops once the wallet is built and its PSBT input matched.
CHECK_DEADLOCK FALSE
