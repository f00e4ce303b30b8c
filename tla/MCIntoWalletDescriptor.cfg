CONSTANTS
    xa = xa
    xb = xb
    xm = xm
    s1 = s1
    e_tprv = e_tprv
    e_xpub = e_xpub
    e_bad = e_bad
    e_char = e_char
    WrongChecksum = WrongChecksum
    NoneV = NoneV
    XKeys = {xa, xb, xm}
    SingleKeys = {s1}
    Fingerprints = {"fp"}
    xkey_fingerprint <- MCFingerprint
    Idx = {0}
    Networks = {"bitcoin", "testnet"}
    Exprs = {e_tprv, e_xpub, e_bad, e_char}
    InvalidChars = {e_char}
    ParseResult <- MCParse
    TemplateKinds = {"XPub", "Single"}

SPECIFICATION MCSpec
INVARIANTS ChecksumGuardsParse KeyMapMatchesDescriptor NetworkBound
CHECK_DEADLOCK FALSE
