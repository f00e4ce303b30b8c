CONSTANTS
    xa = xa
    xb = xb
    xc = xc
    s1 = s1
    f0 = f0
    f1 = f1
    fc = fc
    ForgedKey = ForgedKey
    OtherScript = OtherScript
    NoneV = NoneV
    XKeys = {xa, xb, xc}
    SingleKeys = {s1}
    Fingerprints = {f0, f1, fc}
    xkey_fingerprint <- MCFingerprint
    Idx = {0, 1}
    KeyNames = {"A", "B", "F", "S", "H", "W", "M"}
    EntryKinds = {"honest", "wrongkey", "foreign"}
    MaxHd = 2

SPECIFICATION MCSpec
INVARIANTS TypeOK MatchedKeyInEvidence HonestEvidenceFound NoPanic
PROPERTY Refinement
CHECK_DEADLOCK FALSE
