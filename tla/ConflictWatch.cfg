SPECIFICATION FairSpec
CONSTANTS
    Agents = {a1, a2}
    fs = fs
    Contents = {v1, v2}
    NoHash = NoHash
    Nobody = Nobody
    MaxEdits = 2
INVARIANTS
    TypeOK
    BaselineSound
    NoSilentRebase
PROPERTIES
    ReportedWriteIsTold
    QuietChangeIsTold
