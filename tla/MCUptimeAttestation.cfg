SPECIFICATION AttestationSpec
CONSTANTS
    Zone = {z1, z2}
    EpochStart <- MCEpochStart
    Bps <- MCBps
    Hash = {h1}
    Relayer = {r1}
    Duration = {0, 2, 3}
    NoEpoch = NoEpoch
    Word = 8
    MaxNow = 4
INVARIANTS GridsAreDisjoint OnlyTheLastIsEarly
PROPERTY AttestationIsLedger
