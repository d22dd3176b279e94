SPECIFICATION SeedSpec
CONSTANTS
    outage = outage
    restored = restored
    flicker = flicker
    s10 = s10
    s11 = s11
    t1 = t1
    t2 = t2
    Candidate = {outage, restored}
    Slot = {s10}
    SlotOf <- MCSlotOf
    Confidence <- MCConfidence
    Restored = {restored}
    Tx = {t1, t2}
    NoTx = NoTx
    NoScore = NoScore
    Reviewer = {r1}
    Preview = {}
    Attempts = 1
    Faults = {"abort"}
    Submitter = {w1}
    Indexer = {i1}
    SubmitLimit = 5
    IndexLimit = 10
    ChainFaults = {}
    SeedApproved = {outage}
    SeedDisputed = {restored}
    SeedOrder <- MCSeedOrder
    MaxSeeds = 2
SYMMETRY TxSymmetry
PROPERTY PromiseIsKept
CHECK_DEADLOCK FALSE
