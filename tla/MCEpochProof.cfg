SPECIFICATION Spec
CONSTANTS
    c1 = c1
    c2 = c2
    c3 = c3
    s1 = s1
    s2 = s2
    t1 = t1
    t2 = t2
    Candidate = {c1, c2}
    Slot = {s1}
    SlotOf <- MCOneSlot
    Confidence <- MCApprovedAndRejected
    Restored = {c1}
    Tx = {t1, t2}
    NoTx = NoTx
    NoScore = NoScore
    Reviewer = {r1}
    Preview = {}
    Attempts = 1
    Faults = {"abort"}
    Submitter = {w1}
    Indexer = {i1, i2}
    SubmitLimit = 1
    IndexLimit = 1
    ChainFaults = {"send", "lostAnswer", "store", "crash", "drop"}
SYMMETRY TxSymmetry
INVARIANTS LedgerCountsOnlyVetted ConfirmedHashSucceeded
PROPERTY PromiseIsKept
CHECK_DEADLOCK FALSE
