SPECIFICATION Spec
CONSTANTS
    c1 = c1
    c2 = c2
    c3 = c3
    s1 = s1
    s2 = s2
    t1 = t1
    t2 = t2
    Candidate = {c1, c2}
    Slot = {s1}
    SlotOf <- MCOneSlot
    Confidence <- MCApproved
    Restored = {c1}
    Tx = {t1, t2}
    NoTx = NoTx
    NoScore = NoScore
    Reviewer = {}
    Preview = {c1}
    Attempts = 1
    Faults = {}
    Submitter = {w1}
    Indexer = {i1}
    SubmitLimit = 1
    IndexLimit = 1
    ChainFaults = {}
CHECK_DEADLOCK FALSE
INVARIANT PreviewsStayOffChain
