SPECIFICATION FairSpec
CONSTANTS
    c1 = c1
    c2 = c2
    c3 = c3
    s1 = s1
    s2 = s2
    t1 = t1
    t2 = t2
    Candidate = {c1, c2, c3}
    Slot = {s1, s2}
    SlotOf <- MCTwoSlots
    Confidence <- MCAmbiguousAndApproved
    Restored = {c1}
    Tx = {t1, t2}
    NoTx = NoTx
    NoScore = NoScore
    Reviewer = {}
    Preview = {}
    Attempts = 1
    Faults = {"redis"}
    Submitter = {w1}
    Indexer = {i1}
    SubmitLimit = 1
    IndexLimit = 1
    ChainFaults = {}
INVARIANT ApprovalIsOnItsWay
PROPERTY ApprovalIsConfirmed
CHECK_DEADLOCK FALSE
