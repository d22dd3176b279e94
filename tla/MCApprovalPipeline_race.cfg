SPECIFICATION PipelineSpec
CONSTANTS
    c1 = c1
    c2 = c2
    c3 = c3
    s1 = s1
    s2 = s2
    r1 = r1
    Candidate = {c1, c2}
    Slot = {s1}
    SlotOf <- MCOneSlot
    Confidence <- MCApproved
    Restored = {c1}
    Tx = {t1}
    NoTx = NoTx
    NoScore = NoScore
    Reviewer = {}
    Preview = {}
    Attempts = 2
    Faults = {}
INVARIANT ScoreIsApprovedSet
CHECK_DEADLOCK FALSE
