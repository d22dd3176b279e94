SPECIFICATION PipelineSpec
CONSTANTS
    c1 = c1
    c2 = c2
    c3 = c3
    s1 = s1
    s2 = s2
    r1 = r1
    Candidate = {c1}
    Slot = {s1}
    SlotOf <- MCOneSlot
    Confidence <- MCAmbiguous
    Restored = {c1}
    Tx = {t1}
    NoTx = NoTx
    NoScore = NoScore
    Reviewer = {r1}
    Preview = {}
    Attempts = 1
    Faults = {}
INVARIANT EachCandidateVotesOnce
