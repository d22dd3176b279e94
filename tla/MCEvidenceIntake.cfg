SPECIFICATION IntakeSpec
CONSTANTS
    z1 = z1
    w1 = w1
    w2 = w2
    t1 = t1
    t2 = t2
    up = up
    down = down
    later = later
    report = report
    Reading = {up, down, later, report}
    About <- MCAbout
    NoVoltage = NoVoltage
    AgreementWindow = 1
    GapLength = 1
    Request <- MCRequest
    ReadingOf <- MCReadingOf
    Sweeper = {w1, w2}
    Zone = {z1}
    RecentLimit = 3
    SweepLimit = 2
    MaxAge = 1
    MaxSkew = 0
    MaxTime = 3
SYMMETRY Alike
INVARIANTS IntakeTypeOK OncePerCandidate ConflictIsNoticed SilenceIsReal
CHECK_DEADLOCK FALSE
