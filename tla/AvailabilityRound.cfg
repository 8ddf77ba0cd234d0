CONSTANTS
    v1 = v1
    v2 = v2
    s1 = s1
    couple = couple
    u1 = u1
    u2 = u2
    m1 = m1
    m2 = m2
    Volunteers = {v1, v2}
    Movers = {v2}
    Group <- MCGroup
    Name <- MCName
    Shifts = {s1}
    Pinned <- MCPinned
    Mints = {m1, m2}
    Submits = {u1, u2}
    None = None
    MaxClock = 3
    Second = 3
SPECIFICATION Spec
INVARIANTS TypeOK AnswersHaveLinks StampTellsAnswers CountedCanBeSeated
PROPERTIES LinksKeepWorking NewAnswerSupersedes AllocatedRoundSettles
SYMMETRY RequestSymmetry
CHECK_DEADLOCK FALSE
