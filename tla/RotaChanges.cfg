CONSTANTS
    r1 = r1
    r2 = r2
    s1 = s1
    s2 = s2
    v1 = v1
    v2 = v2
    c1 = c1
    c2 = c2
    x1 = x1
    lead = lead
    team = team
    Changers = {c1, c2}
    Rotas = {r1, r2}
    Shifts = {s1, s2}
    RotaOf <- MCRotaOf
    Dates = {1, 2}
    FirstDate <- MCFirstDate
    Volunteers = {v1, v2}
    Customs = {x1}
    Roles = {lead, team}
    Seatings <- MCOneSeating
    InFlight = {r2}
    Asks <- MCAsks
    None = None
    MaxClock = 3
SPECIFICATION Spec
INVARIANT NobodyTwice NothingOnDiscarded IndInv
PROPERTY LatestTakesEffect SwapKeepsSeats
SYMMETRY ChangerSymmetry
