CONSTANTS
    r1 = r1
    r2 = r2
    a1 = a1
    a2 = a2
    Servers = {s1}
    ServerOf <- MCOneServer
    Admins = {a1, a2}
    Editors = {e1}
    Definers = {d1}
    Rotas <- MCRotas1
    Start <- MCStart
    OwnKinds = {}
    SharedKinds = {"roles"}
    Unstamped = {}
    ReadOrder <- MCReadOrder
    Values = {0, 1}
    Seatings <- MCSeatings
    NoSeats = NoSeats
    Solve <- MCSolve
    Infeasible = Infeasible
    Refused = Refused
    Unread = Unread
    None = None
    Free = Free
    MaxClock = 2
SPECIFICATION ReadSpec
SYMMETRY AdminSymmetry
INVARIANT ReadInv
PROPERTY ReadIsFresh
