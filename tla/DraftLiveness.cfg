CONSTANTS
    r1 = r1
    r2 = r2
    a1 = a1
    a2 = a2
    s1 = s1
    s2 = s2
    Servers = {s1}
    ServerOf <- MCOneServer
    Admins = {a1, a2}
    Editors = {e1}
    Definers = {d1}
    Rotas <- MCRotas1
    Start <- MCStart
    OwnKinds = {"pins"}
    SharedKinds = {"roles"}
    Unstamped = {}
    ReadOrder <- MCReadOrder
    Values = {0, 1}
    Seatings <- MCSeatings
    NoSeats = NoSeats
    Solve <- MCSolveOrRefuse
    Infeasible = Infeasible
    Refused = Refused
    Unread = Unread
    None = None
    Free = Free
    MaxClock = 1
SPECIFICATION FairSpec
PROPERTY EveryRequestAnswered
