CONSTANTS
    r1 = r1
    r2 = r2
    a1 = a1
    a2 = a2
    s1 = s1
    s2 = s2
    Servers = {s1, s2}
    ServerOf <- MCTwoServers
    Admins = {a1, a2}
    Editors = {}
    Definers = {d1, d2}
    Rotas <- MCRotas2
    Start <- MCStart
    OwnKinds = {}
    SharedKinds = {"roster"}
    Unstamped = {"roster"}
    ReadOrder <- MCReadOrder
    Values = {0, 1}
    Seatings <- MCSeatings
    NoSeats = NoSeats
    Solve <- MCSolveSomeEmpty
    Infeasible = Infeasible
    Refused = Refused
    Unread = Unread
    None = None
    Free = Free
    MaxClock = 1
SPECIFICATION Spec
PROPERTY ConfirmedSpec
