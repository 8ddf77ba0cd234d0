CONSTANTS
    r1 = r1
    s1 = s1
    s2 = s2
    e1 = e1
    e2 = e2
    v1 = v1
    x1 = x1
    lead = lead
    team = team
    Editors = {e1, e2}
    Rotas = {r1}
    Unborn = {r1}
    Shifts = {s1, s2}
    RotaOf <- MCRotaOf
    Days = {1, 2}
    FirstDay <- MCFirstDay
    Volunteers = {v1}
    Customs = {x1}
    Roles = {lead, team}
    Shapes <- MCShapes
    Standing <- MCStanding
    Closable = {s1}
    None = None
    MaxPins = 3
    MaxClock = 2
SPECIFICATION Spec
INVARIANTS TypeOK PinnedOnce PinsFit
PROPERTY InputsSpec
SYMMETRY EditorSymmetry
CHECK_DEADLOCK FALSE
