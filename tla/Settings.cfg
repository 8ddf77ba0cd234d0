CONSTANTS
    x = x
    y = y
    lead = lead
    helper = helper
    r1 = r1
    r2 = r2
    w1 = w1
    w2 = w2
    e1 = e1
    plain = plain
    capped = capped
    Roles = {x, y}
    Names = {lead, helper}
    Ranks = {1}
    Rules = {plain, capped}
    Rotas = {r1, r2}
    Unborn = {r2}
    Writers = {w1, w2}
    Editors = {e1}
    None = None
    MaxClock = 2
SPECIFICATION Spec
INVARIANTS TypeOK DraftTellsSettings
CHECK_DEADLOCK FALSE
