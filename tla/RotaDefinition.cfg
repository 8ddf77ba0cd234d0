CONSTANTS
    x = x
    y = y
    ann = ann
    scouts = scouts
    d1 = d1
    d2 = d2
    s1 = s1
    s2 = s2
    Roles = {x, y}
    Ranks <- MCRanks
    People = {ann}
    Customs = {scouts}
    Promises <- MCPromises
    Rules <- MCRules
    Asks <- MCAsks
    Definers = {d1, d2}
    Savers = {s1, s2}
    Dates <- MCDates
    Week <- MCWeek
    None = None
    MaxEdits = 3
SPECIFICATION Spec
INVARIANTS TypeOK OneShiftPerDate AsksWholeSaves ShapeOfLatestSaves
PROPERTY SeedsKeepPromises
SYMMETRY Alike
CHECK_DEADLOCK FALSE
