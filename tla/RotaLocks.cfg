CONSTANTS
    f1 = f1
    f2 = f2
    f3 = f3
    Rotas = {1, 2, 3}
    Flows = {f1, f2, f3}
SPECIFICATION Spec
INVARIANTS TypeOK NoWaitCycle
SYMMETRY FlowSymmetry
