CONSTANTS
    b1 = b1
    b2 = b2
    e1 = e1
    e2 = e2
    Bridges = {b1, b2}
    Enders = {e1, e2}
    Plans <- AllPlans
    None = none
SPECIFICATION Spec
INVARIANTS TypeOK  ClosingKeepsCall
