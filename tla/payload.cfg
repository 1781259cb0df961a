SPECIFICATION PayloadSpec
CONSTANTS
    Tasks = {t1, t2}
    Texts = {x1, x2}
    NoText = NoText
    Torn = Torn
    Calls = {p1, p2, p3}
SYMMETRY PayloadSymmetry
INVARIANTS
    PayloadTypeOK
    EveryReadVerifies
    VerifiedIsBound
PROPERTIES
    BindingIsStable
