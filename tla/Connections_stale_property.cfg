SPECIFICATION Spec
CONSTANTS
    Nil = Nil
    Refs = {x1, x2}
    Properties = {p1}
    Handlers = {a, b}
    Ops = {"set", "property"}
    Faults = FALSE
SYMMETRY Symmetric
CHECK_DEADLOCK FALSE
INVARIANTS InstalledSecretLives
