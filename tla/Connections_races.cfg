SPECIFICATION Spec
CONSTANTS
    Nil = Nil
    Refs = {x1, x2, x3}
    Properties = {p1}
    Handlers = {a, b, c}
    Ops = {"set", "property", "revoke", "import"}
    Faults = TRUE
SYMMETRY Symmetric
CHECK_DEADLOCK FALSE
INVARIANTS TypeOK EnabledIsTested EnabledHasProperty NoDanglingRef NoOrphanSecret
PROPERTIES ImportNeverReplaces
