SPECIFICATION FairSpec
CONSTANTS
    Nil = Nil
    Ids = {x1, x2}
    Scopes = {gsc, ga4}
    Materials = {m1, m2}
    Clients = {a, b}
INVARIANTS TypeOK
PROPERTIES ImplementsSecretMap OperationsReturn
