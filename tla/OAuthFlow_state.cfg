SPECIFICATION Spec
CONSTANTS
    Nil = Nil
    Tokens = {s1, s2}
    Providers = {gsc, ga4}
    Subjects = {alice, bob}
    Requests = {a, b}
    TTL = 1
    MaxTime = 2
SYMMETRY Symmetric
INVARIANTS TypeOK SingleUse RedeemerIsInitiator
PROPERTIES TokenSurvivesStrangers
