\* Two calls on one name, every operation, an attempt and a retry of each kind.
SPECIFICATION Spec
CONSTANTS
    Calls = {c1, c2}
    MaxAttempts = 2
    MaxRetriesOnException = 1
SYMMETRY Symmetry
INVARIANTS TypeOK OncePerCall NoLostUpdate
PROPERTY AnswersAreTrue
CHECK_DEADLOCK FALSE
