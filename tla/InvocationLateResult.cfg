SPECIFICATION Spec
CONSTANTS
    Workers = {w1, w2}
    Results = {x, y}
    Tokens = {t1, t2, t3, t4}
    NoResult = NoResult
    NoToken = NoToken
    Timely = FALSE
    MaxFailures = 0
SYMMETRY InvocationSymmetry
PROPERTY ResultIsFinal
