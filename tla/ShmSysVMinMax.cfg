CONSTANTS
    Procs = {a, b}
    Impatient = {}
    N = 5
    RandVals = {3, 4}
    Numbers = {5, 9}
SPECIFICATION Spec
INVARIANT MinMaxCorrect
