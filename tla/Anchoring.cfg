SPECIFICATION MCSpec
CONSTANTS
    a = a
    b = b
    p1 = p1
    p2 = p2
    p3 = p3
    f1 = f1
    f2 = f2
    Ops = {a, b}
    Query = query
    Original = f1
    Procs = {p1, p2, p3}
    Copies = {f1, f2}
    FileOf <- MCFileOf
    MaxGen = 2
    MaxBackups = 1
SYMMETRY OpSymmetry
INVARIANTS
    AnswersCurrent
PROPERTIES
    ImplementsAnchoredLog
