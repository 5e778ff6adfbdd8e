SPECIFICATION MCSpec
CONSTANTS
    p1 = p1
    p2 = p2
    Procs = {p1, p2}
    Requests <- MCRequests
    Original <- MCOriginal
    Budgets <- MCBudgets
CHECK_DEADLOCK FALSE
PROPERTY
    MarkerOutlivesDoubt
