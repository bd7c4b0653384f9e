CONSTANTS
    Threads = {t1, t2}
    Workers = {w1, w2}
    MaxRunning <- MCMaxRunning
    DefaultRetry = 2
    MaxSource = 2
    Budgets <- MCBudgets
SYMMETRY Symmetry
SPECIFICATION Spec
INVARIANTS TypeOK OutputMatchesJob RunningCap LeaseProtects
PROPERTIES SuccessNeverRegresses SuccessMarksConsolidated
