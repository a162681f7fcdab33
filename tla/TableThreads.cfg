CONSTANTS
    Threads = {t1, t2}
    Rows = {r1, r2, r3}
    Columns = 2
SPECIFICATION Spec
INVARIANTS
    RowsAligned
