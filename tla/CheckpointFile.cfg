\* Two goroutines, two tables, two contents.
SPECIFICATION FairSpec
CONSTANTS
    Process = {p1, p2}
    Table = {t1, t2}
    Image = {i1, i2}
    Missing = Missing
    Torn = Torn
    Nobody = Nobody
INVARIANTS TypeOK FileNeverTorn
PROPERTIES ImplementsStore EveryCallReturns
