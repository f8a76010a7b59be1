CONSTANTS
    Threads = {t1, t2}
    Names = {a, b}
    Depth = 2
    NInodes = 3
    Contents = {zero, one}
    Zero = zero
    NoName = NoName
    RootName = RootName
    NoPath = NoPath
    NoFile = NoFile
SPECIFICATION Spec
SYMMETRY Symmetry
CONSTRAINT RacesUnsaved
INVARIANTS TableRight DataSecured
