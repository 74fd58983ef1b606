\* Two threads and two keys: commits of one key overlap, the partition rolls and is
\* cleaned, the broker crashes at any point and replays.
CONSTANTS
    w1 = w1
    w2 = w2
    k1 = k1
    k2 = k2
    Writers = {w1, w2}
    Keys = {k1, k2}
    Positions = {1, 2}
    Tombstone = Tombstone
    NoPosition = NoPosition
    NoOp = NoOp
    MaxLog = 3
SPECIFICATION Spec
SYMMETRY Interchangeable
INVARIANTS TypeOK ServedWasLogged DifferencesAreExplained
