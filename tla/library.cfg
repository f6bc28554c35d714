SPECIFICATION Spec
CONSTANTS
    Request = {r1, r2, r3, r4}
    None = None
    MediaLimit = 2
    MaxFaults = 1
INVARIANTS RowsAgree FilesMatchRows
PROPERTIES NoLostEdit
CHECK_DEADLOCK FALSE
SYMMETRY RequestSymmetry
