SPECIFICATION Spec
CONSTANTS
    Uploads = {u1, u2, u3}
    u1 = u1
    u2 = u2
    u3 = u3
    Columns = {c1, c2}
    c1 = c1
    c2 = c2
    Earlier = Earlier
    None = None
    Flaky = TRUE
SYMMETRY Symmetry
INVARIANT TypeOK
INVARIANT NoMixedRows
INVARIANT RowsFitTable
INVARIANT SuccessIsCommitted
INVARIANT NoEmptyTableLeft
INVARIANT CreatedTableStays
PROPERTY DropsOwnTable
PROPERTY ImplementsPublishedTable
