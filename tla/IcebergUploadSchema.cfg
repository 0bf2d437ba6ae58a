SPECIFICATION Spec
CONSTANTS
    Uploads = {u1}
    u1 = u1
    Columns = {c1, c2}
    c1 = c1
    c2 = c2
    Earlier = Earlier
    None = None
    Flaky = FALSE
INVARIANT SchemaReconciled
