SPECIFICATION Spec
CONSTANTS
    Requests = {r1, r2}
    r1 = r1
    r2 = r2
    Columns = {c1}
    c1 = c1
    Earlier = Earlier
    None = None
    Flaky = TRUE
INVARIANT TypeOK
INVARIANT OkMeansStored
INVARIANT StoresAgree
PROPERTY NoLateWrites
PROPERTY RequestAnswered
