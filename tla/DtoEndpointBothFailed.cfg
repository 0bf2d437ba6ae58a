SPECIFICATION SafeSpec
CONSTANTS
    Requests = {r1}
    r1 = r1
    Columns = {c1}
    c1 = c1
    Earlier = Earlier
    None = None
    Flaky = TRUE
INVARIANT BothFailedStoresNothing
