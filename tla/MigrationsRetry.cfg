SPECIFICATION Spec
CONSTANTS
    Runs = {m1, m2}
    None = None
    MaxFailures = 1
CHECK_DEADLOCK FALSE
INVARIANT RetryTripsOnlyOverAnIndex
