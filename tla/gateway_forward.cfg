SPECIFICATION Spec
CONSTANT Requests = {r1, r2, r3}
SYMMETRY Interchangeable
INVARIANTS TypeOK InflightIsExact CountersAreExact RetriesAreForFormat
PROPERTY VerdictIsHeeded
CHECK_DEADLOCK FALSE
