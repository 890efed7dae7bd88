SPECIFICATION Spec
CONSTANTS
  Keys = {k1, k2, k3, k4}
  Burst = 2
  Unit = 2
  Rate = 1
  MaxKeys = 3
  MaxTime = 5
SYMMETRY Interchangeable
INVARIANTS TypeOK BoundedMap RateIsKept
PROPERTIES ImplementsLimiter OnlyTheColdestGoes
