SPECIFICATION Spec
CONSTANTS
  a1 = a1
  a2 = a2
  a3 = a3
  alice = alice
  Calls = {a1, a2, a3}
  Owner <- MCOwner
  Malformed = {a1}
INVARIANTS
  OneConfPerUser
  SequentialCallsAreServed
  OnlyMalformedRejected
PROPERTIES
  EverythingSettles
