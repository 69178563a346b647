SPECIFICATION Spec
CONSTANTS
  k1 = k1
  k2 = k2
  Keys = {k1, k2}
  NoKey = NoKey
  MaxChanges = 2
  MaxFaults = 1
INVARIANTS TypeOK
PROPERTIES VerifiedByItsSpec AttestableIsVerified VerifiedIsWithdrawn
