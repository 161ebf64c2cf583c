SPECIFICATION Spec
CONSTANTS
  IdSpace = 9
  MaxAsked = 8
  MaxBody = 2
  Nobody = Nobody
INVARIANTS
  KeptInStep
