SPECIFICATION Spec
CONSTANTS
  MaxArgs = 3
  Width = 4
INVARIANT MaxStepsArePositive
