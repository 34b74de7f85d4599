SPECIFICATION Spec
CONSTANTS
  Width = 6
  MaxItems = 12
INVARIANT PastEndIsEmpty
