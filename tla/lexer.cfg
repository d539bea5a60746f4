SPECIFICATION Spec
CONSTANTS
  Widths = {0, 2, 4, 8}
  MaxOpen = 3
  NestedSuites = FALSE
INVARIANT BlocksFollowIndent
INVARIANT FieldsHaveStrings
PROPERTY SuitesStayInside
CHECK_DEADLOCK FALSE
