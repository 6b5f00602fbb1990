SPECIFICATION Spec
CONSTANTS
  NR_WP = 4
  NULL = null
  Expr = {e1, e2}
  Bad = bad
  Value = {0, 1}
  Zero = 0
CHECK_DEADLOCK FALSE
INVARIANTS TypeOK ListsIntact
PROPERTIES ImplementsSet PausesExactlyOnChange
