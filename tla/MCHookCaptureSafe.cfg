CONSTANTS
  Story <- Subagent
  Visitors = {v1}
  Own = own
  MaxFaults = 1
  v1 = v1
  own = own
SPECIFICATION Spec
INVARIANT TypeOK
INVARIANT NeverForgotten
INVARIANT LedgerVouches
