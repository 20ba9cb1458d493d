SPECIFICATION FibSpec
CONSTANTS
  Components <- MCComponents
  Names <- MCPrefixes
  Faces = {f1, f2, f3}
  Costs <- MCCosts
INVARIANT CheapestFirst
PROPERTIES
  WithdrawalIsExact
  WithdrawalFallsThrough
SYMMETRY MCSymmetry
