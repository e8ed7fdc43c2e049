CONSTANTS
  Units = {u1, u2}
  Places = {a}
  Amounts = {1}
  None = None
  MaxTurns = 4
  MaxRequirements = 2
SPECIFICATION Spec
PROPERTY BriefsIndependent
CHECK_DEADLOCK FALSE
SYMMETRY Symmetry
