CONSTANTS
  i1 = i1 i2 = i2 i3 = i3 u1 = u1 u2 = u2 h1 = h1 h2 = h2 w1 = w1 w2 = w2
  good = good other = other
  va = va vb = vb vc = vc vm = vm vo = vo
  Null = Null
  Imports = {i1, i2}
  Units = {u1}
  Mappings = {good, other}
  Complete = {good, other}
  Decided = {good, other}
  Values = {va, vb, vc, vm, vo}
  Cell <- MC_Cell
  Proposal <- MC_Proposal
  Manual = vm
  Initial <- MC_Initial
  Workers = {w1, w2}
  MaxVersion = 2 MaxRequests = 4
  MaxChanges = 2
  FlatBatches = {i1}
  FlatAdmins = {"p", "q"}
  Meanings = {good, other}
  Unreadable = {other}
  Lacking = {u1}
  RowsOf <- MC_RowsOf
  Workbooks <- MC_Workbooks
  RowPolicies = {"LEAVE_EMPTY", "EXCLUDE_ROWS"}
  MissingPolicies = {"LEAVE_UNCHANGED", "ARCHIVE"}
  MaxFlatRequests = 4
  Batches = {i1, i2, i3}
  Mixed = {i2}
  Listed = {u1, u2}
  Phases = {h1, h2}
  Words = {good}
  PhaseWord <- MC_PhaseWord
  Default <- MC_Default
  Named <- MC_Named
  Admins = {w1, w2}
  None = None
  MaxPhaseRequests = 5
SPECIFICATION ImportsSpec
INVARIANTS ImportsTyped PreviewedMapping PlacedAsPreviewed Traced Unwound
 
SYMMETRY MC_Symmetry
CHECK_DEADLOCK FALSE
