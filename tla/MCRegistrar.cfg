CONSTANTS
  Names = {n1, n2}
  Uuids = {}
  Users = {u1}
  Agents = {a1, a2}
  Values = {v1}
  Targets = {n1, n2}
  NoTarget = NoTarget
  Absent = Absent
  Unset = Unset
  MaxOrder = 4
  MaxAlone = 7
VIEW WithoutLast
SYMMETRY Symmetric
SPECIFICATION Spec
INVARIANTS
  WellFormed
  ReplayReconstructs
  RegistryAgrees
PROPERTIES
  NoBypassHalt
  ChangesAreAttested
  ImplementsControl
