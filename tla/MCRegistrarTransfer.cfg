CONSTANTS
  Names = {n1}
  Uuids = {}
  Users = {u1}
  Agents = {a1}
  Values = {v1}
  Targets = {n1}
  NoTarget = NoTarget
  Absent = Absent
  Unset = Unset
  MaxOrder = 3
  MaxAlone = 3
SPECIFICATION Spec
INVARIANT OwnersTransferGranted
