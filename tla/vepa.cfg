\* Two clients; every command to the switch may fail and the table is one
\* entry short of what the clients can ask for.
CONSTANTS
  p1 = p1  p2 = p2
  Port = {p1, p2}
  Shared = {"m1"}
  Bcast = Bcast
  Vlan = {"v1"}
  NoVlan = NoVlan
  TableSize = 3
  Free = Free
  Width = 2
  MaxRef = 4
  MaxTrouble = 2
SYMMETRY MCSymmetry
SPECIFICATION Spec
INVARIANTS VepaInv CopiesReachReceivers NothingLeft
