SPECIFICATION Spec
CONSTANTS
  NumPipes = 7
  NumAddrs = 3
  Root = root
  Children = {c1, c2}
SYMMETRY Ports
CHECK_DEADLOCK FALSE
INVARIANTS
  TypeOK
  ExclusivePipes
  CleanAtIdle
  UniqueAddresses
PROPERTIES
  OrphanAddressesStay
  OrphansFromChildrenOnly
