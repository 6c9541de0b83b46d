SPECIFICATION Spec
CONSTANTS
  p1 = p1
  p2 = p2
  p3 = p3
  reader = reader
  writer = writer
  Procs = {p1, p2}
  Provable = {p1}
  Removers = {r1}
  Inodes = {i1}
  NoDir = NoDir
  None = None
  Marker = Marker
  Delegations = {reader, writer}
  Resources <- MCResources
  ResourcesOf <- MCResourcesOf
  Capacity <- MCCapacity
  MaxOps = 2
INVARIANTS LeasesAreSound
PROPERTIES GateImplementsTable
