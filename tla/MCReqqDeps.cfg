SPECIFICATION Spec
CONSTANTS
  Entries = {e1, e2, e3}
  Entry0 = e0
  Lines = {a, b}
  Quads = {1, 2}
  Masks <- FirstQuad
  Latency = 7
  Busy <- BusyAfter
  Bubble <- BubbleAfter
  MaxRequests = 4
  None = None
SYMMETRY Symmetry
INVARIANTS
  ReadsSeeLastWrite
  OneAtMesh
  WaitsEnd
  CleanedInMemory
  PendsBehindTail
