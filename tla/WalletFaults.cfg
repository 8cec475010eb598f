SPECIFICATION Spec
CONSTANTS
  u1 = u1  u2 = u2  r1 = r1  r2 = r2  r3 = r3  NoAddress = NoAddress
  User = {u1, u2}
  Network = {"ETH", "BSC"}
  Request = {r1, r2}
  Adversity = {"throw", "crash"}
SYMMETRY Symmetric
INVARIANTS TypeOK IndicesAreUsed FailedIsAllocated
PROPERTIES KeepsBook
