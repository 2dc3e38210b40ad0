SPECIFICATION Spec
CONSTANTS
  Tables = {t1, t2, t3}
  NoTable = NoTable
  MaxUncommitted = 2
  MaxRecords = 3
  MaxRotate = 1
  Refusable <- AllButDeallocate
  MaxFaults = 2
SYMMETRY TableSymmetry
INVARIANTS IInv LossBounded NoRowStranded
PROPERTIES ImplementsQueue
