SPECIFICATION FairSpec
CONSTANTS
  Tables = {t1, t2, t3}
  NoTable = NoTable
  MaxUncommitted = 2
  MaxRecords = 2
  MaxRotate = 1
  Refusable <- AllButPrepare
  MaxFaults = 1
PROPERTIES RowsHandedOver InsertsResume
