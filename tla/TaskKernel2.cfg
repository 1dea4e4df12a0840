SPECIFICATION FairSpec
CONSTANTS
  t1 = t1
  t2 = t2
  NULL = NULL
  Task <- Task2
  torder <- Torder2
  ipriority <- Ipri2
  TaAct = {t1}
  TNUM_TPRI = 3
  WaitQueue = {}
  TpriQueue = {}
  MaxNest = 2
INVARIANTS
  TypeOK
  ReadyQueueInv
  DispatchInv
  WaitInv
  RequestsInv
PROPERTIES
  NoPreemption
  KeepsPromise
  Scheduled
