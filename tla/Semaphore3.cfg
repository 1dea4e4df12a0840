SPECIFICATION SemSpec
CONSTANTS
  t1 = t1
  t2 = t2
  t3 = t3
  s1 = s1
  NULL = NULL
  Task <- Task3
  torder <- Torder3
  ipriority <- Ipri3
  TaAct = {t1, t2, t3}
  TNUM_TPRI = 2
  Sem = {s1}
  WaitQueue = {s1}
  TpriQueue = {s1}
  isemcnt <- Isemcnt
  maxsem <- Maxsem
  MaxNest = 1
INVARIANTS
  SemInv
  QueuesInv
PROPERTIES
  KeepsPlace
CONSTRAINT PendingBound
