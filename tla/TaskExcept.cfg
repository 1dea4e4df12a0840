SPECIFICATION TexFairSpec
CONSTANTS
  t1 = t1
  t2 = t2
  b1 = b1
  NULL = NULL
  Task <- Task2
  torder <- Torder2
  ipriority <- Ipri1
  TaAct = {t1, t2}
  TNUM_TPRI = 1
  WaitQueue = {}
  TpriQueue = {}
  MaxNest = 1
  Cause = {b1}
  TexTask = {t1}
  MaxFrames = 2
INVARIANTS
  TexInv
  TexServed
PROPERTIES
  TexDelivered
