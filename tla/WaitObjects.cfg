SPECIFICATION MCSpec
CONSTANTS
  t1 = t1
  t2 = t2
  s1 = s1
  f1 = f1
  f2 = f2
  d0 = d0
  d2 = d2
  p1 = p1
  ds0 = ds0
  dr0 = dr0
  ds2 = ds2
  dr2 = dr2
  ps1 = ps1
  pr1 = pr1
  fifo = fifo
  mpri = mpri
  m1 = m1
  b1 = b1
  b2 = b2
  a = a
  b = b
  c = c
  NULL = NULL
  UNINIT = UNINIT
  Task <- Task2
  torder <- Torder2
  ipriority <- Ipri2
  TaAct = {t1, t2}
  TNUM_TPRI = 1
  WaitQueue = {s1, f1, f2, ds0, dr0, ds2, dr2, ps1, pr1, fifo, mpri, m1}
  TpriQueue = {ps1}
  MaxNest = 1
  Sem = {s1}
  isemcnt <- OneSem
  maxsem <- OneSem
  Flg = {f1, f2}
  Bit = {b1, b2}
  iflgptn <- Iflgptn
  TaClr = {f2}
  TaWmul = {f1}
  Dataqueues = {d0, d2}
  dtq_swait <- DtqSwait
  dtq_rwait <- DtqRwait
  dtqcnt <- Dtqcnt
  Data = {a, b}
  PriDataqs = {p1}
  pdq_swait <- PdqSwait
  pdq_rwait <- PdqRwait
  pdqcnt <- Pdqcnt
  PriData = {a, b, c}
  datapri <- Pri
  Mbx = {fifo, mpri}
  TaMpri = {mpri}
  Msg = {a, b, c}
  msgpri <- Pri
  Mpf = {m1}
  blkcnt <- Blkcnt
  IniRaces = FALSE
INVARIANTS
  ObjTypeOK
  NothingIdle
  ReturnsWhatItGot
  ListsIntact
  OneOwner
PROPERTIES
  KeepsOrder
SYMMETRY Alike
