SPECIFICATION Spec
CONSTANTS
  c1 = c1
  a1 = a1
  a2 = a2
  a3 = a3
  a4 = a4
  a5 = a5
  a6 = a6
  Cyc <- NoCyc
  cycorder <- NoOrder
  TaSta = {}
  cyctim <- NoTime
  cycphs <- NoTime
  Alm <- Alarms
  Almtim = {0, 1}
  TimeSpan = 8
  TIC_NUME = 1
  TIC_DENO = 1
INVARIANTS
  HeapInv
SYMMETRY Alike
