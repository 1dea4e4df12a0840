SPECIFICATION FairSpec
CONSTANTS
  c1 = c1
  a1 = a1
  a2 = a2
  a3 = a3
  a4 = a4
  a5 = a5
  a6 = a6
  Cyc <- OneCyc
  cycorder <- Order1
  TaSta = {c1}
  cyctim <- Period1
  cycphs <- Phase1
  Alm = {a1}
  Almtim = {0, 1, 3, 7}
  TimeSpan = 16
  TIC_NUME = 5
  TIC_DENO = 3
INVARIANTS
  EventsInv
  LefttimInv
PROPERTIES
  KeepsTime
  KeepsRunning
