SPECIFICATION SerialSpec
CONSTANTS
  t1 = t1
  t2 = t2
  NULL = NULL
  Task = {t1, t2}
  rcv_bufsz = 2
  snd_bufsz = 2
  Text <- Text1
  MaxLen = 1
  Line = {"STOP", "LF"}
  Ioctl <- Mixed
  Released = {"wri_blk", "rea_blk"}
  Closes = TRUE
  ClsRaces = FALSE
  Exits = TRUE
INVARIANTS
  OneWriter
  OneReader
  SerialInv
PROPERTIES
  WritesInOrder
SYMMETRY Alike
CHECK_DEADLOCK FALSE
