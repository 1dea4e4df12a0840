SPECIFICATION SerialFairSpec
CONSTANTS
  t1 = t1
  t2 = t2
  NULL = NULL
  Task = {t1, t2}
  rcv_bufsz = 1
  snd_bufsz = 2
  Text <- Text2
  MaxLen = 0
  Line = {"START", "STOP"}
  Ioctl <- Raw
  Released = {}
  Closes = FALSE
  ClsRaces = FALSE
  Exits = FALSE
PROPERTIES
  FullDrains
CHECK_DEADLOCK FALSE
