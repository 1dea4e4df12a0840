SPECIFICATION FairSpec
CONSTANTS
  t1 = t1
  t2 = t2
  i1 = i1
  i2 = i2
  NULL = NULL
  Task = {t1}
  Intno = {i1}
  int_iipm <- Priority
  IIPM_LOCK = 2
  Iipm <- Masks03
  LockedReturn = FALSE
PROPERTIES
  RequestServed
