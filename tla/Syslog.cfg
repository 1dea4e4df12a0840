SPECIFICATION SyslogFairSpec
CONSTANTS
  f1 = f1
  NULL = NULL
  TCNT_SYSLOG_BUFFER = 2
  Flusher = {f1}
  MaxLog = 6
  MaxCount = 1
INVARIANTS
  LogInv
  NoticeIsHeard
  FlushWaits
PROPERTIES
  GapsAreTold
  AllReported
CHECK_DEADLOCK FALSE
