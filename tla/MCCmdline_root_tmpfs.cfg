CONSTANTS
  NULL = NULL
  Width = 16
  MiB = 16
  UidWidth = 4
  MaxArgs = 2
  InvokerUid = 1
  InvokerGid = 1
  Args <- ArgsTmpfs
  PasswdDB <- MCPasswd
  GroupDB <- MCGroup
  SoftLimit <- MCSoft
  HardLimit <- MCHard
SPECIFICATION Spec
INVARIANT TmpfsEntriesCarrySize
\* cmdlineParse returns or exits: a finished parse has no successor
CHECK_DEADLOCK FALSE
