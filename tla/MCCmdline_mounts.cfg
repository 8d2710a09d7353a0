\* The mount and mapping tables for every command line of up to 4 of their options.
CONSTANTS
  NULL = NULL
  Width = 16
  MiB = 16
  UidWidth = 4
  MaxArgs = 4
  InvokerUid = 1
  InvokerGid = 1
  Args <- ArgsMounts
  PasswdDB <- MCPasswd
  GroupDB <- MCGroup
  SoftLimit <- MCSoft
  HardLimit <- MCHard
SPECIFICATION Spec
PROPERTY AssemblerRefined
\* cmdlineParse returns or exits: a finished parse has no successor
CHECK_DEADLOCK FALSE
