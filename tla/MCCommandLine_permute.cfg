CONSTANTS
  NULL = NULL
  Width = 16
  MiB = 16
  UidWidth = 4
  InvokerUid = 1
  InvokerGid = 1
  MaxWords = 5
  MaxArgs = 5
  Permute = TRUE
  Words <- MCWords
  Args <- MCArgs
  PasswdDB <- MCPasswd
  GroupDB <- MCGroup
  SoftLimit <- MCSoft
  HardLimit <- MCHard
SPECIFICATION Spec
PROPERTY CommandLineRefined
\* cmdlineParse returns or exits: a finished parse has no successor
CHECK_DEADLOCK FALSE
