CONSTANTS
  Procs = {worker, single_parser}
  Guarded = {worker}
SPECIFICATION Spec
PROPERTY SeesEof
CHECK_DEADLOCK FALSE
