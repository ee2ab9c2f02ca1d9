CONSTANTS
  Procs = {p1, p2, p3}
  Guarded = {p1, p2, p3}
SPECIFICATION Spec
PROPERTIES SeesEof DeathIsNoticed
CHECK_DEADLOCK FALSE
