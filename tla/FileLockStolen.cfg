SPECIFICATION Spec
CONSTANTS
  Procs = {p1, p2, p3}
  Mortal = {p1}
  MaxStarts = 3
PROPERTY
  LiveRecordKept
