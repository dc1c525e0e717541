SPECIFICATION Spec
CONSTANTS
  Interval = 5
  Hour = 3600
PROPERTIES WorkIsDone
