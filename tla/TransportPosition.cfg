SPECIFICATION Spec
CONSTANTS
  Fields = {universalFrame, runStart, cycleTime}
  Readers = {gui}
  MaxPublish = 3
PROPERTY ReadsWhole
