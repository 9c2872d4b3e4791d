\* Everything that has to come to an end, one part at a time.
CONSTANTS
  Null = Null
  Day = 24
  Wanted <- Readings
  Offsets <- East
  Changes <- Change
  Midnight = 0
SPECIFICATION ProgressSpec
 
PROPERTIES   ImportEnds
CHECK_DEADLOCK FALSE
