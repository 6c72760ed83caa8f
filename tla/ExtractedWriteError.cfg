SPECIFICATION Spec
CONSTANTS
  FileSizes <- MCFileSizes
  Directory <- MCDirectory
  Faults = {"write"}
PROPERTIES
  WriteErrorEndsExtraction
CHECK_DEADLOCK FALSE
